----------------------------- MODULE ModbusProofs -----------------------------
(***************************************************************************)
(* Proofs about the RS485 bus: ModbusPoller for any set of slots, any      *)
(* number of retries, configurations and writes, and ModbusRtu for any     *)
(* requests and any number of them.                                        *)
(***************************************************************************)
EXTENDS ModbusPoller, ModbusRtu, SequenceTheorems, TLAPS

\* A channel that is configured now.
InUse(c) == \E i \in 1 .. Len(channels) : channels[i] = c

\* The poll index points into the list, or to its first place when it is empty.
IndexInList == index = 1 \/ index \in 1 .. Len(channels)

\* The channel at the poll index is the one the request was sent for, and a write
\* is for a channel in use: every change of the list cancels both.
ReadsItsChannel == kind = "read" => channels # <<>> /\ asked = channels[index]
WritesInUse ==
  /\ pendingWrite # NoChannel => InUse(pendingWrite)
  /\ activeWrite # NoChannel => InUse(activeWrite)

\* The retry count is that of the slot at the poll index.
RetriesOfSlot ==
  IF channels = <<>> THEN retries = 0 ELSE failures[channels[index].slot] >= retries

Polling == IndexInList /\ ReadsItsChannel /\ WritesInUse /\ RetriesOfSlot

IInv == TypeOK /\ RequestAccounting /\ Polling /\ ValueOfItsChannel

-----------------------------------------------------------------------------
(* The list of channels.                                                   *)

LEMMA ListFacts ==
  ASSUME NEW s \in Seq(Channel)
  PROVE  /\ Len(s) \in Nat
         /\ s # <<>> <=> Len(s) > 0
         /\ \A i \in 1 .. Len(s) : s[i] \in Channel
<1>1. Len(s) \in Nat /\ \A i \in 1 .. Len(s) : s[i] \in Channel
  BY LenProperties, ElementOfSeq
<1>2. s # <<>> <=> Len(s) > 0
  BY <1>1, EmptySeq
<1> QED BY <1>1, <1>2

\* Without the channel at p, the others keep their order.
LEMMA RemoveFacts ==
  ASSUME NEW s \in Seq(Channel), NEW p \in 1 .. Len(s)
  PROVE  /\ RemoveAt(s, p) \in Seq(Channel)
         /\ Len(RemoveAt(s, p)) = Len(s) - 1
         /\ \A i \in 1 .. Len(s) : i # p =>
              \E j \in 1 .. Len(RemoveAt(s, p)) : RemoveAt(s, p)[j] = s[i]
<1> DEFINE front == SubSeq(s, 1, p - 1)
           back  == SubSeq(s, p + 1, Len(s))
<1>1. Len(s) \in Nat /\ \A i \in 1 .. Len(s) : s[i] \in Channel
  BY ListFacts
<1>2. /\ front \in Seq(Channel) /\ Len(front) = p - 1
      /\ \A i \in 1 .. p - 1 : front[i] = s[i]
  BY <1>1, SubSeqProperties
<1>3. /\ back \in Seq(Channel) /\ Len(back) = Len(s) - p
      /\ \A i \in 1 .. Len(s) - p : back[i] = s[p + i]
  BY <1>1, SubSeqProperties
<1> DEFINE rest == front \o back
<1>4. RemoveAt(s, p) = rest
  BY DEF RemoveAt
<1> HIDE DEF front, back
<1>5. /\ rest \in Seq(Channel) /\ Len(rest) = Len(front) + Len(back)
      /\ \A i \in 1 .. Len(front) + Len(back) :
           rest[i] = IF i <= Len(front) THEN front[i] ELSE back[i - Len(front)]
  BY <1>2, <1>3, ConcatProperties
<1> HIDE DEF rest
<1>6. Len(rest) = Len(s) - 1
  BY <1>1, <1>2, <1>3, <1>5
<1>7. ASSUME NEW i \in 1 .. Len(s), i # p
      PROVE  \E j \in 1 .. Len(rest) : rest[j] = s[i]
  <2>1. CASE i < p
    <3>1. i \in 1 .. Len(rest) /\ rest[i] = s[i]
      BY <1>1, <1>2, <1>3, <1>5, <1>6, <2>1
    <3> QED BY <3>1
  <2>2. CASE i > p
    <3>1. /\ i - 1 \in 1 .. Len(rest) /\ i - 1 \in 1 .. Len(front) + Len(back)
          /\ i - 1 > Len(front) - 1 /\ i - 1 - Len(front) = i - p
          /\ i - p \in 1 .. Len(s) - p /\ p + (i - p) = i
      BY <1>1, <1>2, <1>3, <1>6, <2>2
    <3>2. rest[i - 1] = back[i - p]
      BY <1>1, <1>2, <1>5, <2>2, <3>1
    <3>3. back[i - p] = s[i]
      BY <1>3, <3>1
    <3> QED BY <3>1, <3>2, <3>3
  <2> QED BY <1>1, <1>7, <2>1, <2>2
<1> QED BY <1>4, <1>5, <1>6, <1>7

\* A configuration of slot t puts it in place or at the end; no other moves.
LEMMA UpsertFacts ==
  ASSUME TypeOK, NEW t \in Slots, version[t] < MaxVersion, UpsertChannel(t)
  PROVE  /\ channels' \in Seq(Channel)
         /\ Len(channels') \in {Len(channels), Len(channels) + 1} /\ channels' # <<>>
         /\ \A i \in 1 .. Len(channels) :
              /\ channels'[i].slot = channels[i].slot
              /\ channels[i].slot # t => channels'[i] = channels[i]
<1> DEFINE channel == [slot |-> t, version |-> version[t] + 1]
<1>1. channel \in Channel /\ channel.slot = t
  BY PollerAssumption DEF TypeOK, Channel
<1>2. /\ Len(channels) \in Nat
      /\ \A i \in 1 .. Len(channels) : channels[i] \in Channel
      /\ channels \in Seq(Channel)
  BY ListFacts DEF TypeOK
<1> HIDE DEF channel
<1>3. CASE Configured(t)
  <2>1. Position(t) \in 1 .. Len(channels) /\ channels[Position(t)].slot = t
    BY <1>3 DEF Configured, Position, Positions
  <2>2. channels' = [channels EXCEPT ![Position(t)] = channel]
    BY <1>3 DEF UpsertChannel, channel
  <2> DEFINE q == Position(t)
  <2> HIDE DEF q
  <2>3. q \in 1 .. Len(channels) /\ channels[q].slot = t /\ channels' = [channels EXCEPT ![q] = channel]
    BY <2>1, <2>2 DEF q
  <2>4. /\ channels' \in Seq(Channel) /\ Len(channels') = Len(channels)
        /\ \A j \in 1 .. Len(channels) : channels'[j] = IF j = q THEN channel ELSE channels[j]
    BY <1>1, <1>2, <2>3, ExceptSeq
  <2>5. channels' # <<>>
    BY <1>2, <2>3, <2>4, ListFacts
  <2> QED BY <1>1, <2>3, <2>4, <2>5
<1>4. CASE ~Configured(t)
  <2>1. channels' = Append(channels, channel)
    BY <1>4 DEF UpsertChannel, channel
  <2>2. /\ channels' \in Seq(Channel) /\ Len(channels') = Len(channels) + 1
        /\ \A j \in 1 .. Len(channels) : channels'[j] = channels[j]
    BY <1>1, <1>2, <2>1
  <2>3. channels' # <<>>
    BY <1>2, <2>2, ListFacts
  <2> QED BY <2>2, <2>3
<1> QED BY <1>3, <1>4

-----------------------------------------------------------------------------
(* The end of an attempt.                                                  *)

\* The place of the next poll.
LEMMA CurrentFacts ==
  ASSUME TypeOK, IndexInList, channels # <<>>
  PROVE  /\ index \in 1 .. Len(channels) /\ Wrapped(index, channels) = index
         /\ channels[index] \in Channel /\ channels[index].slot \in Slots
         /\ \A ok \in BOOLEAN : Advanced(ok) \in 1 .. Len(channels)
<1>1. /\ Len(channels) \in Nat /\ Len(channels) > 0
      /\ \A i \in 1 .. Len(channels) : channels[i] \in Channel
  BY ListFacts DEF TypeOK
<1>2. index \in 1 .. Len(channels)
  BY <1>1 DEF IndexInList
<1>3. Wrapped(index, channels) = index
  BY <1>1, <1>2 DEF Wrapped
<1>4. \A n \in Nat : n % Len(channels) \in 0 .. Len(channels) - 1
  BY <1>1, Z3
<1>5. ASSUME NEW ok \in BOOLEAN PROVE Advanced(ok) \in 1 .. Len(channels)
  BY <1>1, <1>2, <1>3, <1>4 DEF Advanced
<1>6. channels[index] \in Channel /\ channels[index].slot \in Slots
  BY <1>1, <1>2 DEF Channel
<1> QED BY <1>2, <1>3, <1>5, <1>6

\* finishPollAttempt for the channel at the poll index, with the value, if any,
\* that was read from it.
LEMMA FinishPollFacts ==
  ASSUME IInv, channels # <<>>, channels' = channels,
         NEW ok \in BOOLEAN, NEW from \in Value, ok => from = channels[index],
         FinishPoll(channels[index], ok, from)
  PROVE  /\ cache' \in [Slots -> Value] /\ index' \in 1 .. Len(channels)
         /\ retries' \in 0 .. MaxRetries /\ failures' \in [Slots -> 0 .. MaxRetries]
         /\ completion' \in [channel : Value, success : BOOLEAN, of : Value]
         /\ RetriesOfSlot' /\ ValueOfItsChannel'
<1> DEFINE c == channels[index]
           t == c.slot
<1>1. /\ index \in 1 .. Len(channels) /\ Wrapped(index, channels) = index
      /\ c \in Channel /\ t \in Slots /\ Advanced(ok) \in 1 .. Len(channels)
  BY CurrentFacts DEF IInv, Polling
<1>2. /\ cache \in [Slots -> Value] /\ retries \in 0 .. MaxRetries
      /\ failures \in [Slots -> 0 .. MaxRetries] /\ MaxRetries \in Nat
      /\ completion \in [channel : Value, success : BOOLEAN, of : Value]
      /\ Len(channels) \in Nat /\ failures[t] >= retries
      /\ NoChannel \in Value /\ c \in Value /\ c # NoChannel
  BY <1>1, PollerAssumption, ListFacts DEF IInv, TypeOK, Polling, RetriesOfSlot, Value
<1>3. /\ \A s \in Slots : cache[s] # NoChannel => cache[s].slot = s /\ InUse(cache[s])
      /\ completion.success => completion.of = completion.channel
  BY DEF IInv, ValueOfItsChannel, InUse
<1>4. InUse(c)
  BY <1>1 DEF InUse
<1> HIDE DEF c, t
<1>5. CASE ok \/ Exhausted
  <2>1. /\ cache' = [cache EXCEPT ![t] = IF ok THEN from ELSE NoChannel]
        /\ completion' = [channel |-> c, success |-> ok, of |-> from]
        /\ retries' = 0 /\ index' = Advanced(ok)
        /\ failures' = [failures EXCEPT ![t] = 0]
    BY <1>5 DEF FinishPoll, c, t
  <2>2. RetriesOfSlot'
    <3>1. \A s \in Slots : failures'[s] >= 0
      BY <1>1, <1>2, <2>1
    <3>2. channels[index'] \in Channel /\ channels[index'].slot \in Slots
      BY <1>1, <2>1, ListFacts DEF IInv, TypeOK, Channel
    <3> QED BY <2>1, <3>1, <3>2 DEF RetriesOfSlot
  <2>3. \A s \in Slots : cache'[s] # NoChannel => cache'[s].slot = s /\ InUse(cache'[s])
    BY <1>1, <1>2, <1>3, <1>4, <2>1 DEF c, t
  <2>4. completion'.success => completion'.of = completion'.channel
    BY <2>1 DEF c
  <2>5. ValueOfItsChannel'
    BY <2>3, <2>4 DEF ValueOfItsChannel, InUse
  <2>6. /\ cache' \in [Slots -> Value]
        /\ completion' \in [channel : Value, success : BOOLEAN, of : Value]
        /\ retries' \in 0 .. MaxRetries /\ failures' \in [Slots -> 0 .. MaxRetries]
    BY <1>1, <1>2, <2>1
  <2> QED BY <1>1, <2>1, <2>2, <2>5, <2>6
<1>6. CASE ~ok /\ ~Exhausted
  <2>1. /\ retries' = retries + 1 /\ index' = index /\ cache' = cache /\ completion' = completion
        /\ failures' = [failures EXCEPT ![t] = IF @ < MaxRetries THEN @ + 1 ELSE @]
    BY <1>1, <1>6 DEF FinishPoll, c, t
  <2>2. retries < MaxRetries
    BY <1>2, <1>6 DEF Exhausted
  <2>3. RetriesOfSlot'
    <3>1. failures'[t] >= retries'
      BY <1>1, <1>2, <2>1, <2>2
    <3> QED BY <2>1, <3>1 DEF RetriesOfSlot, c, t
  <2>4. ValueOfItsChannel'
    BY <2>1 DEF ValueOfItsChannel, IInv
  <2> QED BY <1>1, <1>2, <2>1, <2>2, <2>3, <2>4
<1> QED BY <1>5, <1>6

-----------------------------------------------------------------------------
(* The branches of ModbusComponent::loop.                                  *)

\* The invariant follows from these parts of it, which the actions disturb.
LEMMA SameList ==
  ASSUME IInv, UNCHANGED <<channels, index, retries, failures>>
  PROVE  IndexInList' /\ RetriesOfSlot' /\ channels' \in Seq(Channel)
BY DEF IInv, TypeOK, Polling, IndexInList, RetriesOfSlot

LEMMA SameValues ==
  ASSUME IInv, UNCHANGED <<channels, cache, completion>>
  PROVE  ValueOfItsChannel'
BY DEF IInv, ValueOfItsChannel

LEMMA SameRaw ==
  ASSUME IInv, UNCHANGED <<pendingRaw, rawInFlight, request>>
  PROVE  RawAccounting'
BY DEF IInv, RequestAccounting, RawAccounting

LEMMA StartReadStep ==
  ASSUME IInv, NEW ok \in BOOLEAN, StartRead(ok)
  PROVE  IInv'
<1>1. /\ channels # <<>> /\ channels' = channels /\ kind = "none"
      /\ UNCHANGED <<pendingWrite, activeWrite, pendingRaw, rawInFlight, writes, request>>
  BY DEF StartRead, queues
<1>2. /\ index \in 1 .. Len(channels) /\ Wrapped(index, channels) = index
      /\ channels[index] \in Channel
  BY <1>1, CurrentFacts DEF IInv, Polling
<1>3. /\ cache' \in [Slots -> Value] /\ index' \in 1 .. Len(channels)
      /\ retries' \in 0 .. MaxRetries /\ failures' \in [Slots -> 0 .. MaxRetries]
      /\ completion' \in [channel : Value, success : BOOLEAN, of : Value]
      /\ RetriesOfSlot' /\ ValueOfItsChannel' /\ ReadsItsChannel'
      /\ kind' \in {"none", "read"} /\ asked' \in Value
  <2>1. CASE ok
    <3>1. /\ kind' = "read" /\ asked' = channels[index] /\ index' = index
          /\ UNCHANGED <<cache, retries, completion, failures>>
      BY <1>2, <2>1 DEF StartRead
    <3>2. RetriesOfSlot' /\ ValueOfItsChannel'
      BY <1>1, <3>1, SameList, SameValues
    <3>3. ReadsItsChannel'
      BY <1>1, <3>1 DEF ReadsItsChannel
    <3> QED BY <1>2, <3>1, <3>2, <3>3 DEF IInv, TypeOK, Value
  <2>2. CASE ~ok
    <3>1. FinishPoll(channels[index], FALSE, NoChannel) /\ kind' = kind /\ asked' = asked
      BY <1>2, <2>2 DEF StartRead, bus
    <3>2. ReadsItsChannel'
      BY <1>1, <3>1 DEF ReadsItsChannel
    <3>3. NoChannel \in Value
      BY DEF Value
    <3> QED BY <1>1, <3>1, <3>2, <3>3, FinishPollFacts DEF IInv, TypeOK
  <2> QED BY <2>1, <2>2
<1>4. IndexInList'
  BY <1>1, <1>3 DEF IndexInList
<1>5. WritesInUse'
  BY <1>1 DEF IInv, Polling, WritesInUse, InUse
<1>6. RequestAccounting'
  BY <1>1, <1>3 DEF IInv, RequestAccounting, BusOwnership, RawAccounting, WriteAccounting
<1>7. TypeOK'
  BY <1>1, <1>3, ListFacts DEF IInv, TypeOK, StartRead, Iteration
<1> QED BY <1>3, <1>4, <1>5, <1>6, <1>7 DEF IInv, Polling

LEMMA EndReadStep ==
  ASSUME IInv, NEW ok \in BOOLEAN, EndRead(ok)
  PROVE  IInv'
<1>1. /\ channels' = channels /\ kind = "read" /\ kind' = "none" /\ asked' = NoChannel
      /\ UNCHANGED <<pendingWrite, activeWrite, pendingRaw, rawInFlight, writes, request>>
  BY DEF EndRead, queues
<1>2. channels # <<>> /\ asked = channels[index] /\ asked \in Value /\ NoChannel \in Value
  BY <1>1 DEF IInv, Polling, ReadsItsChannel, TypeOK, Value
<1>3. FinishPoll(channels[index], ok, IF ok THEN asked ELSE NoChannel)
  BY <1>2, CurrentFacts DEF EndRead, IInv, Polling
<1>4. /\ cache' \in [Slots -> Value] /\ index' \in 1 .. Len(channels)
      /\ retries' \in 0 .. MaxRetries /\ failures' \in [Slots -> 0 .. MaxRetries]
      /\ completion' \in [channel : Value, success : BOOLEAN, of : Value]
      /\ RetriesOfSlot' /\ ValueOfItsChannel'
  <2>1. (IF ok THEN asked ELSE NoChannel) \in Value
    BY <1>2
  <2>2. ok => (IF ok THEN asked ELSE NoChannel) = channels[index]
    BY <1>2
  <2> QED BY <1>1, <1>2, <1>3, <2>1, <2>2, FinishPollFacts
<1>5. ReadsItsChannel'
  BY <1>1 DEF ReadsItsChannel
<1>6. IndexInList'
  BY <1>1, <1>4 DEF IndexInList
<1>7. WritesInUse'
  BY <1>1 DEF IInv, Polling, WritesInUse, InUse
<1>8. RequestAccounting'
  BY <1>1 DEF IInv, RequestAccounting, BusOwnership, RawAccounting, WriteAccounting
<1>9. TypeOK'
  BY <1>1, <1>2, <1>4, ListFacts DEF IInv, TypeOK, EndRead, Iteration
<1> QED BY <1>4, <1>5, <1>6, <1>7, <1>8, <1>9 DEF IInv, Polling

\* A write that starts, or ends without the bus.
LEMMA StartWriteStep ==
  ASSUME IInv, NEW ok \in BOOLEAN, StartWrite(ok)
  PROVE  IInv'
<1>1. /\ UNCHANGED <<channels, cache, index, retries, completion, failures, pendingRaw, rawInFlight,
                     request>>
      /\ kind = "none" /\ pendingWrite # NoChannel /\ pendingWrite' = NoChannel
  BY DEF StartWrite, reads
<1>2. /\ activeWrite = NoChannel /\ rawInFlight = "none" /\ pendingWrite \in Value
      /\ InUse(pendingWrite)
  BY <1>1 DEF IInv, RequestAccounting, BusOwnership, Polling, WritesInUse, TypeOK
<1>3. CASE ok
  <2>1. kind' = "write" /\ asked' = pendingWrite /\ activeWrite' = pendingWrite /\ writes' = writes
    BY <1>3 DEF StartWrite
  <2>2. RequestAccounting'
    <3>1. writes \in [accepted : 0 .. MaxWrites, ended : Nat, dropped : Nat]
      BY DEF IInv, TypeOK
    <3>2. WriteAccounting'
      BY <1>1, <1>2, <2>1, <3>1 DEF IInv, RequestAccounting, WriteAccounting
    <3>3. BusOwnership'
      BY <1>1, <1>2, <2>1 DEF BusOwnership
    <3> QED BY <1>1, <3>2, <3>3, SameRaw DEF RequestAccounting
  <2>3. ReadsItsChannel' /\ WritesInUse'
    BY <1>1, <1>2, <2>1 DEF ReadsItsChannel, WritesInUse, InUse
  <2>4. TypeOK'
    BY <1>1, <1>2, <2>1 DEF IInv, TypeOK, StartWrite, Iteration, Value
  <2> QED BY <1>1, <2>2, <2>3, <2>4, SameList, SameValues DEF IInv, Polling
<1>4. CASE ~ok
  <2>1. /\ UNCHANGED <<kind, asked, activeWrite>>
        /\ writes' = [writes EXCEPT !.ended = @ + 1]
    BY <1>4 DEF StartWrite, bus
  <2>2. writes \in [accepted : 0 .. MaxWrites, ended : Nat, dropped : Nat]
    BY DEF IInv, TypeOK
  <2>3. WriteAccounting'
    BY <1>1, <1>2, <2>1, <2>2 DEF IInv, RequestAccounting, WriteAccounting
  <2>4. BusOwnership'
    BY <1>1, <2>1 DEF IInv, RequestAccounting, BusOwnership
  <2>5. ReadsItsChannel' /\ WritesInUse'
    BY <1>1, <1>2, <2>1 DEF ReadsItsChannel, WritesInUse, InUse
  <2>6. writes' \in [accepted : 0 .. MaxWrites, ended : Nat, dropped : Nat]
    BY <2>1, <2>2
  <2>7. TypeOK'
    BY <1>1, <1>2, <2>1, <2>6 DEF IInv, TypeOK, StartWrite, Iteration, Value
  <2> QED BY <1>1, <2>3, <2>4, <2>5, <2>7, SameList, SameValues, SameRaw
          DEF IInv, Polling, RequestAccounting
<1> QED BY <1>3, <1>4

LEMMA EndWriteStep ==
  ASSUME IInv, NEW ok \in BOOLEAN, EndWrite(ok)
  PROVE  IInv'
<1>1. /\ UNCHANGED <<channels, index, retries, completion, failures, pendingWrite, pendingRaw,
                     rawInFlight, request>>
      /\ kind = "write" /\ kind' = "none" /\ asked' = NoChannel /\ activeWrite' = NoChannel
  BY DEF EndWrite
<1>2. activeWrite # NoChannel /\ activeWrite \in Value /\ InUse(activeWrite) /\ rawInFlight = "none"
  BY <1>1 DEF IInv, RequestAccounting, BusOwnership, Polling, WritesInUse, TypeOK
<1>3. activeWrite \in Channel /\ activeWrite.slot \in Slots
  BY <1>2 DEF Value, Channel
<1>4. /\ writes' = [writes EXCEPT !.ended = @ + 1]
      /\ cache' = cache \/ cache' = [cache EXCEPT ![activeWrite.slot] = activeWrite]
  BY <1>2 DEF EndWrite
<1>5. /\ writes \in [accepted : 0 .. MaxWrites, ended : Nat, dropped : Nat]
      /\ cache \in [Slots -> Value]
  BY DEF IInv, TypeOK
<1>6. WriteAccounting'
  BY <1>1, <1>2, <1>4, <1>5 DEF IInv, RequestAccounting, WriteAccounting
<1>7. BusOwnership'
  BY <1>1, <1>2 DEF BusOwnership
<1>8. ReadsItsChannel' /\ WritesInUse'
  BY <1>1 DEF IInv, Polling, ReadsItsChannel, WritesInUse, InUse
<1>9. ValueOfItsChannel'
  <2>1. \A s \in Slots : cache'[s] # NoChannel => cache'[s].slot = s /\ InUse(cache'[s])
    BY <1>2, <1>3, <1>4, <1>5 DEF IInv, ValueOfItsChannel, InUse
  <2>2. completion'.success => completion'.of = completion'.channel
    BY <1>1 DEF IInv, ValueOfItsChannel
  <2> QED BY <1>1, <2>1, <2>2 DEF ValueOfItsChannel, InUse
<1>10. TypeOK'
  <2>1. /\ writes' \in [accepted : 0 .. MaxWrites, ended : Nat, dropped : Nat]
        /\ cache' \in [Slots -> Value]
    BY <1>2, <1>3, <1>4, <1>5
  <2> QED BY <1>1, <2>1 DEF IInv, TypeOK, EndWrite, Iteration, Value
<1> QED BY <1>1, <1>6, <1>7, <1>8, <1>9, <1>10, SameList, SameRaw
        DEF IInv, Polling, RequestAccounting

\* Raw requests leave polls and writes alone.
LEMMA StartRawStep ==
  ASSUME IInv, NEW ok \in BOOLEAN, StartRaw(ok)
  PROVE  IInv'
<1>1. /\ UNCHANGED <<channels, cache, index, retries, completion, failures, asked, pendingWrite,
                     activeWrite, writes>>
      /\ kind = "none" /\ pendingRaw # "none" /\ pendingRaw' = "none"
      /\ \/ kind' = "raw" /\ rawInFlight' = pendingRaw /\ request' = request
         \/ kind' = "none" /\ rawInFlight' = "none" /\ request' = "done"
  BY DEF StartRaw, reads
<1>2. BusOwnership' /\ RawAccounting'
  BY <1>1 DEF IInv, RequestAccounting, BusOwnership, RawAccounting
<1>3. WriteAccounting'
  BY <1>1 DEF IInv, RequestAccounting, WriteAccounting
<1>4. ReadsItsChannel' /\ WritesInUse'
  BY <1>1 DEF IInv, Polling, ReadsItsChannel, WritesInUse, InUse
<1>5. TypeOK'
  BY <1>1 DEF IInv, TypeOK, StartRaw, Iteration
<1> QED BY <1>1, <1>2, <1>3, <1>4, <1>5, SameList, SameValues DEF IInv, Polling, RequestAccounting

LEMMA EndRawStep ==
  ASSUME IInv, NEW ok \in BOOLEAN, EndRaw(ok)
  PROVE  IInv'
<1>1. /\ UNCHANGED <<channels, cache, index, retries, completion, failures, asked, pendingWrite,
                     activeWrite, pendingRaw, writes>>
      /\ kind = "raw" /\ kind' = "none" /\ rawInFlight' = "none" /\ request' = "done"
  BY DEF EndRaw, reads
<1>2. BusOwnership' /\ RawAccounting'
  BY <1>1 DEF IInv, RequestAccounting, BusOwnership, RawAccounting
<1>3. WriteAccounting'
  BY <1>1 DEF IInv, RequestAccounting, WriteAccounting
<1>4. ReadsItsChannel' /\ WritesInUse'
  BY <1>1 DEF IInv, Polling, ReadsItsChannel, WritesInUse, InUse
<1>5. TypeOK'
  BY <1>1 DEF IInv, TypeOK, EndRaw, Iteration
<1> QED BY <1>1, <1>2, <1>3, <1>4, <1>5, SameList, SameValues DEF IInv, Polling, RequestAccounting

-----------------------------------------------------------------------------
(* The steps that leave the bus alone.                                     *)

\* They may take the completed poll; nothing else of the invariant can change.
LEMMA QuietStep ==
  ASSUME IInv, TypeOK',
         UNCHANGED <<channels, cache, index, retries, failures, kind, asked, pendingWrite,
                     activeWrite, rawInFlight, writes>>,
         completion' \in {completion, Nothing}, RawAccounting'
  PROVE  IInv'
<1>1. RequestAccounting'
  BY DEF IInv, RequestAccounting, BusOwnership, WriteAccounting
<1>2. ReadsItsChannel' /\ WritesInUse'
  BY DEF IInv, Polling, ReadsItsChannel, WritesInUse, InUse
<1>3. ValueOfItsChannel'
  BY DEF IInv, ValueOfItsChannel, Nothing
<1> QED BY <1>1, <1>2, <1>3, SameList DEF IInv, Polling

LEMMA QuietActions ==
  ASSUME IInv,
         \/ ReceivePassiveFrame \/ NothingYet
         \/ SendUplink \/ UplinkFails \/ SendReturns \/ Capture \/ Join
         \/ \E origin \in Origins : QueueRaw(origin)
  PROVE  IInv'
<1> USE DEF reads, bus, queues, sends
<1>1. CASE ReceivePassiveFrame
  <2>1. TypeOK'
    <3>1. twoWayFrame' \in BOOLEAN
      BY <1>1, Zenon DEF ReceivePassiveFrame, IInv, TypeOK
    <3>2. UNCHANGED <<mode, channels, cache, index, retries, kind, asked, pendingWrite, activeWrite,
                      pendingRaw, rawInFlight, completion, basicInfo, version, failures, writes,
                      request>>
          /\ phase' = "polled" /\ uplink' = "free"
      BY <1>1 DEF ReceivePassiveFrame, Iteration
    <3> QED BY <3>1, <3>2 DEF IInv, TypeOK
  <2> QED BY <1>1, <2>1, QuietStep, SameRaw DEF ReceivePassiveFrame
<1>2. CASE NothingYet
  <2>1. TypeOK'
    BY <1>2 DEF NothingYet, Iteration, IInv, TypeOK
  <2> QED BY <1>2, <2>1, QuietStep, SameRaw DEF NothingYet
<1>3. CASE SendUplink
  <2>1. TypeOK'
    BY <1>3 DEF SendUplink, IInv, TypeOK
  <2> QED BY <1>3, <2>1, QuietStep, SameRaw DEF SendUplink
<1>4. CASE UplinkFails
  <2>1. TypeOK'
    BY <1>4 DEF UplinkFails, IInv, TypeOK
  <2> QED BY <1>4, <2>1, QuietStep, SameRaw DEF UplinkFails
<1>5. CASE SendReturns
  <2>1. TypeOK'
    <3>1. basicInfo' \in BOOLEAN /\ twoWayFrame' \in BOOLEAN
      BY <1>5, Zenon DEF SendReturns, IInv, TypeOK
    <3>2. UNCHANGED <<mode, channels, cache, index, retries, kind, asked, pendingWrite, activeWrite,
                      pendingRaw, rawInFlight, completion, version, failures, writes, request>>
          /\ phase' = "polled" /\ uplink' = "handled"
      BY <1>5 DEF SendReturns
    <3> QED BY <3>1, <3>2 DEF IInv, TypeOK
  <2> QED BY <1>5, <2>1, QuietStep, SameRaw DEF SendReturns
<1>6. CASE Capture
  <2>1. Nothing \in [channel : Value, success : BOOLEAN, of : Value]
    BY DEF Nothing, Value
  <2>2. TypeOK'
    BY <1>6, <2>1 DEF Capture, IInv, TypeOK
  <2>3. RawAccounting'
    BY <1>6 DEF Capture, IInv, RequestAccounting, RawAccounting
  <2> QED BY <1>6, <2>2, <2>3, QuietStep DEF Capture
<1>7. CASE Join
  <2>1. TypeOK'
    BY <1>7 DEF Join, IInv, TypeOK
  <2> QED BY <1>7, <2>1, QuietStep, SameRaw DEF Join
<1>8. ASSUME NEW origin \in Origins, QueueRaw(origin)
      PROVE  IInv'
  <2>1. TypeOK'
    BY <1>8 DEF QueueRaw, IInv, TypeOK
  <2>2. RawAccounting'
    BY <1>8 DEF QueueRaw, Origins, RawAccounting
  <2> QED BY <1>8, <2>1, <2>2, QuietStep DEF QueueRaw
<1> QED BY <1>1, <1>2, <1>3, <1>4, <1>5, <1>6, <1>7, <1>8

LEMMA WritePointStep ==
  ASSUME IInv, NEW s \in Slots, WritePoint(s)
  PROVE  IInv'
<1> USE DEF reads, bus, sends
<1>1. /\ UNCHANGED <<mode, channels, cache, index, retries, kind, asked, completion, failures,
                     activeWrite, pendingRaw, rawInFlight, phase, uplink, basicInfo, twoWayFrame,
                     version, request>>
      /\ pendingWrite = NoChannel /\ writes.accepted < MaxWrites
      /\ pendingWrite' = channels[Position(s)]
      /\ writes' = [writes EXCEPT !.accepted = @ + 1]
  BY DEF WritePoint
<1>2. Position(s) \in 1 .. Len(channels)
  BY DEF WritePoint, Configured, Position, Positions
<1>3. pendingWrite' \in Channel /\ pendingWrite' # NoChannel /\ InUse(pendingWrite')
  BY <1>1, <1>2, ListFacts, PollerAssumption DEF IInv, TypeOK, InUse
<1>4. writes \in [accepted : 0 .. MaxWrites, ended : Nat, dropped : Nat] /\ MaxWrites \in Nat
  BY PollerAssumption DEF IInv, TypeOK
<1>5. WriteAccounting'
  BY <1>1, <1>3, <1>4 DEF IInv, RequestAccounting, WriteAccounting
<1>6. BusOwnership'
  BY <1>1 DEF IInv, RequestAccounting, BusOwnership
<1>7. ReadsItsChannel' /\ WritesInUse'
  BY <1>1, <1>3 DEF IInv, Polling, ReadsItsChannel, WritesInUse, InUse
<1>8. TypeOK'
  <2>1. writes' \in [accepted : 0 .. MaxWrites, ended : Nat, dropped : Nat]
    BY <1>1, <1>4
  <2> QED BY <1>1, <1>3, <2>1 DEF IInv, TypeOK, Value
<1> QED BY <1>1, <1>5, <1>6, <1>7, <1>8, SameList, SameValues, SameRaw
        DEF IInv, Polling, RequestAccounting

-----------------------------------------------------------------------------
(* The actions that cancel the transaction.                                *)

\* Every request is dropped with the transaction, and counted.
LEMMA CancelFacts ==
  ASSUME IInv, CancelTransaction, ClearQueues
  PROVE  /\ RequestAccounting' /\ ReadsItsChannel' /\ WritesInUse'
         /\ kind' = "none" /\ asked' = NoChannel
         /\ pendingWrite' = NoChannel /\ activeWrite' = NoChannel
         /\ pendingRaw' = "none" /\ rawInFlight' = "none" /\ request' \in {"none", "owed", "done"}
         /\ writes' \in [accepted : 0 .. MaxWrites, ended : Nat, dropped : Nat]
<1>1. /\ kind' = "none" /\ asked' = NoChannel
      /\ pendingWrite' = NoChannel /\ activeWrite' = NoChannel
      /\ pendingRaw' = "none" /\ rawInFlight' = "none"
      /\ writes' = [writes EXCEPT !.dropped =
                      @ + (IF pendingWrite # NoChannel THEN 1 ELSE 0)
                        + (IF activeWrite # NoChannel THEN 1 ELSE 0)]
      /\ request' = IF request = "owed" THEN "none" ELSE request
  BY DEF CancelTransaction, ClearQueues
<1>2. writes \in [accepted : 0 .. MaxWrites, ended : Nat, dropped : Nat]
  BY DEF IInv, TypeOK
<1>3. WriteAccounting'
  BY <1>1, <1>2 DEF IInv, RequestAccounting, WriteAccounting
<1>4. BusOwnership' /\ RawAccounting'
  BY <1>1 DEF BusOwnership, RawAccounting
<1>5. ReadsItsChannel' /\ WritesInUse'
  BY <1>1 DEF ReadsItsChannel, WritesInUse
<1>6. request' \in {"none", "owed", "done"}
  BY <1>1 DEF IInv, TypeOK
<1> QED BY <1>1, <1>2, <1>3, <1>4, <1>5, <1>6 DEF RequestAccounting

\* Without the value of slot s, values stay those of channels that are still in
\* use when no channel of another slot left the list.
LEMMA OthersKeepValues ==
  ASSUME IInv, NEW s \in Slots, completion' \in {completion, Nothing},
         cache' = [cache EXCEPT ![s] = NoChannel],
         \A c \in Channel : c.slot # s /\ InUse(c) => \E i \in 1 .. Len(channels') : channels'[i] = c
  PROVE  ValueOfItsChannel' /\ cache' \in [Slots -> Value]
<1>1. cache \in [Slots -> Value] /\ NoChannel \in Value
  BY DEF IInv, TypeOK, Value
<1>2. ASSUME NEW t \in Slots, cache'[t] # NoChannel
      PROVE  cache'[t].slot = t /\ \E i \in 1 .. Len(channels') : channels'[i] = cache'[t]
  <2>1. t # s /\ cache'[t] = cache[t] /\ cache[t] \in Channel
    BY <1>1, <1>2 DEF Value
  <2>2. cache[t].slot = t /\ InUse(cache[t])
    BY <1>2, <2>1 DEF IInv, ValueOfItsChannel, InUse
  <2> QED BY <2>1, <2>2
<1>3. completion'.success => completion'.of = completion'.channel
  BY DEF IInv, ValueOfItsChannel, Nothing
<1> QED BY <1>1, <1>2, <1>3 DEF ValueOfItsChannel

LEMMA UpsertChannelStep ==
  ASSUME IInv, NEW s \in Slots, UpsertChannel(s)
  PROVE  IInv'
<1> USE DEF sends
<1>1. /\ CancelTransaction /\ ClearQueues /\ version[s] < MaxVersion
      /\ version' = [version EXCEPT ![s] = @ + 1]
      /\ retries' \in {retries, 0}
      /\ cache' = [cache EXCEPT ![s] = NoChannel]
      /\ UNCHANGED <<mode, index, completion, phase, uplink, basicInfo, twoWayFrame, failures>>
  BY DEF UpsertChannel
<1>2. /\ channels' \in Seq(Channel)
      /\ Len(channels') \in {Len(channels), Len(channels) + 1} /\ channels' # <<>>
      /\ \A i \in 1 .. Len(channels) :
           /\ channels'[i].slot = channels[i].slot
           /\ channels[i].slot # s => channels'[i] = channels[i]
  BY <1>1, UpsertFacts DEF IInv
<1>3. Len(channels) \in Nat /\ Len(channels') \in Nat
  BY <1>2, ListFacts DEF IInv, TypeOK
<1>4. ValueOfItsChannel' /\ cache' \in [Slots -> Value]
  <2>1. ASSUME NEW c \in Channel, c.slot # s, InUse(c)
        PROVE  \E i \in 1 .. Len(channels') : channels'[i] = c
    BY <1>2, <1>3, <2>1 DEF InUse
  <2> QED BY <1>1, <2>1, OthersKeepValues
<1>5. IndexInList'
  BY <1>1, <1>2, <1>3 DEF IInv, Polling, IndexInList
<1>6. RetriesOfSlot'
  <2>1. retries \in 0 .. MaxRetries /\ MaxRetries \in Nat /\ failures \in [Slots -> 0 .. MaxRetries]
    BY PollerAssumption DEF IInv, TypeOK
  <2>2. channels'[index'].slot \in Slots
    <3>1. index' \in 1 .. Len(channels')
      BY <1>2, <1>3, <1>5, ListFacts DEF IndexInList
    <3> QED BY <1>2, <3>1, ListFacts DEF Channel
  <2>3. failures'[channels'[index'].slot] >= retries'
    <3>1. CASE channels = <<>>
      <4>1. retries' = 0
        BY <1>1, <3>1 DEF IInv, Polling, RetriesOfSlot
      <4> QED BY <1>1, <2>1, <2>2, <4>1
    <3>2. CASE channels # <<>>
      <4>1. index \in 1 .. Len(channels)
        BY <3>2, CurrentFacts DEF IInv, Polling
      <4>2. failures[channels[index].slot] >= retries
        BY <3>2 DEF IInv, Polling, RetriesOfSlot
      <4>3. channels'[index'].slot = channels[index].slot
        BY <1>1, <1>2, <4>1
      <4> QED BY <1>1, <2>1, <2>2, <4>2, <4>3
    <3> QED BY <3>1, <3>2
  <2> QED BY <1>2, <2>3 DEF RetriesOfSlot
<1>7. TypeOK'
  <2>1. version' \in [Slots -> 0 .. MaxVersion]
    BY <1>1, PollerAssumption DEF IInv, TypeOK
  <2>2. retries' \in 0 .. MaxRetries
    BY <1>1, PollerAssumption DEF IInv, TypeOK
  <2> QED BY <1>1, <1>2, <1>4, <2>1, <2>2, CancelFacts DEF IInv, TypeOK, Value
<1> QED BY <1>1, <1>4, <1>5, <1>6, <1>7, CancelFacts DEF IInv, Polling

\* The operations that keep the list and the failures, and count from zero or on.
LEMMA KeepListStep ==
  ASSUME IInv, TypeOK', CancelTransaction, ClearQueues, retries' \in {retries, 0},
         UNCHANGED <<channels, index, failures>>, ValueOfItsChannel'
  PROVE  IInv'
<1>1. IndexInList'
  BY DEF IInv, Polling, IndexInList
<1>2. RetriesOfSlot'
  <2>1. CASE channels = <<>>
    BY <2>1 DEF IInv, Polling, RetriesOfSlot
  <2>2. CASE channels # <<>>
    <3>1. channels[index].slot \in Slots /\ failures[channels[index].slot] >= retries
      BY <2>2, CurrentFacts DEF IInv, Polling, RetriesOfSlot
    <3>2. failures[channels[index].slot] \in Nat
      BY <3>1, PollerAssumption DEF IInv, TypeOK
    <3> QED BY <2>2, <3>1, <3>2 DEF RetriesOfSlot
  <2> QED BY <2>1, <2>2
<1> QED BY <1>1, <1>2, CancelFacts DEF IInv, Polling

LEMMA RenameChannelStep ==
  ASSUME IInv, NEW s \in Slots, RenameChannel(s)
  PROVE  IInv'
<1> USE DEF sends
<1>1. /\ CancelTransaction /\ ClearQueues /\ retries' \in {retries, 0}
      /\ cache' = [cache EXCEPT ![s] = NoChannel]
      /\ UNCHANGED <<mode, channels, index, completion, phase, uplink, basicInfo, twoWayFrame,
                     version, failures>>
  BY DEF RenameChannel
<1>2. ValueOfItsChannel' /\ cache' \in [Slots -> Value]
  BY <1>1, OthersKeepValues DEF InUse
<1>3. TypeOK'
  <2>1. retries' \in 0 .. MaxRetries
    BY <1>1, PollerAssumption DEF IInv, TypeOK
  <2> QED BY <1>1, <1>2, <2>1, CancelFacts DEF IInv, TypeOK, Value
<1> QED BY <1>1, <1>2, <1>3, KeepListStep

LEMMA SettingsSteps ==
  ASSUME IInv, ApplyRs485Settings \/ \E m \in Modes : ApplyModbusMasterSettings(m)
  PROVE  IInv'
<1> USE DEF sends
<1>1. /\ CancelTransaction /\ ClearQueues /\ retries' = 0
      /\ UNCHANGED <<channels, cache, index, completion, phase, uplink, basicInfo, version,
                     failures>>
      /\ mode' \in Modes \cup {mode}
  BY DEF ApplyRs485Settings, ApplyModbusMasterSettings
<1>2. ValueOfItsChannel'
  BY <1>1, SameValues
<1>3. TypeOK'
  <2>1. retries' \in 0 .. MaxRetries /\ mode' \in AllModes
    BY <1>1, PollerAssumption DEF IInv, TypeOK
  <2>2. twoWayFrame' \in BOOLEAN
    BY Zenon DEF ApplyRs485Settings, ApplyModbusMasterSettings, IInv, TypeOK
  <2> QED BY <1>1, <2>1, <2>2, CancelFacts DEF IInv, TypeOK, Value
<1> QED BY <1>1, <1>2, <1>3, KeepListStep

LEMMA RemoveChannelStep ==
  ASSUME IInv, NEW s \in Slots, RemoveChannel(s)
  PROVE  IInv'
<1> USE DEF sends
<1> DEFINE p == Position(s)
<1>1. /\ CancelTransaction /\ ClearQueues /\ retries' = 0
      /\ channels' = RemoveAt(channels, p)
      /\ index' = Wrapped(index, channels')
      /\ cache' = [cache EXCEPT ![s] = NoChannel]
      /\ completion' \in {completion, Nothing}
      /\ failures' = [failures EXCEPT ![s] = 0]
      /\ UNCHANGED <<mode, phase, uplink, basicInfo, twoWayFrame, version>>
  BY DEF RemoveChannel
<1>2. p \in 1 .. Len(channels) /\ channels[p].slot = s
  BY DEF RemoveChannel, Configured, Position, Positions
<1> HIDE DEF p
<1>3. /\ channels' \in Seq(Channel) /\ Len(channels') = Len(channels) - 1
      /\ \A i \in 1 .. Len(channels) : i # p =>
           \E j \in 1 .. Len(channels') : channels'[j] = channels[i]
  BY <1>1, <1>2, RemoveFacts, ZenonT(60) DEF IInv, TypeOK
<1>4. Len(channels') \in Nat /\ index \in Nat \ {0}
  BY <1>3, ListFacts DEF IInv, TypeOK
<1>5. ValueOfItsChannel' /\ cache' \in [Slots -> Value]
  <2>1. ASSUME NEW c \in Channel, c.slot # s, InUse(c)
        PROVE  \E i \in 1 .. Len(channels') : channels'[i] = c
    <3>1. PICK i \in 1 .. Len(channels) : channels[i] = c
      BY <2>1 DEF InUse
    <3>2. i # p
      BY <1>2, <2>1, <3>1
    <3> QED BY <1>3, <3>1, <3>2
  <2> QED BY <1>1, <2>1, OthersKeepValues
<1>6. IndexInList' /\ index' \in Nat \ {0}
  BY <1>1, <1>4 DEF Wrapped, IndexInList
<1>7. failures' \in [Slots -> 0 .. MaxRetries] /\ retries' \in 0 .. MaxRetries
  BY <1>1, PollerAssumption DEF IInv, TypeOK
<1>8. RetriesOfSlot'
  <2>1. CASE channels' # <<>>
    <3>1. index' \in 1 .. Len(channels')
      BY <1>3, <1>4, <1>6, <2>1, ListFacts DEF IndexInList
    <3>2. channels'[index'].slot \in Slots
      BY <1>3, <3>1, ListFacts DEF Channel
    <3>3. failures'[channels'[index'].slot] >= 0
      BY <1>7, <3>2, PollerAssumption
    <3> QED BY <1>1, <2>1, <3>3 DEF RetriesOfSlot
  <2>2. CASE channels' = <<>>
    BY <1>1, <2>2 DEF RetriesOfSlot
  <2> QED BY <2>1, <2>2
<1>9. TypeOK'
  <2>1. completion' \in [channel : Value, success : BOOLEAN, of : Value]
    <3>1. Nothing \in [channel : Value, success : BOOLEAN, of : Value]
      BY DEF Nothing, Value
    <3>2. completion \in [channel : Value, success : BOOLEAN, of : Value]
      BY DEF IInv, TypeOK
    <3> QED BY <1>1, <3>1, <3>2
  <2> QED BY <1>1, <1>3, <1>5, <1>6, <1>7, <2>1, CancelFacts DEF IInv, TypeOK, Value
<1> QED BY <1>1, <1>5, <1>6, <1>8, <1>9, CancelFacts DEF IInv, Polling

-----------------------------------------------------------------------------
(* The theorems.                                                           *)

LEMMA InitStep == Init => IInv
<1> SUFFICES ASSUME Init PROVE IInv
  OBVIOUS
<1>1. TypeOK
  <2>1. channels \in Seq(Channel)
    BY DEF Init
  <2>2. Nothing \in [channel : Value, success : BOOLEAN, of : Value]
    BY DEF Nothing, Value
  <2>3. writes \in [accepted : 0 .. MaxWrites, ended : Nat, dropped : Nat]
    BY PollerAssumption DEF Init
  <2>4. version \in [Slots -> 0 .. MaxVersion] /\ failures \in [Slots -> 0 .. MaxRetries]
    BY PollerAssumption DEF Init
  <2>5. cache \in [Slots -> Value] /\ NoChannel \in Value
    BY DEF Init, Value
  <2>6. index \in Nat \ {0} /\ retries \in 0 .. MaxRetries /\ mode \in AllModes
    BY PollerAssumption DEF Init
  <2>7. basicInfo \in BOOLEAN /\ twoWayFrame \in BOOLEAN
    BY DEF Init
  <2> QED BY <2>1, <2>2, <2>3, <2>4, <2>5, <2>6, <2>7 DEF Init, TypeOK
<1>2. RequestAccounting
  BY DEF Init, RequestAccounting, BusOwnership, RawAccounting, WriteAccounting
<1>3. Polling
  BY DEF Init, Polling, IndexInList, ReadsItsChannel, WritesInUse, RetriesOfSlot
<1>4. ValueOfItsChannel
  BY DEF Init, ValueOfItsChannel, Nothing
<1> QED BY <1>1, <1>2, <1>3, <1>4 DEF IInv

LEMMA NextStep == IInv /\ [Next]_vars => IInv'
<1> SUFFICES ASSUME IInv, [Next]_vars PROVE IInv'
  OBVIOUS
<1>1. ASSUME NEW ok \in BOOLEAN,
             \/ StartRead(ok) \/ EndRead(ok) \/ StartWrite(ok) \/ EndWrite(ok)
             \/ StartRaw(ok) \/ EndRaw(ok)
      PROVE  IInv'
  BY <1>1, StartReadStep, EndReadStep, StartWriteStep, EndWriteStep, StartRawStep, EndRawStep
<1>2. CASE \/ ReceivePassiveFrame \/ NothingYet
           \/ SendUplink \/ UplinkFails \/ SendReturns \/ Capture \/ Join
           \/ \E origin \in Origins : QueueRaw(origin)
  BY <1>2, QuietActions
<1>3. ASSUME NEW s \in Slots,
             WritePoint(s) \/ UpsertChannel(s) \/ RenameChannel(s) \/ RemoveChannel(s)
      PROVE  IInv'
  BY <1>3, WritePointStep, UpsertChannelStep, RenameChannelStep, RemoveChannelStep
<1>4. CASE ApplyRs485Settings \/ \E m \in Modes : ApplyModbusMasterSettings(m)
  BY <1>4, SettingsSteps
<1>5. CASE UNCHANGED vars
  <2>1. TypeOK'
    BY <1>5 DEF vars, IInv, TypeOK
  <2> QED BY <1>5, <2>1, QuietStep, SameRaw DEF vars
<1> QED BY <1>1, <1>2, <1>3, <1>4, <1>5 DEF Next, ModbusLoop, Reconfigure, Request

LEMMA Inductive == Spec => []IInv
BY InitStep, NextStep, PTL DEF Spec

\* The state of the component and of its queues stays within its types, also
\* when downlinks reconfigure it (ModbusComponent, components/Components.h).
THEOREM TypeCorrect == Spec => []TypeOK
<1>1. IInv => TypeOK
  BY DEF IInv
<1> QED BY <1>1, Inductive, PTL

\* No flag outlives its transaction and every write accepted has one end,
\* whatever cancels it (clearPendingWrite, clearPendingRaw, cancelTransaction).
THEOREM RequestsAccounted == Spec => []RequestAccounting
<1>1. IInv => RequestAccounting
  BY DEF IInv
<1> QED BY <1>1, Inductive, PTL

\* No value is credited to another channel than the one that was asked
\* (finishPollAttempt takes the channel at the poll index).
THEOREM Values == Spec => []ValueOfItsChannel
<1>1. IInv => ValueOfItsChannel
  BY DEF IInv
<1> QED BY <1>1, Inductive, PTL

\* A failure is published with the retry count exhausted, which the failures of
\* the slot at the poll index have reached.
LEMMA FinishPollFails ==
  ASSUME IInv, channels # <<>>, NEW ok \in BOOLEAN, NEW from,
         FinishPoll(channels[Wrapped(index, channels)], ok, from),
         completion = Nothing, completion'.channel # NoChannel, ~completion'.success
  PROVE  failures[completion'.channel.slot] >= MaxRetries
<1>1. Wrapped(index, channels) = index
  BY CurrentFacts DEF IInv, Polling
<1>2. ok \/ Exhausted
  BY DEF FinishPoll, Nothing
<1>3. completion' = [channel |-> channels[index], success |-> ok, of |-> from]
  BY <1>1, <1>2 DEF FinishPoll
<1>4. retries >= MaxRetries
  BY <1>2, <1>3 DEF Exhausted
<1>5. /\ failures[channels[index].slot] >= retries
      /\ channels[index].slot \in Slots
  BY CurrentFacts DEF IInv, Polling, RetriesOfSlot
<1>6. failures[channels[index].slot] \in Nat /\ retries \in Nat /\ MaxRetries \in Nat
  BY <1>5, PollerAssumption DEF IInv, TypeOK
<1> QED BY <1>3, <1>4, <1>5, <1>6

\* A poll fails only after maxRetryTimes further attempts at its slot failed, also
\* when the list is reordered under the poll index (finishPollAttempt,
\* upsertChannel, removeChannel).
THEOREM Retries == Spec => FailureAfterRetries
<1>1. IInv /\ [Next]_vars =>
        [(completion = Nothing /\ completion'.channel # NoChannel /\ ~completion'.success) =>
           failures[completion'.channel.slot] >= MaxRetries]_vars
  <2> SUFFICES ASSUME IInv, Next, completion = Nothing,
                      completion'.channel # NoChannel, ~completion'.success
               PROVE  failures[completion'.channel.slot] >= MaxRetries
    OBVIOUS
  <2>1. completion' # completion /\ completion' # Nothing
    BY DEF Nothing
  <2>2. \E ok \in BOOLEAN : StartRead(ok) \/ EndRead(ok)
    <3>1. ASSUME NEW ok \in BOOLEAN,
                 StartWrite(ok) \/ EndWrite(ok) \/ StartRaw(ok) \/ EndRaw(ok)
          PROVE  FALSE
      BY <2>1, <3>1 DEF StartWrite, EndWrite, StartRaw, EndRaw
    <3>2. ~(\/ ReceivePassiveFrame \/ NothingYet \/ SendUplink \/ UplinkFails
            \/ SendReturns \/ Capture \/ Join \/ Request)
      BY <2>1 DEF ReceivePassiveFrame, NothingYet, SendUplink, UplinkFails, SendReturns,
                  Capture, Join, Request, WritePoint, QueueRaw
    <3>3. ~Reconfigure
      BY <2>1 DEF Reconfigure, UpsertChannel, RenameChannel, RemoveChannel,
                  ApplyRs485Settings, ApplyModbusMasterSettings
    <3> QED BY <3>1, <3>2, <3>3 DEF Next, ModbusLoop
  <2>3. PICK ok \in BOOLEAN : StartRead(ok) \/ EndRead(ok)
    BY <2>2
  <2>4. CASE StartRead(ok)
    <3>1. channels # <<>>
      BY <2>4 DEF StartRead
    <3>2. ~ok
      BY <2>1, <2>4 DEF StartRead
    <3>3. FinishPoll(channels[Wrapped(index, channels)], FALSE, NoChannel)
      BY <2>4, <3>2 DEF StartRead
    <3> QED BY <3>1, <3>3, FinishPollFails
  <2>5. CASE EndRead(ok)
    <3>1. channels # <<>>
      BY <2>1, <2>5 DEF EndRead
    <3>2. FinishPoll(channels[Wrapped(index, channels)], ok, IF ok THEN asked ELSE NoChannel)
      BY <2>5, <3>1 DEF EndRead
    <3> QED BY <3>1, <3>2, FinishPollFails
  <2> QED BY <2>3, <2>4, <2>5
<1> QED BY <1>1, Inductive, PTL DEF Spec, FailureAfterRetries

-----------------------------------------------------------------------------
(* The line.                                                               *)

UnitType == Nat \X Nat
Answer == [began : Nat, exception : BOOLEAN]

\* What the master has received since it sent the active request.
Heard == response \o rx

LineTypes ==
  /\ sent \in Seq(Requests) /\ answers \in Seq(Answer) /\ Len(answers) = Len(sent)
  /\ active \in {0, Len(sent)}
  /\ response \in Seq(UnitType) /\ rx \in Seq(UnitType)
  /\ talking \in UnitType

\* The answer on the line has begun, and goes on with a later unit.
Talking ==
  talking # Silent =>
    talking[1] \in 1 .. Len(sent) /\ answers[talking[1]].began > 0 /\ talking[2] >= 2

\* Units are of answers that have begun, and the first one of an answer is heard only if
\* the answer began after the active request was sent.
HeardUnits(w) ==
  \A i \in 1 .. Len(w) :
    /\ w[i][1] \in 1 .. Len(sent) /\ w[i][2] >= 1
    /\ answers[w[i][1]].began > 0
    /\ w[i][2] = 1 => answers[w[i][1]].began >= active

\* The answer to the active request lies in one piece behind what came before it.
OwnAnswer(w, before) ==
  /\ \A i \in 1 .. Len(w) : w[i][1] = active => w[i] = <<active, i - before>>
  /\ talking[1] = active => talking[2] = Len(w) + 1 - before

Stream == active > 0 => HeardUnits(Heard) /\ \E before \in Nat : OwnAnswer(Heard, before)

\* As long as only the answer to the active request was heard, its length is known as
\* soon as its bytes tell it.
Own(units) == \A i \in 1 .. Len(units) : units[i][1] = active
LengthAfterTwo ==
  IF answers[active].exception THEN 4 ELSE IF sent[active].kind = "write" THEN 5 ELSE 0
LengthKnown(heard, length) ==
  /\ heard < 2 => length = 0
  /\ heard = 2 => length = LengthAfterTwo
  /\ heard > 2 => length = FrameLength(active)

Reading ==
  (active > 0 /\ sent[active].kind # "raw" /\ Own(response)) =>
    /\ LengthKnown(Len(response), expected)
    /\ Len(response) > 2 => Len(response) < expected

Finished ==
  /\ result.verdict = "ok" => result.of \in 1 .. Len(sent)
  /\ TransactionsJustified

LineInv == LineTypes /\ Talking /\ Stream /\ Reading /\ Finished

-----------------------------------------------------------------------------
(* Sequences of units.                                                     *)

LEMMA HeardFacts ==
  ASSUME LineTypes
  PROVE  /\ Heard \in Seq(UnitType) /\ Len(Heard) = Len(response) + Len(rx)
         /\ Len(response) \in Nat /\ Len(rx) \in Nat
         /\ \A i \in 1 .. Len(response) : Heard[i] = response[i]
         /\ \A i \in 1 .. Len(rx) : Heard[Len(response) + i] = rx[i]
<1>1. response \in Seq(UnitType) /\ rx \in Seq(UnitType) /\ Len(response) \in Nat /\ Len(rx) \in Nat
  BY DEF LineTypes
<1>2. /\ Heard \in Seq(UnitType) /\ Len(Heard) = Len(response) + Len(rx)
      /\ \A i \in 1 .. Len(response) + Len(rx) :
           Heard[i] = IF i <= Len(response) THEN response[i] ELSE rx[i - Len(response)]
  BY <1>1, ConcatProperties DEF Heard
<1>3. ASSUME NEW i \in 1 .. Len(rx) PROVE Heard[Len(response) + i] = rx[i]
  <2>1. /\ Len(response) + i \in 1 .. Len(response) + Len(rx)
        /\ ~(Len(response) + i <= Len(response)) /\ (Len(response) + i) - Len(response) = i
    BY <1>1
  <2> QED BY <1>2, <2>1
<1> QED BY <1>1, <1>2, <1>3

LEMMA SameSequence ==
  ASSUME NEW S, NEW s \in Seq(S), NEW t \in Seq(S), Len(s) = Len(t),
         \A i \in 1 .. Len(s) : s[i] = t[i]
  PROVE  s = t
  BY SeqEqual

\* A unit arrives.
LEMMA HeardAppend ==
  ASSUME LineTypes, NEW u \in UnitType, rx' = Append(rx, u), response' = response
  PROVE  /\ Heard' \in Seq(UnitType) /\ Len(Heard') = Len(Heard) + 1
         /\ \A i \in 1 .. Len(Heard) : Heard'[i] = Heard[i]
         /\ Heard'[Len(Heard) + 1] = u
<1> DEFINE r == response
           x == rx
           y == Append(rx, u)
<1>1. /\ r \in Seq(UnitType) /\ x \in Seq(UnitType) /\ Len(r) \in Nat /\ Len(x) \in Nat
      /\ y \in Seq(UnitType) /\ Len(y) = Len(x) + 1 /\ y[Len(x) + 1] = u
      /\ \A i \in 1 .. Len(x) : y[i] = x[i]
  BY DEF LineTypes
<1>2. Heard = r \o x /\ Heard' = r \o y
  BY DEF Heard
<1> HIDE DEF r, x, y
<1>3. /\ r \o x \in Seq(UnitType) /\ Len(r \o x) = Len(r) + Len(x)
      /\ \A i \in 1 .. Len(r) + Len(x) : (r \o x)[i] = IF i <= Len(r) THEN r[i] ELSE x[i - Len(r)]
  BY <1>1, ConcatProperties
<1>4. /\ r \o y \in Seq(UnitType) /\ Len(r \o y) = Len(r) + Len(y)
      /\ \A i \in 1 .. Len(r) + Len(y) : (r \o y)[i] = IF i <= Len(r) THEN r[i] ELSE y[i - Len(r)]
  BY <1>1, ConcatProperties
<1>5. ASSUME NEW i \in 1 .. Len(r) + Len(x) PROVE (r \o y)[i] = (r \o x)[i]
  <2>1. i \in 1 .. Len(r) + Len(y) /\ (i <= Len(r) \/ i - Len(r) \in 1 .. Len(x))
    BY <1>1
  <2> QED BY <1>1, <1>3, <1>4, <2>1
<1>6. (r \o y)[Len(r) + Len(x) + 1] = u
  <2> DEFINE i == Len(r) + Len(x) + 1
  <2>1. i \in 1 .. Len(r) + Len(y) /\ ~(i <= Len(r)) /\ i - Len(r) = Len(x) + 1
    BY <1>1
  <2> HIDE DEF i
  <2>2. (r \o y)[i] = y[i - Len(r)]
    BY <1>4, <2>1
  <2> QED BY <1>1, <2>1, <2>2 DEF i
<1> QED BY <1>1, <1>2, <1>3, <1>4, <1>5, <1>6

\* The master takes a unit from the receive buffer.
LEMMA HeardTaken ==
  ASSUME LineTypes, rx # <<>>
  PROVE  /\ Append(response, Head(rx)) \in Seq(UnitType)
         /\ Len(Append(response, Head(rx))) = Len(response) + 1
         /\ Len(response) + 1 <= Len(Heard)
         /\ \A i \in 1 .. Len(response) + 1 : Append(response, Head(rx))[i] = Heard[i]
         /\ Tail(rx) \in Seq(UnitType)
         /\ Append(response, Head(rx)) \o Tail(rx) = Heard
<1> DEFINE r == response
           x == rx
           y == Append(response, Head(rx))
           z == Tail(rx)
<1>1. /\ r \in Seq(UnitType) /\ x \in Seq(UnitType) /\ Len(r) \in Nat /\ Len(x) \in Nat /\ Len(x) > 0
      /\ Head(x) \in UnitType /\ Head(x) = x[1]
      /\ z \in Seq(UnitType) /\ Len(z) = Len(x) - 1 /\ \A i \in 1 .. Len(x) - 1 : z[i] = x[i + 1]
  BY HeadTailProperties, EmptySeq DEF LineTypes
<1>2. /\ y \in Seq(UnitType) /\ Len(y) = Len(r) + 1 /\ y[Len(r) + 1] = x[1]
      /\ \A i \in 1 .. Len(r) : y[i] = r[i]
  BY <1>1
<1>3. Heard = r \o x
  BY DEF Heard
<1> HIDE DEF r, x, y, z
<1>4. /\ r \o x \in Seq(UnitType) /\ Len(r \o x) = Len(r) + Len(x)
      /\ \A i \in 1 .. Len(r) + Len(x) : (r \o x)[i] = IF i <= Len(r) THEN r[i] ELSE x[i - Len(r)]
  BY <1>1, ConcatProperties
<1>5. /\ y \o z \in Seq(UnitType) /\ Len(y \o z) = Len(y) + Len(z)
      /\ \A i \in 1 .. Len(y) + Len(z) : (y \o z)[i] = IF i <= Len(y) THEN y[i] ELSE z[i - Len(y)]
  BY <1>1, <1>2, ConcatProperties
<1>6. \A i \in 1 .. Len(r) + 1 : y[i] = (r \o x)[i]
  <2> SUFFICES ASSUME NEW i \in 1 .. Len(r) + 1 PROVE y[i] = (r \o x)[i]
    OBVIOUS
  <2>1. i \in 1 .. Len(r) + Len(x) /\ (i \in 1 .. Len(r) \/ (i = Len(r) + 1 /\ i - Len(r) = 1))
    BY <1>1
  <2> QED BY <1>1, <1>2, <1>4, <2>1
<1>7. y \o z = r \o x
  <2>1. Len(y \o z) = Len(r \o x)
    BY <1>1, <1>2, <1>4, <1>5
  <2>2. ASSUME NEW i \in 1 .. Len(r \o x) PROVE (y \o z)[i] = (r \o x)[i]
    <3>1. i \in 1 .. Len(y) + Len(z) /\ i \in 1 .. Len(r) + Len(x)
      BY <1>1, <1>2, <1>4
    <3>2. CASE i <= Len(y)
      <4>1. i \in 1 .. Len(r) + 1 /\ (y \o z)[i] = y[i]
        BY <1>1, <1>2, <1>5, <3>1, <3>2
      <4> QED BY <1>6, <4>1
    <3>3. CASE ~(i <= Len(y))
      <4>1. /\ (y \o z)[i] = z[i - Len(y)] /\ (r \o x)[i] = x[i - Len(r)]
            /\ i - Len(y) \in 1 .. Len(x) - 1 /\ (i - Len(y)) + 1 = i - Len(r)
        BY <1>1, <1>2, <1>4, <1>5, <3>1, <3>3
      <4> QED BY <1>1, <4>1
    <3> QED BY <3>2, <3>3
  <2> QED BY <1>4, <1>5, <2>1, <2>2, SameSequence
<1>8. Len(r) + 1 <= Len(r \o x)
  BY <1>1, <1>4
<1> QED BY <1>1, <1>2, <1>3, <1>6, <1>7, <1>8 DEF r, x, y, z

\* What is known of a request and of its answer.
LEMMA RequestFacts ==
  ASSUME LineTypes, NEW n \in 1 .. Len(sent)
  PROVE  /\ sent[n].kind \in {"read", "raw", "write"} /\ sent[n].count \in 0 .. MaxCount
         /\ sent[n].kind = "read" => sent[n].function # "single"
         /\ answers[n].began \in Nat /\ answers[n].exception \in BOOLEAN
         /\ FrameLength(n) \in Nat /\ FrameLength(n) >= 4
         /\ sent[n].kind = "write" => FrameLength(n) <= 5
<1>1. sent[n] \in Requests /\ answers[n] \in Answer /\ Requests \subseteq Shapes /\ MaxCount \in Nat
  BY RequestAssumption DEF LineTypes
<1>2. /\ sent[n].kind \in {"read", "raw", "write"} /\ sent[n].count \in 0 .. MaxCount
      /\ sent[n].kind = "read" => sent[n].function # "single"
  BY <1>1 DEF Shapes
<1> QED BY <1>1, <1>2 DEF FrameLength, Answer

\* Own units that were heard from the beginning are the first units of the answer.
LEMMA OwnPrefix ==
  ASSUME active > 0, active \in Nat, Heard \in Seq(UnitType), Stream,
         NEW k \in Nat, k <= Len(Heard), \A i \in 1 .. k : Heard[i][1] = active
  PROVE  \A i \in 1 .. k : Heard[i] = <<active, i>>
<1>1. SUFFICES ASSUME NEW j \in 1 .. k PROVE Heard[j] = <<active, j>>
  OBVIOUS
<1>2. PICK before \in Nat : OwnAnswer(Heard, before)
  BY DEF Stream
<1>3. Len(Heard) \in Nat /\ 1 \in 1 .. k /\ 1 \in 1 .. Len(Heard) /\ j \in 1 .. Len(Heard)
  BY <1>1
<1>4. Heard[1] = <<active, 1 - before>> /\ Heard[j] = <<active, j - before>>
  BY <1>1, <1>2, <1>3 DEF OwnAnswer
<1>5. Heard[1][2] >= 1
  BY <1>3 DEF Stream, HeardUnits
<1>6. 1 - before >= 1
  BY <1>4, <1>5
<1>7. before = 0
  BY <1>2, <1>6
<1>8. j - before = j
  BY <1>7, <1>1
<1> QED BY <1>4, <1>8

\* The answer found is whole and is one of those that have begun.
LEMMA CheckedFacts ==
  ASSUME LineTypes, NEW units, Checked(units) # 0
  PROVE  /\ Checked(units) \in 1 .. Len(sent) /\ answers[Checked(units)].began > 0
         /\ units = [i \in 1 .. FrameLength(Checked(units)) |-> Unit(Checked(units), i)]
<1> DEFINE Whole(n) == /\ answers[n].began > 0
                       /\ units = [i \in 1 .. FrameLength(n) |-> Unit(n, i)]
           whole == {n \in 1 .. Len(sent) : Whole(n)}
<1>1. Checked(units) = IF whole = {} THEN 0 ELSE CHOOSE n \in whole : TRUE
  BY DEF Checked
<1> HIDE DEF Whole
<1>2. whole # {} /\ Checked(units) = CHOOSE n \in whole : TRUE
  BY <1>1
<1>3. Checked(units) \in whole
  BY <1>2, Zenon
<1>4. Checked(units) \in 1 .. Len(sent) /\ Whole(Checked(units))
  BY <1>3
<1> QED BY <1>4 DEF Whole

LEMMA WholeFacts ==
  ASSUME LineTypes, NEW n \in 1 .. Len(sent), NEW units,
         units = [i \in 1 .. FrameLength(n) |-> Unit(n, i)]
  PROVE  /\ units \in Seq(UnitType) /\ Len(units) = FrameLength(n)
         /\ 1 \in 1 .. Len(units) /\ units[1] = <<n, 1>>
<1>1. FrameLength(n) \in Nat /\ FrameLength(n) >= 4
  BY RequestFacts
<1>2. Len(sent) \in Nat /\ \A i \in 1 .. FrameLength(n) : Unit(n, i) \in UnitType
  BY <1>1 DEF LineTypes, Unit, UnitType
<1>3. units \in Seq(UnitType) /\ Len(units) = FrameLength(n)
  BY <1>1, <1>2
<1> QED BY <1>1, <1>3 DEF Unit

\* What AnswerFits says of the active transaction, if the answer to n serves it.
MayServe(n) ==
  /\ n \in 1 .. active /\ answers[n].began >= active
  /\ sent[n].slave = sent[active].slave
  /\ sent[active].kind = "read" => sent[n].count = sent[active].count
  /\ sent[active].function = "single" => sent[n].value = sent[active].value

\* A success is that of an answer that began after the request and fits it.
LEMMA OkFits ==
  ASSUME LineTypes, active > 0, HeardUnits(Heard), NEW units,
         Len(units) <= Len(Heard), \A i \in 1 .. Len(units) : units[i] = Heard[i],
         Verdict(units) = "ok"
  PROVE  MayServe(Checked(units))
<1> DEFINE n == Checked(units)
<1>1. n # 0 /\ Fits(n) /\ ~answers[n].exception
  BY DEF Verdict
<1>2. /\ n \in 1 .. Len(sent) /\ answers[n].began > 0
      /\ units = [i \in 1 .. FrameLength(n) |-> Unit(n, i)]
  BY <1>1, CheckedFacts
<1> HIDE DEF n
<1>3. 1 \in 1 .. Len(units) /\ units[1] = <<n, 1>> /\ Len(units) \in Nat
  <2>1. units \in Seq(UnitType) /\ 1 \in 1 .. Len(units) /\ units[1] = <<n, 1>>
    BY <1>2, WholeFacts
  <2> QED BY <2>1
<1>4. 1 \in 1 .. Len(Heard) /\ Heard[1] = <<n, 1>>
  BY <1>3, HeardFacts
<1>5. answers[n].began >= active
  BY <1>4 DEF HeardUnits
<1>6. active = Len(sent) /\ active \in 1 .. Len(sent)
  BY <1>2 DEF LineTypes
<1>7. sent[active].kind = "read" => sent[active].function # "single"
  BY <1>6, RequestFacts
<1>8. /\ sent[n].slave = sent[active].slave
      /\ sent[active].kind = "read" => sent[n].count = sent[active].count
      /\ sent[active].function = "single" => sent[n].value = sent[active].value
  BY <1>1, <1>7 DEF Fits
<1> QED BY <1>2, <1>5, <1>6, <1>8 DEF n, MayServe

\* The whole answer to the active request does not fail.
LEMMA OwnWhole ==
  ASSUME LineTypes, active > 0, answers[active].began > 0, sent[active].kind # "raw",
         NEW units \in Seq(UnitType), Len(units) = FrameLength(active),
         \A i \in 1 .. Len(units) : units[i] = <<active, i>>
  PROVE  Verdict(units) # "failed"
<1> DEFINE n == Checked(units)
           frame(k) == [i \in 1 .. FrameLength(k) |-> Unit(k, i)]
<1>1. active \in 1 .. Len(sent) /\ active = Len(sent)
  BY DEF LineTypes
<1>2. frame(active) \in Seq(UnitType) /\ Len(frame(active)) = FrameLength(active)
  BY <1>1, WholeFacts
<1>3. \A i \in 1 .. Len(units) : units[i] = frame(active)[i]
  BY DEF Unit
<1>4. units = frame(active)
  BY <1>2, <1>3, SameSequence
<1>5. n # 0
  <2> DEFINE whole == {k \in 1 .. Len(sent) : answers[k].began > 0 /\ units = frame(k)}
  <2>1. active \in whole /\ 0 \notin whole
    BY <1>1, <1>4
  <2>2. n = IF whole = {} THEN 0 ELSE CHOOSE k \in whole : TRUE
    BY DEF Checked
  <2> HIDE DEF whole
  <2>3. n \in whole
    BY <2>1, <2>2, Zenon
  <2> QED BY <2>1, <2>3
<1>6. n \in 1 .. Len(sent) /\ units = frame(n)
  BY <1>5, CheckedFacts
<1>7. units[1] = <<n, 1>> /\ units[1] = <<active, 1>>
  <2>1. units[1] = <<n, 1>>
    BY <1>6, WholeFacts
  <2>2. units[1] = <<active, 1>>
    BY <1>1, <1>4, WholeFacts
  <2> QED BY <2>1, <2>2
<1>8. n = active
  BY <1>7
<1>9. sent[active].kind \in {"read", "raw", "write"}
  BY <1>1, RequestFacts
<1>10. Fits(active)
  BY <1>9 DEF Fits
<1>11. n = active /\ n # 0 /\ Fits(n)
  BY <1>5, <1>8, <1>10
<1> QED BY <1>11 DEF Verdict

\* The length the master expects next, when the answer has only proper units.
LEMMA LengthsOfTwo ==
  ASSUME NEW units, Last(units)[1] = active, Last(units)[2] = Len(units), Len(units) = 2,
         Len(units) # 3
  PROVE  Lengths(units) = {LengthAfterTwo}
<1>1. Lengths(units) = {IF answers[Last(units)[1]].exception THEN 4
                        ELSE IF sent[active].kind = "write" THEN 5 ELSE 0}
  BY Zenon DEF Lengths
<1> QED BY <1>1 DEF LengthAfterTwo

LEMMA TwoAndThree ==
  /\ \A u, r \in Nat : u = r + 1 /\ u = 3 => r = 2 /\ u # 2
  /\ \A u \in Nat : u = 2 => u # 3
  OBVIOUS

LEMMA LengthsOfThree ==
  ASSUME NEW units, Last(units)[1] = active, Last(units)[2] = Len(units), Len(units) = 3,
         Len(units) # 2, sent[active].kind # "write", expected = 0
  PROVE  Lengths(units) = {4 + sent[active].count}
  BY Zenon DEF Lengths

LEMMA LengthsAfter ==
  ASSUME NEW units, Len(units) # 2,
         Len(units) # 3 \/ sent[active].kind = "write" \/ expected # 0
  PROVE  Lengths(units) = {expected}
  BY Zenon DEF Lengths

LEMMA KnownLength ==
  ASSUME NEW u \in Nat, u >= 1, NEW length,
         FrameLength(active) \in Nat, FrameLength(active) >= 4,
         u = 1 => length = 0,
         u = 2 => length = LengthAfterTwo,
         u > 2 => length = FrameLength(active) /\ u <= length
  PROVE  /\ LengthKnown(u, length)
         /\ u <= 2 => length = 0 \/ u < length
         /\ u > 2 => length > 0 /\ u <= length
<1>1. LengthAfterTwo \in {0, 4, 5}
  BY DEF LengthAfterTwo
<1> QED BY <1>1 DEF LengthKnown

\* The master reads the length of the answer it hears as soon as its units tell it, and
\* never hears more of it than that.
LEMMA NextLength ==
  ASSUME LineTypes, active > 0, Reading, sent[active].kind # "raw",
         NEW units \in Seq(UnitType), Len(units) = Len(response) + 1,
         \A i \in 1 .. Len(response) : units[i] = response[i],
         \A i \in 1 .. Len(units) : units[i] = <<active, i>>,
         NEW length \in Lengths(units)
  PROVE  /\ LengthKnown(Len(units), length)
         /\ Len(units) <= 2 => length = 0 \/ Len(units) < length
         /\ Len(units) > 2 => length > 0 /\ Len(units) <= length
<1> DEFINE u == Len(units)
           r == Len(response)
           F == FrameLength(active)
           K == LengthAfterTwo
<1>1. /\ active \in 1 .. Len(sent) /\ r \in Nat
      /\ u \in Nat /\ u >= 1 /\ u = r + 1
  BY DEF LineTypes
<1>2. F \in Nat /\ F >= 4
  BY <1>1, RequestFacts
<1>3. Own(response)
  BY <1>1 DEF Own
<1>4. LengthKnown(r, expected) /\ (r > 2 => r < expected)
  BY <1>3 DEF Reading
<1>5. /\ r < 2 => expected = 0
      /\ r = 2 => expected = K
      /\ r > 2 => expected = F /\ r < expected
  BY <1>4 DEF LengthKnown
<1>6. Last(units) = <<active, u>>
  BY <1>1 DEF Last
<1>7. Last(units)[1] = active /\ Last(units)[2] = u
  BY <1>6
<1>8. ASSUME u = 1 PROVE length = 0
  <2>1. Lengths(units) = {expected}
    BY <1>8, LengthsAfter
  <2>2. r < 2
    BY <1>1, <1>8
  <2> QED BY <1>5, <2>1, <2>2
<1>9. ASSUME u = 2 PROVE length = LengthAfterTwo
  <2>1. u # 3
    BY <1>1, <1>9, TwoAndThree, Zenon
  <2>2. Lengths(units) = {LengthAfterTwo}
    BY <1>7, <1>9, <2>1, LengthsOfTwo
  <2> QED BY <2>2
<1>10. ASSUME u = 3 PROVE length = F
  <2>1. r = 2 /\ u # 2
    BY <1>1, <1>10, TwoAndThree, Zenon
  <2>2. expected = LengthAfterTwo
    BY <1>5, <2>1
  <2>3. CASE sent[active].kind # "write" /\ expected = 0
    <3>1. Lengths(units) = {4 + sent[active].count}
      BY <1>7, <1>10, <2>1, <2>3, LengthsOfThree
    <3>2. ~answers[active].exception
      BY <2>2, <2>3 DEF LengthAfterTwo
    <3> QED BY <2>3, <3>1, <3>2 DEF FrameLength
  <2>4. CASE ~(sent[active].kind # "write" /\ expected = 0)
    <3>1. Lengths(units) = {expected}
      BY <2>1, <2>4, LengthsAfter
    <3>2. expected = F
      BY <2>2, <2>4 DEF LengthAfterTwo, FrameLength
    <3> QED BY <3>1, <3>2
  <2> QED BY <2>3, <2>4
<1>11. ASSUME u > 3 PROVE length = F /\ u <= length
  <2>1. r > 2 /\ u # 2 /\ u # 3
    BY <1>1, <1>11
  <2>2. Lengths(units) = {expected}
    BY <2>1, LengthsAfter
  <2>3. length = expected /\ expected = F /\ r < F
    BY <1>5, <2>1, <2>2
  <2> HIDE DEF u, r, F
  <2> QED BY <1>1, <1>2, <2>3
<1> HIDE DEF u, r, F, K
<1>12. u > 2 => length = F /\ u <= length
  <2>1. u > 2 => u = 3 \/ u > 3
    BY <1>1
  <2> QED BY <1>1, <1>2, <1>10, <1>11, <2>1
<1> QED BY <1>1, <1>2, <1>8, <1>9, <1>12, KnownLength DEF u, F

-----------------------------------------------------------------------------
(* The steps of the line.                                                  *)

\* A finished transaction stays justified while requests are added and answers begin.
LEMMA FinishedKept ==
  ASSUME Finished, LineTypes, result' = result, Len(sent') \in Nat, Len(sent') >= Len(sent),
         \A n \in 1 .. Len(sent) : sent'[n] = sent[n],
         \A n \in 1 .. Len(sent) : answers[n].began > 0 => answers'[n] = answers[n]
  PROVE  Finished'
<1>1. FailureHasCause'
  BY DEF Finished, TransactionsJustified, FailureHasCause
<1>2. ASSUME result.verdict = "ok"
      PROVE  result.of \in 1 .. Len(sent') /\ AnswerFits'
  <2>1. /\ result.of \in 1 .. Len(sent) /\ result.from \in 1 .. result.of
        /\ answers[result.from].began >= result.of
    BY <1>2 DEF Finished, TransactionsJustified, AnswerFits
  <2>2. Len(sent) \in Nat
    BY DEF LineTypes
  <2>3. result.from \in 1 .. Len(sent) /\ result.of \in 1 .. Len(sent')
    BY <2>1, <2>2
  <2>4. answers[result.from] \in Answer
    BY <2>3 DEF LineTypes
  <2>5. answers[result.from].began > 0
    BY <2>1, <2>4 DEF Answer
  <2>6. /\ answers'[result.from] = answers[result.from]
        /\ sent'[result.from] = sent[result.from] /\ sent'[result.of] = sent[result.of]
    BY <2>1, <2>3, <2>5
  <2>7. AnswerFits'
    BY <2>1, <2>6 DEF Finished, TransactionsJustified, AnswerFits
  <2> QED BY <2>3, <2>7
<1>3. (result.verdict = "ok") => AnswerFits'
  BY <1>2
<1>4. AnswerFits'
  BY <1>3 DEF AnswerFits
<1> QED BY <1>1, <1>2, <1>4 DEF Finished, TransactionsJustified

\* A transaction ends.
LEMMA EndStep ==
  ASSUME LineInv, active > 0, NEW verdict, NEW from, NEW late \in BOOLEAN, NEW units,
         Finish(verdict, from, late, units), UNCHANGED <<sent, answers, talking>>,
         rx' \in Seq(UnitType),
         verdict = "ok" => MayServe(from),
         verdict = "failed" => late \/ \E i \in 1 .. Len(units) : units[i][1] # active
  PROVE  LineInv'
<1> DEFINE mix == \E i \in 1 .. Len(units) : units[i][1] # active
<1> HIDE DEF mix
<1>1. /\ active' = 0 /\ response' = <<>> /\ expected' = 0
      /\ result' = [of |-> active, from |-> from, verdict |-> verdict, timeout |-> late,
                    mixed |-> mix]
  BY DEF Finish, mix
<1>2. /\ result'.of = active /\ result'.from = from /\ result'.verdict = verdict
      /\ result'.timeout = late /\ result'.mixed = mix
  BY <1>1
<1>3. LineTypes'
  <2>1. /\ sent' = sent /\ answers' = answers /\ talking' = talking /\ response' = <<>>
        /\ <<>> \in Seq(UnitType)
    BY <1>1
  <2> QED BY <1>1, <2>1 DEF LineInv, LineTypes
<1>4. Talking'
  BY DEF LineInv, Talking
<1>5. Stream' /\ Reading'
  BY <1>1 DEF Stream, Reading
<1>6. active \in 1 .. Len(sent)
  BY DEF LineInv, LineTypes
<1>7. AnswerFits'
  BY <1>2 DEF AnswerFits, MayServe
<1>8. verdict = "failed" => late \/ mix
  BY DEF mix
<1>9. FailureHasCause'
  BY <1>2, <1>8, Zenon DEF FailureHasCause
<1>10. Finished'
  BY <1>2, <1>6, <1>7, <1>9 DEF Finished, TransactionsJustified
<1> QED BY <1>3, <1>4, <1>5, <1>10 DEF LineInv

LEMMA StartStep == ASSUME LineInv, NEW r \in Requests, Start(r) PROVE LineInv'
<1>1. /\ active = 0 /\ sent' = Append(sent, r)
      /\ answers' = Append(answers, [began |-> 0, exception |-> FALSE])
      /\ active' = Len(sent) + 1 /\ rx' = <<>> /\ response' = <<>> /\ expected' = 0
      /\ talking' = talking /\ result' = result
  BY DEF Start
<1>2. LineTypes
  BY DEF LineInv
<1>3. /\ sent \in Seq(Requests) /\ answers \in Seq(Answer) /\ Len(answers) = Len(sent)
      /\ Len(sent) \in Nat /\ [began |-> 0, exception |-> FALSE] \in Answer
  BY <1>2 DEF LineTypes, Answer
<1>4. /\ sent' \in Seq(Requests) /\ Len(sent') = Len(sent) + 1
      /\ \A n \in 1 .. Len(sent) : sent'[n] = sent[n]
  BY <1>1, <1>3
<1>5. /\ answers' \in Seq(Answer) /\ Len(answers') = Len(sent) + 1
      /\ \A n \in 1 .. Len(sent) : answers'[n] = answers[n]
  BY <1>1, <1>3
<1>6. LineTypes'
  <2>1. <<>> \in Seq(UnitType)
    OBVIOUS
  <2> QED BY <1>1, <1>2, <1>4, <1>5, <2>1 DEF LineTypes
<1>7. Talking'
  <2>1. ASSUME talking # Silent
        PROVE  talking[1] \in 1 .. Len(sent) /\ answers[talking[1]].began > 0 /\ talking[2] >= 2
    BY <2>1 DEF LineInv, Talking
  <2>2. ASSUME talking # Silent
        PROVE  /\ talking[1] \in 1 .. Len(sent') /\ answers'[talking[1]].began > 0
               /\ talking[2] >= 2
    <3>1. talking[1] \in 1 .. Len(sent) /\ answers[talking[1]].began > 0 /\ talking[2] >= 2
      BY <2>1, <2>2
    <3>2. answers'[talking[1]] = answers[talking[1]]
      BY <1>5, <3>1
    <3>3. talking[1] \in 1 .. Len(sent')
      BY <1>3, <1>4, <3>1
    <3> QED BY <3>1, <3>2, <3>3
  <2> QED BY <1>1, <2>2 DEF Talking
<1>8. Stream'
  <2>1. Heard' = <<>>
    BY <1>1 DEF Heard
  <2>2. Len(Heard') = 0
    BY <2>1
  <2>3. HeardUnits(Heard)'
    BY <2>2 DEF HeardUnits
  <2>4. talking[1] # active'
    <3>1. CASE talking = Silent
      <4>1. talking[1] = 0
        BY <3>1 DEF Silent
      <4> QED BY <1>1, <1>3, <4>1
    <3>2. CASE talking # Silent
      <4>1. talking[1] \in 1 .. Len(sent)
        BY <3>2 DEF LineInv, Talking
      <4> QED BY <1>1, <1>3, <4>1
    <3> QED BY <3>1, <3>2
  <2>5. OwnAnswer(Heard, 0)'
    BY <1>1, <2>2, <2>4 DEF OwnAnswer
  <2>6. 0 \in Nat
    OBVIOUS
  <2> QED BY <2>3, <2>5, <2>6, Zenon DEF Stream
<1>9. Reading'
  <2>1. Len(response') = 0 /\ expected' = 0
    BY <1>1
  <2>2. LengthKnown(Len(response), expected)'
    BY <2>1 DEF LengthKnown
  <2> QED BY <2>1, <2>2 DEF Reading
<1>10. Finished'
  <2>1. Finished
    BY DEF LineInv
  <2>2. Len(sent') \in Nat /\ Len(sent') >= Len(sent)
    BY <1>3, <1>4
  <2> QED BY <1>1, <1>2, <1>4, <1>5, <2>1, <2>2, FinishedKept
<1> QED BY <1>6, <1>7, <1>8, <1>9, <1>10 DEF LineInv

\* The transaction ends with the unit that completes a frame of the expected length.
LEMMA ReceiveEnds ==
  ASSUME LineInv, active > 0, sent[active].kind # "raw", rx # <<>>, rx' = Tail(rx),
         NEW units, units = Append(response, Head(rx)),
         NEW length \in Lengths(units), length > 0, Len(units) >= length,
         Finish(Verdict(units), Checked(units), FALSE, units),
         UNCHANGED <<sent, answers, talking>>
  PROVE  LineInv'
<1> DEFINE mix == \E i \in 1 .. Len(units) : units[i][1] # active
<1>1. LineTypes /\ HeardUnits(Heard) /\ Stream /\ Reading
  BY DEF LineInv, Stream
<1>2. /\ units \in Seq(UnitType) /\ Len(units) = Len(response) + 1 /\ Len(units) <= Len(Heard)
      /\ \A i \in 1 .. Len(units) : units[i] = Heard[i]
      /\ Tail(rx) \in Seq(UnitType)
  BY <1>1, HeardTaken
<1>3. /\ Heard \in Seq(UnitType) /\ Len(response) \in Nat /\ Len(units) \in Nat
      /\ \A i \in 1 .. Len(response) : Heard[i] = response[i]
  BY <1>1, <1>2, HeardFacts
<1>4. Verdict(units) = "ok" => MayServe(Checked(units))
  BY <1>1, <1>2, OkFits
<1>5. ASSUME Verdict(units) = "failed", ~mix PROVE FALSE
  <2>1. \A i \in 1 .. Len(units) : Heard[i][1] = active
    BY <1>2, <1>5
  <2>2. active \in Nat /\ active \in 1 .. Len(sent)
    BY <1>1 DEF LineTypes
  <2>3. \A i \in 1 .. Len(units) : Heard[i] = <<active, i>>
    BY <1>1, <1>2, <1>3, <2>1, <2>2, OwnPrefix
  <2>4. \A i \in 1 .. Len(units) : units[i] = <<active, i>>
    BY <1>2, <2>3
  <2>5. \A i \in 1 .. Len(response) : units[i] = response[i]
    <3>1. \A i \in 1 .. Len(response) : i \in 1 .. Len(units)
      BY <1>2, <1>3
    <3> QED BY <1>2, <1>3, <3>1
  <2>6. /\ LengthKnown(Len(units), length)
        /\ Len(units) <= 2 => length = 0 \/ Len(units) < length
        /\ Len(units) > 2 => length > 0 /\ Len(units) <= length
    BY <1>1, <1>2, <2>4, <2>5, NextLength
  <2>7. FrameLength(active) \in Nat
    BY <1>1, <2>2, RequestFacts
  <2>8. Len(units) = FrameLength(active)
    <3> DEFINE u == Len(units)
               F == FrameLength(active)
    <3>1. /\ u \in Nat /\ F \in Nat /\ length > 0 /\ u >= length
          /\ u > 2 => length = F
          /\ u <= 2 => length = 0 \/ u < length
          /\ u > 2 => length > 0 /\ u <= length
          /\ u < 2 => length = 0
      BY <1>3, <2>6, <2>7 DEF LengthKnown
    <3>2. length \in Nat
      <4>1. u < 2 \/ u = 2 \/ u > 2
        BY <1>3
      <4>2. u = 2 => length \in {0, 4, 5}
        BY <2>6 DEF LengthKnown, LengthAfterTwo
      <4> QED BY <3>1, <4>1, <4>2
    <3> HIDE DEF u, F
    <3>3. u = F
      BY <3>1, <3>2
    <3> QED BY <3>3 DEF u, F
  <2>9. answers[active].began > 0
    <3>1. 1 \in 1 .. Len(Heard) /\ 1 \in 1 .. Len(units)
      BY <1>2, <1>3, HeardFacts, <1>1
    <3>2. Heard[1] = <<active, 1>>
      BY <2>3, <3>1
    <3> QED BY <1>1, <3>1, <3>2 DEF HeardUnits
  <2> QED BY <1>1, <1>2, <1>5, <2>4, <2>8, <2>9, OwnWhole
<1>6. Verdict(units) = "failed" => FALSE \/ mix
  BY <1>5
<1>7. rx' \in Seq(UnitType)
  BY <1>2
<1> QED BY <1>4, <1>6, <1>7, EndStep

\* The master has heard one more unit.
LEMMA ReceiveGoesOn ==
  ASSUME LineInv, active > 0, sent[active].kind # "raw", rx # <<>>, rx' = Tail(rx),
         NEW units, units = Append(response, Head(rx)),
         NEW length \in Lengths(units), ~(length > 0 /\ Len(units) >= length),
         response' = units, expected' = length,
         UNCHANGED <<active, result, sent, answers, talking>>
  PROVE  LineInv'
<1>1. LineTypes /\ HeardUnits(Heard) /\ Stream /\ Reading
  BY DEF LineInv, Stream
<1>2. /\ units \in Seq(UnitType) /\ Len(units) = Len(response) + 1 /\ Len(units) <= Len(Heard)
      /\ \A i \in 1 .. Len(units) : units[i] = Heard[i]
      /\ Tail(rx) \in Seq(UnitType) /\ units \o Tail(rx) = Heard
  BY <1>1, HeardTaken
<1>3. /\ Heard \in Seq(UnitType) /\ Len(response) \in Nat /\ Len(units) \in Nat
      /\ \A i \in 1 .. Len(response) : Heard[i] = response[i]
  BY <1>1, <1>2, HeardFacts
<1>4. LineTypes'
  BY <1>1, <1>2 DEF LineTypes
<1>5. Heard' = Heard
  BY <1>2 DEF Heard
<1>6. Talking'
  BY DEF LineInv, Talking
<1>7. Stream'
  <2>1. HeardUnits(Heard)'
    BY <1>1, <1>5 DEF HeardUnits
  <2>2. PICK before \in Nat : OwnAnswer(Heard, before)
    BY <1>1 DEF Stream
  <2>3. OwnAnswer(Heard, before)'
    BY <1>5, <2>2 DEF OwnAnswer
  <2> QED BY <2>1, <2>3 DEF Stream
<1>8. ASSUME Own(units)
      PROVE  LengthKnown(Len(units), length) /\ (Len(units) > 2 => Len(units) < length)
  <2>1. \A i \in 1 .. Len(units) : Heard[i][1] = active
    BY <1>2, <1>8 DEF Own
  <2>2. active \in Nat
    BY <1>1 DEF LineTypes
  <2>3. \A i \in 1 .. Len(units) : Heard[i] = <<active, i>>
    BY <1>1, <1>2, <1>3, <2>1, <2>2, OwnPrefix
  <2>4. \A i \in 1 .. Len(units) : units[i] = <<active, i>>
    BY <1>2, <2>3
  <2>5. \A i \in 1 .. Len(response) : units[i] = response[i]
    <3>1. \A i \in 1 .. Len(response) : i \in 1 .. Len(units)
      BY <1>2, <1>3
    <3> QED BY <1>2, <1>3, <3>1
  <2>6. /\ LengthKnown(Len(units), length)
        /\ Len(units) > 2 => length > 0 /\ Len(units) <= length
    BY <1>1, <1>2, <2>4, <2>5, NextLength
  <2>7. Len(units) > 2 => Len(units) < length
    <3>1. active \in 1 .. Len(sent)
      BY <1>1 DEF LineTypes
    <3>2. FrameLength(active) \in Nat
      BY <1>1, <3>1, RequestFacts
    <3>3. Len(units) > 2 => length \in Nat
      BY <2>6, <3>2 DEF LengthKnown
    <3> DEFINE u == Len(units)
    <3>4. u \in Nat /\ (u > 2 => length \in Nat /\ length > 0 /\ u <= length)
          /\ ~(length > 0 /\ u >= length)
      BY <1>3, <2>6, <3>3
    <3> HIDE DEF u
    <3>5. u > 2 => u < length
      BY <3>4
    <3> QED BY <3>5 DEF u
  <2> QED BY <2>6, <2>7
<1>9. Reading'
  <2>1. Own(response)' => Own(units)
    BY DEF Own
  <2>2. Own(units) => LengthKnown(Len(response), expected)'
    BY <1>8 DEF LengthKnown, LengthAfterTwo, FrameLength
  <2>3. Own(units) => (Len(response) > 2 => Len(response) < expected)'
    BY <1>8
  <2> QED BY <2>1, <2>2, <2>3 DEF Reading
<1>10. Finished'
  <2>1. Finished /\ Len(sent) \in Nat
    BY <1>1 DEF LineInv, LineTypes
  <2> QED BY <1>1, <2>1, FinishedKept
<1> QED BY <1>4, <1>6, <1>7, <1>9, <1>10 DEF LineInv

LEMMA ReceiveStep == ASSUME LineInv, Receive PROVE LineInv'
<1>1. active > 0 /\ sent[active].kind # "raw" /\ rx # <<>> /\ rx' = Tail(rx)
      /\ UNCHANGED <<sent, answers, talking>>
  BY DEF Receive
<1> DEFINE units == Append(response, Head(rx))
<1>2. PICK length \in Lengths(units) :
        IF length > 0 /\ Len(units) >= length
        THEN Finish(Verdict(units), Checked(units), FALSE, units)
        ELSE response' = units /\ expected' = length /\ UNCHANGED <<active, result>>
  BY DEF Receive
<1> HIDE DEF units
<1>3. units = Append(response, Head(rx))
  BY DEF units
<1>4. CASE length > 0 /\ Len(units) >= length
  <2>1. length > 0 /\ Len(units) >= length
    BY <1>4
  <2>2. Finish(Verdict(units), Checked(units), FALSE, units)
    BY <1>2, <1>4
  <2> QED BY <1>1, <1>3, <2>1, <2>2, ReceiveEnds
<1>5. CASE ~(length > 0 /\ Len(units) >= length)
  <2>1. response' = units /\ expected' = length /\ UNCHANGED <<active, result>>
    BY <1>2, <1>5
  <2> QED BY <1>1, <1>3, <1>5, <2>1, ReceiveGoesOn
<1> QED BY <1>4, <1>5

LEMMA TimeoutStep == ASSUME LineInv, Timeout PROVE LineInv'
<1>1. active > 0 /\ rx = <<>> /\ rx' = rx /\ UNCHANGED <<sent, answers, talking>>
  BY DEF Timeout
<1>2. LineTypes /\ HeardUnits(Heard)
  BY <1>1 DEF LineInv, Stream
<1>3. rx' \in Seq(UnitType)
  BY <1>1, <1>2 DEF LineTypes
<1>4. TRUE \in BOOLEAN
  OBVIOUS
<1>5. CASE response = <<>>
  <2>1. Finish("failed", 0, TRUE, response)
    BY <1>5 DEF Timeout
  <2>2. "failed" = "ok" => MayServe(0)
    OBVIOUS
  <2> QED BY <1>1, <1>3, <1>4, <2>1, <2>2, EndStep
<1>6. CASE response # <<>>
  <2>1. Finish(Verdict(response), Checked(response), TRUE, response)
    BY <1>6 DEF Timeout
  <2>2. /\ Len(response) <= Len(Heard)
        /\ \A i \in 1 .. Len(response) : response[i] = Heard[i]
    BY <1>2, HeardFacts
  <2>3. Verdict(response) = "ok" => MayServe(Checked(response))
    BY <1>1, <1>2, <2>2, OkFits
  <2> QED BY <1>1, <1>3, <1>4, <2>1, <2>3, EndStep
<1> QED BY <1>5, <1>6

LEMMA ReceiveRawStep == ASSUME LineInv, ReceiveRaw PROVE LineInv'
<1>1. active > 0 /\ rx' = <<>> /\ UNCHANGED <<sent, answers, talking>>
  BY DEF ReceiveRaw
<1>2. rx' \in Seq(UnitType)
  BY <1>1
<1>3. CASE rx = <<>>
  <2>1. Finish("failed", 0, TRUE, rx)
    BY <1>3 DEF ReceiveRaw, Finish
  <2>2. "failed" = "ok" => MayServe(0)
    OBVIOUS
  <2>3. TRUE \in BOOLEAN
    OBVIOUS
  <2> QED BY <1>1, <1>2, <2>1, <2>2, <2>3, EndStep
<1>4. CASE rx # <<>>
  <2>1. Finish("raw", 0, FALSE, rx)
    BY <1>4 DEF ReceiveRaw, Finish
  <2>2. "raw" = "ok" => MayServe(0)
    OBVIOUS
  <2>3. "raw" = "failed" => FALSE \/ \E i \in 1 .. Len(rx) : rx[i][1] # active
    OBVIOUS
  <2>4. FALSE \in BOOLEAN
    OBVIOUS
  <2> QED BY <1>1, <1>2, <2>1, <2>2, <2>3, <2>4, EndStep
<1> QED BY <1>3, <1>4

LEMMA CancelStep == ASSUME LineInv, Cancel PROVE LineInv'
<1>1. /\ active' = 0 /\ response' = <<>> /\ expected' = 0 /\ rx' = <<>>
      /\ sent' = sent /\ answers' = answers /\ talking' = talking /\ result' = result
  BY DEF Cancel
<1>2. LineTypes'
  <2>1. <<>> \in Seq(UnitType)
    OBVIOUS
  <2> QED BY <1>1, <2>1 DEF LineInv, LineTypes
<1>3. Talking'
  BY <1>1 DEF LineInv, Talking
<1>4. Stream' /\ Reading'
  BY <1>1 DEF Stream, Reading
<1>5. Finished'
  <2>1. Finished /\ LineTypes /\ Len(sent) \in Nat
    BY DEF LineInv, LineTypes
  <2> QED BY <1>1, <2>1, FinishedKept
<1> QED BY <1>2, <1>3, <1>4, <1>5 DEF LineInv

\* A unit of an answer that has begun arrives.
LEMMA UnitHeard ==
  ASSUME LineTypes, Stream, active > 0, NEW u \in UnitType,
         rx' = Append(rx, u), UNCHANGED <<sent, active, response>>,
         \A n \in 1 .. Len(sent) : answers[n].began > 0 => answers'[n] = answers[n],
         u[1] \in 1 .. Len(sent), u[2] >= 1, answers'[u[1]].began > 0,
         u[2] = 1 => answers'[u[1]].began >= active
  PROVE  HeardUnits(Heard)'
<1>1. /\ Heard' \in Seq(UnitType) /\ Len(Heard') = Len(Heard) + 1
      /\ \A i \in 1 .. Len(Heard) : Heard'[i] = Heard[i]
      /\ Heard'[Len(Heard) + 1] = u
  BY HeardAppend
<1>2. Len(Heard) \in Nat /\ Len(sent) \in Nat
  <2>1. Heard \in Seq(UnitType)
    BY HeardFacts
  <2> QED BY <2>1 DEF LineTypes
<1> DEFINE h == Heard
           g == Heard'
<1>3. /\ g = Heard' /\ Len(h) \in Nat /\ Len(g) = Len(h) + 1
      /\ \A i \in 1 .. Len(h) : g[i] = h[i]
      /\ g[Len(h) + 1] = u
      /\ \A i \in 1 .. Len(h) : /\ h[i][1] \in 1 .. Len(sent) /\ h[i][2] >= 1
                                /\ answers[h[i][1]].began > 0
                                /\ h[i][2] = 1 => answers[h[i][1]].began >= active
  BY <1>1, <1>2 DEF Stream, HeardUnits
<1> HIDE DEF h, g
<1>4. ASSUME NEW i \in 1 .. Len(g)
      PROVE  /\ g[i][1] \in 1 .. Len(sent) /\ g[i][2] >= 1
             /\ answers'[g[i][1]].began > 0
             /\ g[i][2] = 1 => answers'[g[i][1]].began >= active
  <2>1. CASE i = Len(h) + 1
    BY <1>3, <2>1
  <2>2. CASE i # Len(h) + 1
    <3>1. i \in 1 .. Len(h)
      BY <1>3, <2>2
    <3>2. /\ g[i] = h[i] /\ h[i][1] \in 1 .. Len(sent) /\ h[i][2] >= 1
          /\ answers[h[i][1]].began > 0
          /\ h[i][2] = 1 => answers[h[i][1]].began >= active
      BY <1>3, <3>1
    <3>3. answers'[h[i][1]] = answers[h[i][1]]
      BY <3>2
    <3> QED BY <3>2, <3>3
  <2> QED BY <2>1, <2>2
<1>5. Len(sent') = Len(sent) /\ active' = active
  OBVIOUS
<1> QED BY <1>3, <1>4, <1>5 DEF HeardUnits

\* With one unit more, the answer to the active request is in one piece still.
LEMMA OwnAnswerGrows ==
  ASSUME LineTypes, NEW u \in UnitType, NEW before \in Nat,
         rx' = Append(rx, u), UNCHANGED <<sent, active, response>>,
         \A i \in 1 .. Len(Heard) : Heard[i][1] = active => Heard[i] = <<active, i - before>>,
         u[1] = active => u = <<active, Len(Heard) + 1 - before>>,
         talking'[1] = active => talking'[2] = Len(Heard) + 2 - before
  PROVE  OwnAnswer(Heard, before)'
<1> DEFINE h == Heard
           g == Heard'
<1>1. /\ Len(g) = Len(h) + 1
      /\ \A i \in 1 .. Len(h) : g[i] = h[i]
      /\ g[Len(h) + 1] = u
  BY HeardAppend
<1>2. Len(h) \in Nat
  <2>1. h \in Seq(UnitType)
    BY HeardFacts
  <2> QED BY <2>1
<1>3. g = Heard' /\ h = Heard /\ active' = active
  OBVIOUS
<1>4. /\ \A i \in 1 .. Len(h) : h[i][1] = active => h[i] = <<active, i - before>>
      /\ u[1] = active => u = <<active, Len(h) + 1 - before>>
      /\ talking'[1] = active => talking'[2] = Len(h) + 2 - before
  OBVIOUS
<1> HIDE DEF h, g
<1>5. ASSUME NEW i \in 1 .. Len(g), g[i][1] = active PROVE g[i] = <<active, i - before>>
  <2>1. CASE i = Len(h) + 1
    BY <1>1, <1>4, <1>5, <2>1
  <2>2. CASE i # Len(h) + 1
    <3>1. i \in 1 .. Len(h)
      BY <1>1, <1>2, <2>2
    <3> QED BY <1>1, <1>4, <1>5, <3>1
  <2> QED BY <2>1, <2>2
<1>6. talking'[1] = active => talking'[2] = Len(g) + 1 - before
  <2>1. Len(g) + 1 - before = Len(h) + 2 - before
    BY <1>1, <1>2
  <2> QED BY <1>4, <2>1
<1> QED BY <1>3, <1>5, <1>6 DEF OwnAnswer

LEMMA SlaveBeginsStep ==
  ASSUME LineInv, NEW n \in 1 .. Len(sent), SlaveBegins(n) PROVE LineInv'
<1>1. /\ talking = Silent /\ answers[n].began = 0
      /\ rx' = Append(rx, Unit(n, 1)) /\ talking' = Unit(n, 2)
      /\ sent' = sent /\ active' = active /\ response' = response /\ expected' = expected
      /\ result' = result
  BY DEF SlaveBegins
<1>2. PICK exception \in BOOLEAN :
        answers' = [answers EXCEPT ![n] = [began |-> Len(sent), exception |-> exception]]
  BY DEF SlaveBegins
<1>3. LineTypes
  BY DEF LineInv
<1>4. /\ Len(sent) \in Nat /\ n \in Nat /\ n >= 1 /\ n <= Len(sent) /\ Len(answers) = Len(sent)
      /\ answers \in Seq(Answer) /\ active \in {0, Len(sent)}
  BY <1>3 DEF LineTypes
<1>5. [began |-> Len(sent), exception |-> exception] \in Answer
  BY <1>4 DEF Answer
<1>6. /\ answers' \in Seq(Answer) /\ Len(answers') = Len(answers)
      /\ \A m \in 1 .. Len(sent) : m # n => answers'[m] = answers[m]
      /\ answers'[n] = [began |-> Len(sent), exception |-> exception]
  BY <1>2, <1>4, <1>5
<1>7. /\ answers'[n].began = Len(sent) /\ answers'[n].began > 0
      /\ active > 0 => answers'[n].began >= active
  <2>1. answers'[n].began = Len(sent)
    BY <1>6
  <2> QED BY <1>4, <2>1
<1>8. \A m \in 1 .. Len(sent) : answers[m].began > 0 => answers'[m] = answers[m]
  BY <1>1, <1>6
<1>9. /\ Unit(n, 1) \in UnitType /\ Unit(n, 1)[1] = n /\ Unit(n, 1)[2] = 1
      /\ Unit(n, 2) \in UnitType /\ Unit(n, 2)[1] = n /\ Unit(n, 2)[2] = 2
  BY <1>4 DEF Unit, UnitType
<1>10. LineTypes'
  <2>1. rx' \in Seq(UnitType)
    BY <1>1, <1>3, <1>9 DEF LineTypes
  <2> QED BY <1>1, <1>3, <1>4, <1>6, <1>9, <2>1 DEF LineTypes
<1>11. Talking'
  BY <1>1, <1>7, <1>9 DEF Talking
<1>12. Stream'
  <2> SUFFICES ASSUME active > 0
               PROVE  HeardUnits(Heard)' /\ \E before \in Nat : OwnAnswer(Heard, before)'
    BY <1>1 DEF Stream
  <2>1. Stream /\ HeardUnits(Heard)
    BY DEF LineInv, Stream
  <2>2. HeardUnits(Heard)'
    <3>1. Unit(n, 1)[1] \in 1 .. Len(sent) /\ Unit(n, 1)[2] >= 1
      BY <1>9
    <3>2. answers'[Unit(n, 1)[1]].began > 0 /\ answers'[Unit(n, 1)[1]].began >= active
      BY <1>7, <1>9
    <3> QED BY <1>1, <1>3, <1>8, <1>9, <2>1, <3>1, <3>2, UnitHeard
  <2>3. CASE n = active
    <3>1. \A i \in 1 .. Len(Heard) : Heard[i][1] # active
      <4>1. \A i \in 1 .. Len(Heard) : answers[Heard[i][1]].began > 0
        BY <2>1 DEF HeardUnits
      <4> QED BY <1>1, <2>3, <4>1
    <3>2. Len(Heard) \in Nat
      <4>1. Heard \in Seq(UnitType)
        BY <1>3, HeardFacts
      <4> QED BY <4>1
    <3>3. PICK l \in Nat : l = Len(Heard)
      BY <3>2
    <3>4. l + 1 - l = 1 /\ l + 2 - l = 2
      BY <3>2
    <3>5. /\ Unit(n, 1) = <<active, Len(Heard) + 1 - l>>
          /\ Unit(n, 2)[2] = Len(Heard) + 2 - l
      BY <1>9, <2>3, <3>3, <3>4 DEF Unit
    <3>6. OwnAnswer(Heard, l)'
      BY <1>1, <1>3, <1>9, <3>1, <3>2, <3>5, OwnAnswerGrows
    <3> QED BY <2>2, <3>2, <3>6
  <2>4. CASE n # active
    <3>1. PICK before \in Nat : OwnAnswer(Heard, before)
      BY <2>1 DEF Stream
    <3>2. \A i \in 1 .. Len(Heard) : Heard[i][1] = active => Heard[i] = <<active, i - before>>
      BY <3>1 DEF OwnAnswer
    <3>3. Unit(n, 1)[1] # active /\ talking'[1] # active
      BY <1>1, <1>9, <2>4
    <3>4. OwnAnswer(Heard, before)'
      BY <1>1, <1>3, <1>9, <3>2, <3>3, OwnAnswerGrows
    <3> QED BY <2>2, <3>4
  <2> QED BY <2>3, <2>4
<1>13. Reading'
  <2> SUFFICES ASSUME active > 0, sent[active].kind # "raw", Own(response)
               PROVE  /\ LengthKnown(Len(response), expected)'
                      /\ Len(response) > 2 => Len(response) < expected
    <3>1. Own(response)' <=> Own(response)
      BY <1>1 DEF Own
    <3> QED BY <1>1, <3>1 DEF Reading
  <2>1. LengthKnown(Len(response), expected) /\ (Len(response) > 2 => Len(response) < expected)
    BY DEF LineInv, Reading
  <2>2. Len(response) \in Nat
    BY <1>3 DEF LineTypes
  <2>3. CASE n = active
    <3>1. Len(response) = 0
      <4>1. ASSUME Len(response) > 0 PROVE FALSE
        <5>1. /\ 1 \in 1 .. Len(response) /\ 1 \in 1 .. Len(Heard) /\ Heard[1] = response[1]
          BY <1>3, <2>2, <4>1, HeardFacts
        <5>2. Heard[1][1] = active
          BY <5>1 DEF Own
        <5>3. answers[active].began > 0
          BY <5>1, <5>2 DEF LineInv, Stream, HeardUnits
        <5> QED BY <1>1, <2>3, <5>3
      <4> QED BY <2>2, <4>1
    <3>2. Len(response') = 0 /\ expected' = 0
      BY <1>1, <2>1, <3>1 DEF LengthKnown
    <3>3. LengthKnown(Len(response), expected)'
      BY <3>2 DEF LengthKnown
    <3> QED BY <3>1, <3>3
  <2>4. CASE n # active
    <3>1. answers'[active] = answers[active]
      BY <1>4, <1>6, <2>4
    <3>2. LengthKnown(Len(response), expected)'
      BY <1>1, <2>1, <3>1 DEF LengthKnown, LengthAfterTwo, FrameLength
    <3> QED BY <2>1, <3>2
  <2> QED BY <2>3, <2>4
<1>14. Finished'
  <2>1. Finished
    BY DEF LineInv
  <2> QED BY <1>1, <1>3, <1>4, <1>8, <2>1, FinishedKept
<1> QED BY <1>10, <1>11, <1>12, <1>13, <1>14 DEF LineInv

LEMMA SlaveSendsStep == ASSUME LineInv, SlaveSends PROVE LineInv'
<1> DEFINE n == talking[1]
           k == talking[2]
<1>1. /\ talking # Silent /\ rx' = Append(rx, talking)
      /\ talking' = IF k = FrameLength(n) THEN Silent ELSE Unit(n, k + 1)
      /\ UNCHANGED <<sent, active, response, expected, answers, result>>
  BY DEF SlaveSends
<1>2. LineTypes
  BY DEF LineInv
<1>3. /\ talking \in UnitType /\ n \in 1 .. Len(sent) /\ answers[n].began > 0
      /\ k \in Nat /\ k >= 2 /\ talking = <<n, k>>
  <2>1. talking \in UnitType /\ talking = <<n, k>> /\ k \in Nat
    BY <1>2 DEF LineTypes, UnitType
  <2> QED BY <1>1, <2>1 DEF LineInv, Talking
<1> HIDE DEF n, k
<1>4. /\ talking' \in UnitType
      /\ talking' = Silent \/ (talking'[1] = n /\ talking'[2] = k + 1)
  BY <1>1, <1>3 DEF Unit, Silent, UnitType
<1>5. LineTypes'
  <2>1. rx' \in Seq(UnitType)
    BY <1>1, <1>2, <1>3 DEF LineTypes
  <2> QED BY <1>1, <1>2, <1>4, <2>1 DEF LineTypes
<1>6. Talking'
  BY <1>1, <1>3, <1>4 DEF Talking
<1>7. Stream'
  <2> SUFFICES ASSUME active > 0
               PROVE  HeardUnits(Heard)' /\ \E before \in Nat : OwnAnswer(Heard, before)'
    BY <1>1 DEF Stream
  <2>1. Stream /\ HeardUnits(Heard)
    BY DEF LineInv, Stream
  <2>2. HeardUnits(Heard)'
    <3>1. /\ talking[1] \in 1 .. Len(sent) /\ talking[2] >= 1 /\ talking[2] # 1
          /\ answers'[talking[1]].began > 0
      BY <1>1, <1>3 DEF n, k
    <3>2. \A m \in 1 .. Len(sent) : answers[m].began > 0 => answers'[m] = answers[m]
      BY <1>1
    <3> QED BY <1>1, <1>2, <1>3, <2>1, <3>1, <3>2, UnitHeard
  <2>3. PICK before \in Nat : OwnAnswer(Heard, before)
    BY <2>1 DEF Stream
  <2>4. \A i \in 1 .. Len(Heard) : Heard[i][1] = active => Heard[i] = <<active, i - before>>
    BY <2>3 DEF OwnAnswer
  <2>5. n = active => k = Len(Heard) + 1 - before
    BY <2>3 DEF OwnAnswer, n, k
  <2>6. talking[1] = active => talking = <<active, Len(Heard) + 1 - before>>
    BY <1>3, <2>5
  <2>7. talking'[1] = active => talking'[2] = Len(Heard) + 2 - before
    <3> DEFINE l == Len(Heard)
    <3>1. l \in Nat
      <4>1. Heard \in Seq(UnitType)
        BY <1>2, HeardFacts
      <4> QED BY <4>1
    <3>2. talking' = Silent => talking'[1] # active
      BY DEF Silent
    <3>3. n = active => k = l + 1 - before
      BY <2>5
    <3> HIDE DEF l
    <3>4. n = active => k + 1 = l + 2 - before
      BY <1>3, <3>1, <3>3
    <3>5. talking'[1] = active => talking'[2] = l + 2 - before
      BY <1>4, <3>2, <3>4
    <3> QED BY <3>5 DEF l
  <2>8. OwnAnswer(Heard, before)'
    BY <1>1, <1>2, <1>3, <2>4, <2>6, <2>7, OwnAnswerGrows
  <2> QED BY <2>2, <2>8
<1>8. Reading'
  <2>1. Own(response)' <=> Own(response)
    BY <1>1 DEF Own
  <2>2. LengthKnown(Len(response), expected)' <=> LengthKnown(Len(response), expected)
    BY <1>1 DEF LengthKnown, LengthAfterTwo, FrameLength
  <2> QED BY <1>1, <2>1, <2>2 DEF LineInv, Reading
<1>9. Finished'
  <2>1. Finished /\ Len(sent) \in Nat
    BY <1>2 DEF LineInv, LineTypes
  <2> QED BY <1>1, <1>2, <2>1, FinishedKept
<1> QED BY <1>5, <1>6, <1>7, <1>8, <1>9 DEF LineInv

LEMMA LineInitStep == LineInit => LineInv
<1> SUFFICES ASSUME LineInit PROVE LineInv
  OBVIOUS
<1>1. LineTypes
  <2>1. <<>> \in Seq(Requests) /\ <<>> \in Seq(Answer) /\ <<>> \in Seq(UnitType)
    OBVIOUS
  <2>2. Silent \in UnitType
    BY DEF Silent, UnitType
  <2> QED BY <2>1, <2>2 DEF LineInit, LineTypes
<1>2. Talking /\ Stream /\ Reading
  BY DEF LineInit, Talking, Stream, Reading
<1>3. result.verdict = "none"
  BY DEF LineInit, NoResult
<1>4. Finished
  BY <1>3 DEF Finished, TransactionsJustified, AnswerFits, FailureHasCause
<1> QED BY <1>1, <1>2, <1>4 DEF LineInv

LEMMA LineStep == LineInv /\ [LineNext]_lineVars => LineInv'
<1> SUFFICES ASSUME LineInv, [LineNext]_lineVars PROVE LineInv'
  OBVIOUS
<1>1. ASSUME NEW r \in Requests, Start(r) PROVE LineInv'
  BY <1>1, StartStep
<1>2. CASE Receive
  BY <1>2, ReceiveStep
<1>3. CASE Timeout
  BY <1>3, TimeoutStep
<1>4. CASE ReceiveRaw
  BY <1>4, ReceiveRawStep
<1>5. CASE Cancel
  BY <1>5, CancelStep
<1>6. ASSUME NEW n \in 1 .. Len(sent), SlaveBegins(n) PROVE LineInv'
  BY <1>6, SlaveBeginsStep
<1>7. CASE SlaveSends
  BY <1>7, SlaveSendsStep
<1>8. CASE UNCHANGED lineVars
  <2>1. /\ UNCHANGED <<sent, active, response, expected, rx, answers, talking>>
        /\ result' = result
    BY <1>8 DEF lineVars
  <2>2. LineTypes' /\ Talking' /\ Stream'
    BY <2>1 DEF LineInv, LineTypes, Talking, Stream, Heard, HeardUnits, OwnAnswer
  <2>3. Reading'
    BY <2>1, Zenon DEF LineInv, Reading, Own, LengthKnown, LengthAfterTwo, FrameLength
  <2>4. Finished'
    <3>1. Finished /\ LineTypes /\ Len(sent) \in Nat
      BY DEF LineInv, LineTypes
    <3> QED BY <2>1, <3>1, FinishedKept
  <2> QED BY <2>2, <2>3, <2>4 DEF LineInv
<1> QED BY <1>1, <1>2, <1>3, <1>4, <1>5, <1>6, <1>7, <1>8 DEF LineNext

\* What the master says of a transaction is what the line has shown it, whatever
\* requests are sent and however late the slaves answer (pollRead, pollWrite, the
\* decoders and the drain of the receive buffer in startRead and startWrite).
THEOREM Transactions == LineSpec => []TransactionsJustified
<1>1. LineInv => TransactionsJustified
  BY DEF LineInv, Finished
<1>2. LineInit => LineInv
  BY LineInitStep
<1>3. LineInv /\ [LineNext]_lineVars => LineInv'
  BY LineStep
<1> QED BY <1>1, <1>2, <1>3, PTL DEF LineSpec
=============================================================================
