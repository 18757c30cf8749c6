-------------------------- MODULE MqttGatewayProofs --------------------------
(***************************************************************************)
(* Proofs about MqttGateway for every capacity, burst and batch size:      *)
(* each command ends once and in order, and meets the channel that it was  *)
(* checked against.                                                        *)
(***************************************************************************)
EXTENDS MqttGateway, SequenceTheorems, TLAPS

\* The place of the command with sequence number n + 1.
Cell(n) == n % Capacity

Cells == 0 .. Capacity - 1

\* The indices are those of the next command to end and of the next to come.
Indices ==
  /\ ended \in Nat /\ latest \in Nat /\ count \in 0 .. Capacity
  /\ ended + count = latest
  /\ head = Cell(ended) /\ tail = Cell(latest)

\* The ring holds the commands without an outcome, each in its cell.
Contents ==
  /\ DOMAIN queue = Cells
  /\ \A n \in ended .. latest - 1 : queue[Cell(n)].sequence = n + 1
  /\ \A i \in Cells : queue[i] # Empty => \E n \in ended .. latest - 1 : i = Cell(n)

Ring == Indices /\ Contents

\* The channel a command was checked against is configured as it was then.
Meets(command) ==
  /\ ~twoWay
  /\ \E c \in ToSet(channels) :
       /\ c.id = command.id /\ c.version = command.version
       /\ Writable(c) /\ c.kind = command.kind

AllMeet == \A n \in ended .. latest - 1 : Meets(queue[Cell(n)])

\* How many commands can wait where: those delivered in this iteration, then
\* those for which the batch has room, then none.
Phases ==
  /\ at \in {"mqtt", "core", "rest"} /\ steps \in Nat
  /\ at = "mqtt" => count <= steps /\ steps <= Burst
  /\ at = "core" => count + steps <= BatchSize
  /\ at = "rest" => count = 0 /\ steps = 0

IInv == Ring /\ AllMeet /\ Phases

-----------------------------------------------------------------------------
(* Arithmetic of the ring.                                                 *)

LEMMA CellType == \A n \in Int : Cell(n) \in Cells
  BY GatewayAssumption DEF Cell, Cells

\* Numbers less than a capacity apart fall into different cells.
LEMMA DifferentCells ==
  ASSUME NEW a \in Nat, NEW b \in Nat, a < b, b < a + Capacity
  PROVE  Cell(a) # Cell(b)
<1> SUFFICES ASSUME a % Capacity = b % Capacity PROVE FALSE
  BY DEF Cell
<1> DEFINE k == (b \div Capacity) - (a \div Capacity)
<1>1. b - a = Capacity * k /\ k \in Int
  <2>1. /\ a = Capacity * (a \div Capacity) + (a % Capacity)
        /\ b = Capacity * (b \div Capacity) + (b % Capacity)
        /\ (a \div Capacity) \in Int /\ (b \div Capacity) \in Int /\ (a % Capacity) \in Int
    BY GatewayAssumption, Z3
  <2> QED BY <2>1, GatewayAssumption, Z3
<1>2. CASE k <= 0
  <2>1. Capacity * k <= 0
    BY <1>1, <1>2, GatewayAssumption, Z3
  <2> QED BY <1>1, <2>1
<1>3. CASE k >= 1
  <2>1. Capacity * k >= Capacity
    BY <1>1, <1>3, GatewayAssumption, Z3
  <2> QED BY <1>1, <2>1, GatewayAssumption
<1> QED BY <1>1, <1>2, <1>3

\* Numbers a multiple of the capacity apart fall into the same cell.
LEMMA SameCell ==
  ASSUME NEW a \in Nat, NEW b \in Nat, NEW q \in Int, b = a + Capacity * q
  PROVE  Cell(a) = Cell(b)
<1> DEFINE z == q + (a \div Capacity) - (b \div Capacity)
<1>1. Cell(b) - Cell(a) = Capacity * z /\ z \in Int
  <2>1. /\ a = Capacity * (a \div Capacity) + (a % Capacity)
        /\ b = Capacity * (b \div Capacity) + (b % Capacity)
        /\ (a \div Capacity) \in Int /\ (b \div Capacity) \in Int
    BY GatewayAssumption, Z3
  <2> QED BY <2>1, GatewayAssumption, Z3 DEF Cell
<1>2. Cell(a) \in 0 .. Capacity - 1 /\ Cell(b) \in 0 .. Capacity - 1
  BY GatewayAssumption, Z3 DEF Cell
<1>3. CASE z <= -1
  <2>1. Capacity * z <= - Capacity
    BY <1>1, <1>3, GatewayAssumption, Z3
  <2> QED BY <1>1, <1>2, <2>1, GatewayAssumption
<1>4. CASE z >= 1
  <2>1. Capacity * z >= Capacity
    BY <1>1, <1>4, GatewayAssumption, Z3
  <2> QED BY <1>1, <1>2, <2>1, GatewayAssumption
<1>5. CASE z = 0
  BY <1>1, <1>2, <1>5, GatewayAssumption, Z3
<1> QED BY <1>1, <1>3, <1>4, <1>5

\* An offset may be added before or after the wrap.
LEMMA CellOffset == \A n, k \in Nat : (Cell(n) + k) % Capacity = Cell(n + k)
<1> SUFFICES ASSUME NEW n \in Nat, NEW k \in Nat PROVE (Cell(n) + k) % Capacity = Cell(n + k)
  OBVIOUS
<1> DEFINE q == n \div Capacity
<1>1. q \in Int /\ n = Capacity * q + Cell(n) /\ Cell(n) \in Nat
  BY GatewayAssumption, Z3 DEF Cell
<1> HIDE DEF q
<1>2. Cell(n) + k \in Nat /\ n + k \in Nat /\ n + k = (Cell(n) + k) + Capacity * q
  BY <1>1, GatewayAssumption, Z3
<1>3. Cell(Cell(n) + k) = Cell(n + k)
  <2> DEFINE m == Cell(n) + k
  <2>1. m \in Nat /\ n + k \in Nat /\ q \in Int /\ n + k = m + Capacity * q
    BY <1>1, <1>2
  <2> HIDE DEF m
  <2>2. Cell(m) = Cell(n + k)
    BY <2>1, SameCell
  <2> QED BY <2>2 DEF m
<1> QED BY <1>3 DEF Cell

-----------------------------------------------------------------------------
(* The two operations of the CommandBus.                                   *)

LEMMA Stored ==
  ASSUME Ring, NEW c, c.sequence = latest + 1, Enqueue(c), UNCHANGED <<head, ended>>
  PROVE  /\ Ring'
         /\ count' = count + 1 /\ latest' = latest + 1
         /\ queue'[Cell(latest)] = c
         /\ \A n \in ended .. latest - 1 : queue'[Cell(n)] = queue[Cell(n)]
<1> USE DEF Ring, Indices
<1>1. /\ count < Capacity /\ count' = count + 1 /\ latest' = latest + 1
      /\ head' = head /\ ended' = ended
      /\ queue' = [queue EXCEPT ![Cell(latest)] = c]
      /\ tail' = (Cell(latest) + 1) % Capacity
  BY DEF Enqueue
<1>2. Cell(latest) \in Cells
  BY CellType
<1>3. tail' = Cell(latest')
  BY <1>1, CellOffset
<1>4. Indices'
  BY <1>1, <1>3, GatewayAssumption DEF Cell
<1>5. queue'[Cell(latest)] = c /\ DOMAIN queue' = Cells
  BY <1>1, <1>2 DEF Contents
<1>6. \A n \in ended .. latest - 1 : queue'[Cell(n)] = queue[Cell(n)]
  <2> SUFFICES ASSUME NEW n \in ended .. latest - 1
               PROVE  queue'[Cell(n)] = queue[Cell(n)]
    OBVIOUS
  <2>1. n \in Nat /\ n < latest /\ latest < n + Capacity
    BY <1>1, GatewayAssumption
  <2>2. Cell(n) # Cell(latest) /\ Cell(n) \in Cells
    BY <2>1, DifferentCells, CellType
  <2> QED BY <1>1, <2>2 DEF Contents
<1>7. \A n \in ended' .. latest' - 1 : queue'[Cell(n)].sequence = n + 1
  <2> SUFFICES ASSUME NEW n \in ended .. latest
               PROVE  queue'[Cell(n)].sequence = n + 1
    BY <1>1
  <2>1. CASE n = latest
    BY <1>5, <2>1
  <2>2. CASE n \in ended .. latest - 1
    BY <1>6, <2>2 DEF Contents
  <2> QED BY <2>1, <2>2
<1>8. \A i \in Cells : queue'[i] # Empty => \E n \in ended' .. latest' - 1 : i = Cell(n)
  <2> SUFFICES ASSUME NEW i \in Cells, queue'[i] # Empty
               PROVE  \E n \in ended .. latest : i = Cell(n)
    BY <1>1
  <2>1. CASE i = Cell(latest)
    <3>1. latest \in ended .. latest
      OBVIOUS
    <3> QED BY <2>1, <3>1
  <2>2. CASE i # Cell(latest)
    <3>1. queue[i] # Empty
      BY <1>1, <2>2 DEF Contents
    <3>2. PICK n \in ended .. latest - 1 : i = Cell(n)
      BY <3>1 DEF Contents
    <3>3. n \in ended .. latest
      BY <3>2
    <3> QED BY <3>2, <3>3
  <2> QED BY <2>1, <2>2
<1>9. Contents'
  BY <1>5, <1>7, <1>8 DEF Contents, Cell, Cells, Empty
<1> QED BY <1>1, <1>4, <1>5, <1>6, <1>9

LEMMA Taken ==
  ASSUME Ring, count > 0, Dequeue, ended' = ended + 1
  PROVE  /\ Ring'
         /\ count' = count - 1 /\ latest' = latest
         /\ \A n \in ended + 1 .. latest - 1 : queue'[Cell(n)] = queue[Cell(n)]
<1> USE DEF Ring, Indices
<1>1. /\ count' = count - 1 /\ latest' = latest /\ tail' = tail /\ ended' = ended + 1
      /\ queue' = [queue EXCEPT ![Cell(ended)] = Empty]
      /\ head' = (Cell(ended) + 1) % Capacity
  BY DEF Dequeue
<1>2. Cell(ended) \in Cells
  BY CellType
<1>3. head' = Cell(ended')
  BY <1>1, CellOffset
<1>4. Indices'
  BY <1>1, <1>3, GatewayAssumption DEF Cell
<1>5. queue'[Cell(ended)] = Empty /\ DOMAIN queue' = Cells
  BY <1>1, <1>2 DEF Contents
<1>6. \A n \in ended + 1 .. latest - 1 : queue'[Cell(n)] = queue[Cell(n)]
  <2> SUFFICES ASSUME NEW n \in ended + 1 .. latest - 1
               PROVE  queue'[Cell(n)] = queue[Cell(n)]
    OBVIOUS
  <2>1. n \in Nat /\ ended < n /\ n < ended + Capacity
    BY GatewayAssumption
  <2>2. Cell(n) # Cell(ended) /\ Cell(n) \in Cells
    BY <2>1, DifferentCells, CellType
  <2> QED BY <1>1, <2>2 DEF Contents
<1>7. \A n \in ended' .. latest' - 1 : queue'[Cell(n)].sequence = n + 1
  <2> SUFFICES ASSUME NEW n \in ended + 1 .. latest - 1
               PROVE  queue'[Cell(n)].sequence = n + 1
    BY <1>1
  <2>1. n \in ended .. latest - 1
    OBVIOUS
  <2> QED BY <1>6, <2>1 DEF Contents
<1>8. \A i \in Cells : queue'[i] # Empty => \E n \in ended' .. latest' - 1 : i = Cell(n)
  <2> SUFFICES ASSUME NEW i \in Cells, queue'[i] # Empty
               PROVE  \E n \in ended + 1 .. latest - 1 : i = Cell(n)
    BY <1>1
  <2>1. i # Cell(ended)
    BY <1>5
  <2>2. queue[i] # Empty
    BY <1>1, <2>1 DEF Contents
  <2>3. PICK n \in ended .. latest - 1 : i = Cell(n)
    BY <2>2 DEF Contents
  <2>4. n \in ended + 1 .. latest - 1
    BY <2>1, <2>3
  <2> QED BY <2>3, <2>4
<1>9. Contents'
  BY <1>5, <1>7, <1>8 DEF Contents, Cell, Cells, Empty
<1> QED BY <1>1, <1>4, <1>6, <1>9

-----------------------------------------------------------------------------
(* The invariant.                                                          *)

LEMMA InitIInv == Init => IInv
<1> SUFFICES ASSUME Init PROVE IInv
  OBVIOUS
<1> USE DEF Init
<1>1. Cell(0) = 0
  BY GatewayAssumption, Z3 DEF Cell
<1>2. Indices
  BY <1>1, GatewayAssumption DEF Indices
<1>3. Contents
  BY DEF Contents, Cells
<1>4. AllMeet
  BY DEF AllMeet
<1>5. Phases
  BY GatewayAssumption DEF Phases
<1> QED BY <1>2, <1>3, <1>4, <1>5 DEF IInv, Ring

\* While channels, mode and ring stay, so do the ring's facts.
LEMMA BusKept ==
  ASSUME Ring, AllMeet, UNCHANGED <<bus, channels, twoWay, ended>>
  PROVE  Ring' /\ AllMeet'
<1>1. Ring'
  BY DEF Ring, Indices, Contents, Cell, Cells, Empty, bus
<1>2. AllMeet'
  BY DEF AllMeet, Meets, Writable, Cell, bus
<1> QED BY <1>1, <1>2

\* With no command waiting the channels may change.
LEMMA BusEmpty ==
  ASSUME Ring, count = 0, UNCHANGED <<bus, ended>>
  PROVE  Ring' /\ AllMeet'
<1>1. Ring'
  BY DEF Ring, Indices, Contents, Cell, Cells, Empty, bus
<1>2. ended' = latest' /\ latest' \in Nat
  BY DEF Ring, Indices, bus
<1>3. \A n \in Nat : \A k \in n .. n - 1 : FALSE
  OBVIOUS
<1>4. ASSUME NEW n \in ended' .. latest' - 1 PROVE FALSE
  BY <1>2, <1>3
<1>5. AllMeet'
  <2> SUFFICES ASSUME NEW n \in ended' .. latest' - 1 PROVE Meets(queue[Cell(n)])'
    BY Zenon DEF AllMeet
  <2> QED BY <1>4
<1> QED BY <1>1, <1>5

LEMMA NextIInv == IInv /\ [Next]_vars => IInv'
<1> SUFFICES ASSUME IInv, [Next]_vars PROVE IInv'
  OBVIOUS
<1> USE DEF IInv
<1>1. CASE Connect
  <2>1. Ring' /\ AllMeet'
    BY <1>1, BusKept DEF Connect
  <2>2. Phases'
    BY <1>1, GatewayAssumption DEF Connect, Phases, Ring, Indices, bus
  <2> QED BY <2>1, <2>2
<1>2. CASE StayOffline
  <2>1. Ring' /\ AllMeet'
    BY <1>2, BusKept DEF StayOffline
  <2>2. Phases'
    BY <1>2, GatewayAssumption DEF StayOffline, Phases, Ring, Indices, bus
  <2> QED BY <2>1, <2>2
<1>3. CASE HandleMessage
  <2>1. PICK c \in ToSet(channels) : WriteFromMqtt(c)
    BY <1>3 DEF HandleMessage
  <2> DEFINE command ==
        [sequence |-> latest + 1, id |-> c.id, kind |-> c.kind, version |-> c.version]
  <2>2. Enqueue(command) /\ Writable(c)
    BY <2>1 DEF WriteFromMqtt
  <2>3. UNCHANGED <<head, ended, channels, twoWay, at>> /\ at = "mqtt" /\ steps < Burst
          /\ steps' = steps + 1
    BY <1>3 DEF HandleMessage
  <2>4. command.sequence = latest + 1
    OBVIOUS
  <2>5. /\ Ring'
        /\ count' = count + 1 /\ latest' = latest + 1
        /\ queue'[Cell(latest)] = command
        /\ \A n \in ended .. latest - 1 : queue'[Cell(n)] = queue[Cell(n)]
    <3> HIDE DEF command
    <3> QED BY <2>2, <2>3, <2>4, Stored
  <2>6. Meets(command)
    BY <2>1, <2>2 DEF Meets, Writable
  <2>7. AllMeet'
    <3>0. ended' .. latest' - 1 = ended .. latest
      BY <2>3, <2>5 DEF Ring, Indices
    <3> SUFFICES ASSUME NEW n \in ended .. latest PROVE Meets(queue[Cell(n)])'
      BY <3>0, Zenon DEF AllMeet
    <3>1. Meets(queue'[Cell(n)])
      <4>1. CASE n = latest
        BY <2>5, <2>6, <4>1
      <4>2. CASE n \in ended .. latest - 1
        BY <2>5, <4>2 DEF AllMeet
      <4> QED BY <4>1, <4>2 DEF Ring, Indices
    <3> QED BY <2>3, <3>1 DEF Meets, Writable, Cell
  <2>8. Phases'
    BY <2>3, <2>5, GatewayAssumption DEF Phases, Ring, Indices
  <2> QED BY <2>5, <2>7, <2>8
<1>4. CASE MqttLoopEnds
  <2>1. Ring' /\ AllMeet'
    BY <1>4, BusKept DEF MqttLoopEnds
  <2>2. Phases'
    BY <1>4, GatewayAssumption DEF MqttLoopEnds, Phases, Ring, Indices, bus
  <2> QED BY <2>1, <2>2
<1>5. CASE LoseConnection
  <2>1. Ring' /\ AllMeet'
    BY <1>5, BusKept DEF LoseConnection
  <2>2. Phases'
    BY <1>5 DEF LoseConnection, Phases, bus
  <2> QED BY <2>1, <2>2
<1>6. CASE ProcessCommand
  <2>1. /\ at = "core" /\ count > 0 /\ Dequeue /\ ended' = ended + 1
        /\ steps < BatchSize /\ steps' = steps + 1
        /\ UNCHANGED <<channels, twoWay, at>>
    BY <1>6 DEF ProcessCommand
  <2>2. /\ Ring'
        /\ count' = count - 1 /\ latest' = latest
        /\ \A n \in ended + 1 .. latest - 1 : queue'[Cell(n)] = queue[Cell(n)]
    BY <2>1, Taken
  <2>3. AllMeet'
    <3> SUFFICES ASSUME NEW n \in ended + 1 .. latest - 1 PROVE Meets(queue[Cell(n)])'
      BY <2>1, <2>2 DEF AllMeet, Meets, Writable, Cell
    <3>1. n \in ended .. latest - 1
      BY DEF Ring, Indices
    <3>2. Meets(queue'[Cell(n)])
      BY <2>2, <3>1 DEF AllMeet
    <3> QED BY <2>1, <3>2 DEF Meets, Writable, Cell
  <2>4. Phases'
    BY <2>1, <2>2, GatewayAssumption DEF Phases, Ring, Indices
  <2> QED BY <2>2, <2>3, <2>4
<1>7. CASE CoreEnds
  <2>1. Ring' /\ AllMeet'
    BY <1>7, BusKept DEF CoreEnds
  <2>2. Phases'
    BY <1>7, GatewayAssumption DEF CoreEnds, Phases, Ring, Indices, bus
  <2> QED BY <2>1, <2>2
<1>8. CASE UpsertChannel
  <2>1. at = "rest" /\ UNCHANGED <<bus, ended, at, steps>>
    BY <1>8 DEF UpsertChannel
  <2> QED BY <2>1, BusEmpty DEF Phases, bus
<1>9. CASE RemoveChannel
  <2>1. at = "rest" /\ UNCHANGED <<bus, ended, at, steps>>
    BY <1>9 DEF RemoveChannel
  <2> QED BY <2>1, BusEmpty DEF Phases, bus
<1>10. CASE SetMode
  <2>1. at = "rest" /\ UNCHANGED <<bus, ended, at, steps>>
    BY <1>10 DEF SetMode
  <2> QED BY <2>1, BusEmpty DEF Phases, bus
<1>11. CASE WriteEnds
  <2>1. at = "rest" /\ UNCHANGED <<bus, ended, at, steps>>
    BY <1>11 DEF WriteEnds
  <2> QED BY <2>1, BusEmpty DEF Phases, bus
<1>12. CASE LoopEnds
  <2>1. at = "rest" /\ at' = "mqtt" /\ UNCHANGED <<bus, ended, steps>>
    BY <1>12 DEF LoopEnds
  <2> QED BY <2>1, BusEmpty, GatewayAssumption DEF Phases, bus
<1>13. CASE Restart
  <2> USE <1>13 DEF Restart
  <2>1. Cell(0) = 0
    BY GatewayAssumption, Z3 DEF Cell
  <2>2. Indices'
    BY <2>1, GatewayAssumption DEF Indices, Cell
  <2>3. Contents'
    BY DEF Contents, Cells, Empty
  <2>4. AllMeet'
    BY DEF AllMeet
  <2>5. Phases'
    BY GatewayAssumption DEF Phases
  <2> QED BY <2>2, <2>3, <2>4, <2>5 DEF Ring
<1>14. CASE UNCHANGED vars
  <2>1. Ring' /\ AllMeet'
    BY <1>14, BusKept DEF vars
  <2>2. Phases'
    BY <1>14 DEF vars, Phases, bus
  <2> QED BY <2>1, <2>2
<1> QED
  BY <1>1, <1>2, <1>3, <1>4, <1>5, <1>6, <1>7, <1>8, <1>9, <1>10, <1>11, <1>12, <1>13, <1>14
  DEF Next

-----------------------------------------------------------------------------
(* The theorems.                                                           *)

\* The waiting commands and the numbers they have.
LEMMA PendingCell ==
  ASSUME Ring
  PROVE  \A k \in 1 .. count :
           /\ (head + k - 1) % Capacity = Cell(ended + k - 1)
           /\ Pending[k] = queue[Cell(ended + k - 1)]
           /\ ended + k - 1 \in ended .. latest - 1
<1> SUFFICES ASSUME NEW k \in 1 .. count
             PROVE  /\ (head + k - 1) % Capacity = Cell(ended + k - 1)
                    /\ Pending[k] = queue[Cell(ended + k - 1)]
                    /\ ended + k - 1 \in ended .. latest - 1
  OBVIOUS
<1>1. k - 1 \in Nat /\ ended \in Nat /\ head = Cell(ended) /\ k \in Nat
  BY DEF Ring, Indices
<1>2. (Cell(ended) + (k - 1)) % Capacity = Cell(ended + (k - 1))
  BY <1>1, CellOffset
<1>3. Cell(ended) \in Nat
  BY <1>1, CellType, GatewayAssumption DEF Cells
<1>4. head + k - 1 = Cell(ended) + (k - 1) /\ ended + k - 1 = ended + (k - 1)
  BY <1>1, <1>3
<1>5. (head + k - 1) % Capacity = Cell(ended + k - 1)
  BY <1>2, <1>4
<1>6. Pending[k] = queue[Cell(ended + k - 1)]
  BY <1>5 DEF Pending
<1>7. ended + k - 1 \in ended .. latest - 1
  BY DEF Ring, Indices
<1> QED BY <1>5, <1>6, <1>7

LEMMA RingAccounts == Ring => CommandAccounting
<1> SUFFICES ASSUME Ring PROVE CommandAccounting
  OBVIOUS
<1>1. ended + count = latest
  BY DEF Ring, Indices
<1>2. ASSUME NEW k \in 1 .. count PROVE Pending[k].sequence = ended + k
  <2>1. Pending[k] = queue[Cell(ended + k - 1)] /\ ended + k - 1 \in ended .. latest - 1
    BY PendingCell
  <2>2. queue[Cell(ended + k - 1)].sequence = (ended + k - 1) + 1
    BY <2>1 DEF Ring, Contents
  <2> QED BY <2>1, <2>2 DEF Ring, Indices
<1>3. ASSUME NEW i \in 0 .. Capacity - 1, queue[i] # Empty
      PROVE  \E k \in 1 .. count : i = (head + k - 1) % Capacity
  <2>1. PICK n \in ended .. latest - 1 : i = Cell(n)
    BY <1>3 DEF Ring, Contents, Cells
  <2>2. n - ended + 1 \in 1 .. count /\ ended + (n - ended + 1) - 1 = n
    BY <2>1 DEF Ring, Indices
  <2>3. (head + (n - ended + 1) - 1) % Capacity = Cell(ended + (n - ended + 1) - 1)
    BY <2>2, PendingCell
  <2> QED BY <2>1, <2>2, <2>3
<1>4. ASSUME NEW i \in 0 .. Capacity - 1, NEW k \in 1 .. count, i = (head + k - 1) % Capacity
      PROVE  queue[i] # Empty
  <2>1. i = Cell(ended + k - 1) /\ ended + k - 1 \in ended .. latest - 1
    BY <1>4, PendingCell
  <2>2. queue[i].sequence = (ended + k - 1) + 1
    BY <2>1 DEF Ring, Contents
  <2>3. queue[i].sequence # 0
    BY <2>2 DEF Ring, Indices
  <2> QED BY <2>3 DEF Empty
<1> QED BY <1>1, <1>2, <1>3, <1>4 DEF CommandAccounting

LEMMA RingMeets == Ring /\ AllMeet => CommandMeetsItsChannel
<1> SUFFICES ASSUME Ring, AllMeet, NEW k \in 1 .. count PROVE Meets(Pending[k])
  BY DEF CommandMeetsItsChannel, Meets
<1>1. Pending[k] = queue[Cell(ended + k - 1)] /\ ended + k - 1 \in ended .. latest - 1
  BY PendingCell
<1> QED BY <1>1 DEF AllMeet

\* Each command accepted from MQTT gets one outcome event, in the order of
\* arrival, for every capacity of the CommandBus.
THEOREM Accounting == Spec => []CommandAccounting
<1>1. IInv => CommandAccounting
  BY RingAccounts DEF IInv
<1> QED BY <1>1, InitIInv, NextIInv, PTL DEF Spec

\* As long as a call of the MQTT client delivers no more messages than an
\* iteration executes commands, a command is executed or refused before a
\* downlink can change the channel it was checked against.
THEOREM TargetIsCurrent == Spec => []CommandMeetsItsChannel
<1>1. IInv => CommandMeetsItsChannel
  BY RingMeets DEF IInv
<1> QED BY <1>1, InitIInv, NextIInv, PTL DEF Spec

-----------------------------------------------------------------------------
(* The entities at the broker.                                             *)

\* The entities of the channels a signature was computed from, in a mode.
Described(s, mode) ==
  {[id |-> s[i][1],
    component |->
      IF s[i][3] /\ ~mode THEN IF s[i][2] = "boolean" THEN "switch" ELSE "number"
      ELSE IF s[i][2] = "boolean" THEN "binary_sensor" ELSE "sensor"] : i \in DOMAIN s}

\* The broker differs from what the gateway believes it published only where a
\* message failed, or where it lost its memory and the gateway is offline; what
\* the gateway believes follows from the signature it keeps; and the core runs
\* on a connection only after the signature was compared.
EntityInv ==
  /\ retained \ discovered \subseteq unsettled
  /\ online => discovered \ retained \subseteq unsettled
  /\ online => discovered = Described(signature, described)
  /\ at = "core" /\ online => signature = Signature

LEMMA DesiredDescribed == Desired = Described(Signature, twoWay)
<1>1. /\ DOMAIN Signature = DOMAIN channels
      /\ \A i \in DOMAIN channels :
           /\ Signature[i][1] = channels[i].id /\ Signature[i][2] = channels[i].kind
           /\ Signature[i][3] = channels[i].writable
  BY DEF Signature
<1>2. Desired = {EntityOf(channels[i]) : i \in DOMAIN channels}
  BY DEF Desired, ToSet
<1> QED BY <1>1, <1>2 DEF Described, EntityOf, Writable

\* Whatever fails, publishing leaves the differences among the unsettled.
LEMMA Publishing ==
  ASSUME retained \ discovered \subseteq unsettled, PublishDiscovery,
         UNCHANGED <<channels, twoWay>>
  PROVE  /\ retained' \ discovered' \subseteq unsettled'
         /\ discovered' \ retained' \subseteq unsettled'
         /\ discovered' = Described(signature', described')
         /\ signature' = Signature'
<1> DEFINE old == discovered \ Desired
           sent == old \union Desired
<1>1. PICK failed \in SUBSET sent :
        /\ retained'   = (retained \ (old \ failed)) \union (Desired \ failed)
        /\ unsettled'  = (unsettled \ sent) \union failed
        /\ discovered' = Desired
        /\ signature'  = Signature
        /\ described'  = twoWay
  BY DEF PublishDiscovery
<1>2. retained' \ discovered' \subseteq unsettled'
  BY <1>1
<1>3. discovered' \ retained' \subseteq unsettled'
  BY <1>1
<1>4. discovered' = Described(signature', described')
  BY <1>1, DesiredDescribed
<1>5. signature' = Signature'
  BY <1>1 DEF Signature
<1> QED BY <1>2, <1>3, <1>4, <1>5

LEMMA InitEntityInv == Init => EntityInv
  BY DEF Init, EntityInv

LEMMA NextEntityInv == EntityInv /\ [Next]_vars => EntityInv'
<1> SUFFICES ASSUME EntityInv, [Next]_vars PROVE EntityInv'
  OBVIOUS
<1>1. CASE Connect
  <2>1. CASE online' = TRUE /\ PublishDiscovery
    BY <1>1, <2>1, Publishing DEF Connect, EntityInv
  <2>2. CASE UNCHANGED <<online, discovered, retained, described, unsettled>>
    BY <1>1, <2>2 DEF Connect, EntityInv
  <2> QED BY <1>1, <2>1, <2>2 DEF Connect
<1>2. CASE MqttLoopEnds
  <2>1. CASE signature # Signature
    BY <1>2, <2>1, Publishing DEF MqttLoopEnds, EntityInv
  <2>2. CASE signature = Signature
    BY <1>2, <2>2 DEF MqttLoopEnds, EntityInv, discovery, Signature
  <2> QED BY <2>1, <2>2
<1>3. CASE LoseConnection
  BY <1>3 DEF LoseConnection, EntityInv
<1>4. CASE Restart
  BY <1>4 DEF Restart, EntityInv
<1>5. CASE UpsertChannel \/ RemoveChannel \/ SetMode \/ WriteEnds
  <2>1. at' = "rest" /\ UNCHANGED <<discovery, online>>
    BY <1>5 DEF UpsertChannel, RemoveChannel, SetMode, WriteEnds
  <2> QED BY <2>1 DEF EntityInv, discovery
<1>6. CASE StayOffline \/ HandleMessage \/ CoreEnds \/ LoopEnds
  <2>1. (at' # "core" \/ ~online') /\ UNCHANGED <<discovery, online>>
    BY <1>6 DEF StayOffline, HandleMessage, CoreEnds, LoopEnds
  <2> QED BY <2>1 DEF EntityInv, discovery
<1>7. CASE ProcessCommand
  BY <1>7 DEF ProcessCommand, EntityInv, discovery, Signature
<1>8. CASE UNCHANGED vars
  BY <1>8 DEF vars, EntityInv, discovery, Signature
<1> QED BY <1>1, <1>2, <1>3, <1>4, <1>5, <1>6, <1>7, <1>8 DEF Next

\* When the core runs on a connection the broker holds the entities of the
\* channels and no others of this gateway, but for messages that failed
\* (publishDiscovery, its signature, and the reconnect).
THEOREM EntitiesFollow == Spec => []EntitiesFollowChannels
<1>1. EntityInv => EntitiesFollowChannels
  BY DesiredDescribed DEF EntityInv, EntitiesFollowChannels
<1> QED BY <1>1, InitEntityInv, NextEntityInv, PTL DEF Spec

-----------------------------------------------------------------------------
(* Types.                                                                  *)

\* The registry holds one entry of an id.
Registry ==
  /\ channels \in Seq(Channel)
  /\ \A i, j \in DOMAIN channels : channels[i].id = channels[j].id => i = j

\* RemoveAt takes out one element and keeps the others in their order.
LEMMA RemoveAtShift ==
  ASSUME NEW S, NEW s \in Seq(S), NEW k \in 1 .. Len(s)
  PROVE  /\ RemoveAt(s, k) \in Seq(S)
         /\ Len(RemoveAt(s, k)) = Len(s) - 1
         /\ \A i \in 1 .. Len(s) - 1 : RemoveAt(s, k)[i] = s[IF i < k THEN i ELSE i + 1]
<1> DEFINE a == SubSeq(s, 1, k - 1)
           b == SubSeq(s, k + 1, Len(s))
<1>1. a \in Seq(S) /\ Len(a) = k - 1 /\ \A i \in 1 .. k - 1 : a[i] = s[i]
  OBVIOUS
<1>2. b \in Seq(S) /\ Len(b) = Len(s) - k /\ \A i \in 1 .. Len(s) - k : b[i] = s[k + i]
  OBVIOUS
<1>3. RemoveAt(s, k) = a \o b
  BY DEF RemoveAt
<1> HIDE DEF a, b
<1>4. a \o b \in Seq(S) /\ Len(a \o b) = Len(s) - 1
  <2>1. a \o b \in Seq(S) /\ Len(a \o b) = Len(a) + Len(b)
    BY <1>1, <1>2, ConcatProperties
  <2>2. Len(s) \in Nat /\ k \in Nat
    OBVIOUS
  <2> QED BY <1>1, <1>2, <2>1, <2>2
<1>5. ASSUME NEW i \in 1 .. Len(s) - 1
      PROVE  (a \o b)[i] = s[IF i < k THEN i ELSE i + 1]
  <2>1. CASE i < k
    <3>1. i \in 1 .. Len(a) /\ i \in 1 .. Len(a) + Len(b)
      BY <1>1, <1>2, <2>1
    <3>2. (a \o b)[i] = a[i]
      BY <1>1, <1>2, <3>1, ConcatProperties
    <3> QED BY <1>1, <2>1, <3>1, <3>2
  <2>2. CASE i >= k
    <3>1. Len(s) \in Nat /\ k \in Nat /\ i \in Nat
      OBVIOUS
    <3>2. i - Len(a) \in 1 .. Len(s) - k /\ k + (i - Len(a)) = i + 1
      BY <1>1, <2>2, <3>1
    <3>3. (a \o b)[i] = b[i - Len(a)]
      <4>1. i \in 1 .. Len(a) + Len(b) /\ ~(i <= Len(a))
        BY <1>1, <1>2, <2>2, <3>1
      <4> QED BY <1>1, <1>2, <4>1, ConcatProperties
    <3>4. b[i - Len(a)] = s[k + (i - Len(a))]
      BY <1>2, <3>2
    <3>5. ~(i < k)
      BY <2>2, <3>1
    <3> QED BY <3>2, <3>3, <3>4, <3>5
  <2>3. i < k \/ i >= k
    <3>1. k \in Nat /\ i \in Nat
      OBVIOUS
    <3> QED BY <3>1
  <2> QED BY <2>1, <2>2, <2>3
<1> QED BY <1>3, <1>4, <1>5

LEMMA RegistryUpsert ==
  ASSUME Registry, NEW c \in Channel, channels' = Upserted(c) PROVE Registry'
<1>1. CASE \E d \in ToSet(channels) : d.id = c.id
  <2>1. channels' = [i \in DOMAIN channels |-> IF channels[i].id = c.id THEN c ELSE channels[i]]
    BY <1>1 DEF Upserted
  <2>2. channels' \in Seq(Channel) /\ DOMAIN channels' = DOMAIN channels
    BY <2>1 DEF Registry
  <2>3. \A i \in DOMAIN channels : channels'[i].id = channels[i].id
    BY <2>1
  <2> QED BY <2>2, <2>3 DEF Registry
<1>2. CASE ~ \E d \in ToSet(channels) : d.id = c.id
  <2>1. channels' = Append(channels, c)
    BY <1>2 DEF Upserted
  <2>2. \A i \in DOMAIN channels : channels[i].id # c.id
    BY <1>2 DEF ToSet
  <2>3. /\ channels' \in Seq(Channel) /\ Len(channels') = Len(channels) + 1
        /\ Len(channels) \in Nat /\ DOMAIN channels = 1 .. Len(channels)
        /\ channels'[Len(channels) + 1] = c
        /\ \A i \in 1 .. Len(channels) : channels'[i] = channels[i]
    BY <2>1 DEF Registry
  <2>4. ASSUME NEW i \in DOMAIN channels', NEW j \in DOMAIN channels',
               channels'[i].id = channels'[j].id
        PROVE  i = j
    <3>1. /\ i \in 1 .. Len(channels) \/ i = Len(channels) + 1
          /\ j \in 1 .. Len(channels) \/ j = Len(channels) + 1
      BY <2>3
    <3> QED BY <2>2, <2>3, <2>4, <3>1 DEF Registry
  <2> QED BY <2>3, <2>4 DEF Registry
<1> QED BY <1>1, <1>2

LEMMA RegistryRemove ==
  ASSUME Registry, NEW id, channels' = Removed(id) PROVE Registry'
<1>1. CASE \E d \in ToSet(channels) : d.id = id
  <2> DEFINE k == CHOOSE i \in DOMAIN channels : channels[i].id = id
  <2>1. channels' = RemoveAt(channels, k)
    BY <1>1 DEF Removed
  <2>2. k \in 1 .. Len(channels) /\ channels \in Seq(Channel)
    BY <1>1 DEF ToSet, Registry
  <2> HIDE DEF k
  <2>3. /\ channels' \in Seq(Channel) /\ Len(channels') = Len(channels) - 1
        /\ \A i \in 1 .. Len(channels) - 1 :
             channels'[i] = channels[IF i < k THEN i ELSE i + 1]
    BY <2>1, <2>2, RemoveAtShift
  <2> DEFINE at1(i) == IF i < k THEN i ELSE i + 1
  <2>4. Len(channels) \in Nat /\ DOMAIN channels' = 1 .. Len(channels) - 1
        /\ DOMAIN channels = 1 .. Len(channels)
    BY <2>2, <2>3
  <2>5. ASSUME NEW i \in DOMAIN channels', NEW j \in DOMAIN channels',
               channels'[i].id = channels'[j].id
        PROVE  i = j
    <3>1. at1(i) \in DOMAIN channels /\ at1(j) \in DOMAIN channels
      BY <2>2, <2>4
    <3>2. channels'[i] = channels[at1(i)] /\ channels'[j] = channels[at1(j)]
      BY <2>3, <2>4
    <3>3. at1(i) = at1(j)
      <4> HIDE DEF at1
      <4> QED BY <2>5, <3>1, <3>2 DEF Registry
    <3> QED BY <2>2, <2>4, <3>3
  <2> QED BY <2>3, <2>5 DEF Registry
<1>2. CASE ~ \E d \in ToSet(channels) : d.id = id
  BY <1>2 DEF Removed, Registry
<1> QED BY <1>1, <1>2

\* The types of the CommandBus.
BusType ==
  /\ queue \in [0 .. Capacity - 1 -> Command \union {Empty}]
  /\ head \in 0 .. Capacity - 1 /\ tail \in 0 .. Capacity - 1
  /\ count \in 0 .. Capacity /\ latest \in 0 .. MaxCommands

\* The types of the discovery.
DiscoveryType ==
  /\ discovered \subseteq Entity /\ retained \subseteq Entity /\ unsettled \subseteq Entity
  /\ described \in BOOLEAN

\* The types of the rest.
FlagType ==
  /\ twoWay \in BOOLEAN /\ writeBusy \in BOOLEAN /\ online \in BOOLEAN
  /\ changes \in 0 .. MaxChanges

Types == Registry /\ BusType /\ DiscoveryType /\ FlagType

LEMMA TypesSuffice == Types /\ IInv => TypeOK
<1> SUFFICES ASSUME Types, IInv PROVE TypeOK
  OBVIOUS
<1>1. at \in {"mqtt", "core", "rest"} /\ steps \in 0 .. BatchSize
  BY GatewayAssumption DEF IInv, Phases, Ring, Indices
<1>2. ended \in Nat
  BY DEF IInv, Ring, Indices
<1> QED BY <1>1, <1>2, Zenon DEF Types, Registry, BusType, DiscoveryType, FlagType, TypeOK

LEMMA InitTypes == Init => Types
<1> SUFFICES ASSUME Init PROVE Types
  OBVIOUS
<1>1. Registry
  BY DEF Init, Registry
<1>2. BusType
  BY GatewayAssumption DEF Init, BusType
<1>3. DiscoveryType
  BY DEF Init, DiscoveryType
<1>4. FlagType
  BY GatewayAssumption DEF Init, FlagType
<1> QED BY <1>1, <1>2, <1>3, <1>4 DEF Types

LEMMA DesiredType == Registry => Desired \subseteq Entity
<1> SUFFICES ASSUME Registry, NEW c \in ToSet(channels) PROVE EntityOf(c) \in Entity
  BY DEF Desired
<1>1. c \in Channel
  BY DEF Registry, ToSet
<1>2. c.id \in Ids
  BY <1>1 DEF Channel
<1>3. EntityOf(c).component \in {"switch", "number", "binary_sensor", "sensor"}
  BY DEF EntityOf
<1> QED BY <1>2, <1>3 DEF EntityOf, Entity

LEMMA BusTypeKept == BusType /\ UNCHANGED bus => BusType'
  BY DEF BusType, bus, Empty, Command, Kinds

\* The ring before the first command.
LEMMA BusTypeRestart == Restart => BusType'
  BY GatewayAssumption DEF Restart, BusType, Empty

LEMMA BusTypeStep ==
  ASSUME BusType, Ring, Registry, [Next]_vars PROVE BusType'
<1>1. CASE HandleMessage
  <2>1. PICK c \in ToSet(channels) : WriteFromMqtt(c)
    BY <1>1 DEF HandleMessage
  <2> DEFINE command ==
        [sequence |-> latest + 1, id |-> c.id, kind |-> c.kind, version |-> c.version]
  <2>2. c \in Channel
    BY DEF Registry, ToSet
  <2>3. latest \in 0 .. MaxCommands /\ latest < MaxCommands /\ head' = head
    BY <1>1 DEF HandleMessage, BusType
  <2>4. latest + 1 \in 1 .. MaxCommands /\ latest + 1 \in 0 .. MaxCommands
    BY <2>3, GatewayAssumption
  <2>5. command \in Command
    BY <2>2, <2>4 DEF Command, Channel
  <2>6. /\ count < Capacity /\ queue' = [queue EXCEPT ![tail] = command]
        /\ tail' = (tail + 1) % Capacity /\ count' = count + 1 /\ latest' = latest + 1
    BY <2>1 DEF WriteFromMqtt, Enqueue
  <2> HIDE DEF command
  <2>7. queue' \in [0 .. Capacity - 1 -> Command \union {Empty}]
    BY <2>5, <2>6 DEF BusType
  <2>8. tail' \in 0 .. Capacity - 1 /\ count' \in 0 .. Capacity /\ latest' \in 0 .. MaxCommands
    BY <2>4, <2>6, GatewayAssumption DEF BusType
  <2> QED BY <2>3, <2>7, <2>8 DEF BusType, Empty, Command, Kinds
<1>2. CASE ProcessCommand
  <2>1. /\ count > 0 /\ queue' = [queue EXCEPT ![head] = Empty]
        /\ head' = (head + 1) % Capacity /\ count' = count - 1
        /\ UNCHANGED <<tail, latest>>
    BY <1>2 DEF ProcessCommand, Dequeue
  <2>2. queue' \in [0 .. Capacity - 1 -> Command \union {Empty}]
    BY <2>1 DEF BusType
  <2>3. head' \in 0 .. Capacity - 1 /\ count' \in 0 .. Capacity
    BY <2>1, GatewayAssumption DEF BusType
  <2> QED BY <2>1, <2>2, <2>3 DEF BusType, Empty, Command, Kinds
<1>3. CASE Restart
  BY <1>3, BusTypeRestart
<1>4. CASE UNCHANGED bus
  BY <1>4, BusTypeKept
<1> QED BY <1>1, <1>2, <1>3, <1>4
  DEF Next, Connect, StayOffline, MqttLoopEnds, LoseConnection, CoreEnds, UpsertChannel,
      RemoveChannel, SetMode, WriteEnds, LoopEnds, vars

LEMMA DiscoveryTypeStep ==
  ASSUME DiscoveryType, FlagType, Registry, [Next]_vars PROVE DiscoveryType'
<1>1. CASE PublishDiscovery
  <2>1. Desired \subseteq Entity
    BY DesiredType
  <2>2. discovered' \subseteq Entity /\ retained' \subseteq Entity /\ unsettled' \subseteq Entity
    BY <1>1, <2>1 DEF PublishDiscovery, DiscoveryType
  <2>3. described' \in BOOLEAN
    BY <1>1 DEF PublishDiscovery, FlagType
  <2> QED BY <2>2, <2>3 DEF DiscoveryType, Entity
<1>2. CASE LoseConnection \/ Restart
  BY <1>2 DEF LoseConnection, Restart, DiscoveryType, Entity
<1>3. CASE UNCHANGED <<discovered, retained, unsettled, described>>
  BY <1>3 DEF DiscoveryType, Entity
<1> QED BY <1>1, <1>2, <1>3
  DEF Next, Connect, StayOffline, HandleMessage, MqttLoopEnds, ProcessCommand, CoreEnds,
      UpsertChannel, RemoveChannel, SetMode, WriteEnds, LoopEnds, vars, discovery

LEMMA RegistryStep ==
  ASSUME Registry, FlagType, [Next]_vars PROVE Registry'
<1>1. CASE UpsertChannel
  <2>1. PICK id \in Ids, kind \in Kinds, writable \in BOOLEAN :
          channels' = Upserted(Bound(id, kind, writable))
    BY <1>1 DEF UpsertChannel
  <2>2. changes + 1 \in 1 .. MaxChanges
    <3>1. changes < MaxChanges /\ changes \in 0 .. MaxChanges
      BY <1>1 DEF UpsertChannel, FlagType
    <3> QED BY <3>1, GatewayAssumption
  <2>3. Bound(id, kind, writable) \in Channel
    BY <2>2 DEF Bound, Channel
  <2> QED BY <2>1, <2>3, RegistryUpsert
<1>2. CASE RemoveChannel
  BY <1>2, RegistryRemove DEF RemoveChannel
<1>3. CASE UNCHANGED channels
  BY <1>3 DEF Registry, Channel, Kinds
<1> QED BY <1>1, <1>2, <1>3
  DEF Next, Connect, StayOffline, HandleMessage, MqttLoopEnds, LoseConnection, ProcessCommand,
      CoreEnds, SetMode, WriteEnds, LoopEnds, Restart, vars

LEMMA FlagTypeStep ==
  ASSUME FlagType, [Next]_vars PROVE FlagType'
<1>1. changes' \in 0 .. MaxChanges
  <2>1. changes' = changes \/ (changes < MaxChanges /\ changes' = changes + 1)
    BY DEF Next, Connect, StayOffline, HandleMessage, MqttLoopEnds, LoseConnection,
       ProcessCommand, CoreEnds, UpsertChannel, RemoveChannel, SetMode, WriteEnds, LoopEnds,
       Restart, vars
  <2>2. changes \in 0 .. MaxChanges
    BY DEF FlagType
  <2> QED BY <2>1, <2>2, GatewayAssumption
<1>2. twoWay' \in BOOLEAN /\ writeBusy' \in BOOLEAN /\ online' \in BOOLEAN
  BY DEF FlagType, Next, Connect, StayOffline, HandleMessage, MqttLoopEnds, LoseConnection,
     ProcessCommand, CoreEnds, UpsertChannel, RemoveChannel, SetMode, WriteEnds, LoopEnds,
     Restart, vars
<1> QED BY <1>1, <1>2 DEF FlagType

\* Type correctness; the registry never holds two entries of a channel id,
\* whatever is upserted and removed.
THEOREM TypeCorrect == Spec => []TypeOK
<1>1. Types /\ IInv /\ [Next]_vars => Types'
  BY RegistryStep, BusTypeStep, DiscoveryTypeStep, FlagTypeStep DEF Types, IInv
<1> QED BY <1>1, InitTypes, TypesSuffice, InitIInv, NextIInv, PTL DEF Spec
=============================================================================
