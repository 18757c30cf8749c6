------------------------------- MODULE ModbusRtu -------------------------------
(***************************************************************************)
(* One Modbus RTU line: the transactions of modbus/ModbusRtuMaster.h with  *)
(* the frames of modbus/ModbusRtuCodec.h, and slaves that answer late.     *)
(*                                                                         *)
(* Modbus RTU has no transaction number: an answer is known by its slave,  *)
(* function and length alone.  A frame is a sequence of units: slave,      *)
(* function, and then the byte count and the data of a read, or what a     *)
(* write echoes, or the code of an exception; and the CRC.  A checksum is  *)
(* right if, and only if, the units are those of one whole frame.          *)
(***************************************************************************)
EXTENDS Naturals, Sequences, SequencesExt

CONSTANTS
  Requests,     \* requests the component may send, a subset of Shapes
  MaxRequests,  \* bound: requests in a behaviour
  MaxCount      \* largest byte count of an answer

\* function: "read", or "single" and "multiple" for writes; count: data units
\* of the answer to a read; address and value are what a write echoes.
Shapes ==
  {r \in [kind : {"read", "raw", "write"}, slave : Nat, function : {"read", "single", "multiple"},
          address : Nat, count : 0 .. MaxCount, value : Nat] :
     /\ r.kind = "read" => r.function = "read"
     /\ r.kind = "write" => r.function # "read"}

ASSUME RequestAssumption ==
  MaxRequests \in Nat /\ MaxCount \in Nat /\ Requests \subseteq Shapes

VARIABLES
  sent,      \* the requests, in the order they were sent
  active,    \* number of the request whose transaction is active, or 0
  response,  \* response_
  expected,  \* expectedResponseLength_, 0 while it is not known
  rx,        \* units the UART has received
  answers,   \* history variable: of each request, when its answer began (the
             \* number of requests sent by then, 0 for never) and how
  talking,   \* the answer that is on the line: request and next unit, or 0, 0
  result     \* history variable: the last finished transaction

lineVars == <<sent, active, response, expected, rx, answers, talking, result>>

-----------------------------------------------------------------------------
(* Frames.                                                                 *)

Unit(n, i) == <<n, i>>
Silent == <<0, 0>>

\* The number of units: three before the data of a read and one after it; slave,
\* function, two echoed words and CRC of a write; four of an exception.
FrameLength(n) ==
  IF answers[n].exception THEN 4
  ELSE IF sent[n].kind = "write" THEN 5 ELSE 4 + sent[n].count

\* The request whose whole answer was received, or 0: the CRC is wrong.
Checked(units) ==
  LET whole == {n \in 1 .. Len(sent) :
                  /\ answers[n].began > 0
                  /\ units = [i \in 1 .. FrameLength(n) |-> Unit(n, i)]}
  IN  IF whole = {} THEN 0 ELSE CHOOSE n \in whole : TRUE

\* decodeReadResponse and decodeWriteResponse: of the whole answer to request n,
\* does it fit the active request?  Of a write of several registers only the
\* address and the number of registers are echoed.
Fits(n) ==
  LET asked == sent[active]
      given == sent[n]
  IN  /\ given.slave = asked.slave
      /\ given.function = asked.function
      /\ \/ answers[n].exception
         \/ asked.kind = "read" /\ given.count = asked.count
         \/ /\ asked.kind = "write" /\ given.address = asked.address
            /\ asked.function = "single" => given.value = asked.value

Verdict(units) ==
  LET n == Checked(units)
  IN  IF n = 0 \/ ~Fits(n) THEN "failed"
      ELSE IF answers[n].exception THEN "exception" ELSE "ok"

\* The lengths the master may read out of what it has received.  A unit in a
\* place where it does not belong may have any value; 3 stands for a frame that
\* the buffer cannot hold, which ends the transaction at once.
Lengths(units) ==
  LET u == Last(units)
      proper == u[2] = Len(units)
      write == sent[active].kind = "write"
  IN  CASE Len(units) = 2 ->
             LET normal == IF write THEN 5 ELSE 0
             IN  IF proper THEN {IF answers[u[1]].exception THEN 4 ELSE normal}
                 ELSE {4, normal}
        [] Len(units) = 3 /\ ~write /\ expected = 0 ->
             IF proper /\ sent[u[1]].kind # "write" THEN {4 + sent[u[1]].count}
             ELSE {3} \cup {4 + count : count \in 0 .. MaxCount}
        [] OTHER -> {expected}

-----------------------------------------------------------------------------
(* The master.                                                             *)

NoResult == [of |-> 0, from |-> 0, verdict |-> "none", timeout |-> FALSE, mixed |-> FALSE]

Start_NoDrain(r) ==
  /\ active = 0 /\ Len(sent) < MaxRequests
  /\ sent' = Append(sent, r)
  /\ answers' = Append(answers, [began |-> 0, exception |-> FALSE])
  /\ active' = Len(sent) + 1
  /\ response' = <<>> /\ expected' = 0
  /\ UNCHANGED <<rx, talking, result>>

\* startRead, startWrite and startRaw: what was received before is dropped.
Start(r) ==
  /\ active = 0 /\ Len(sent) < MaxRequests
  /\ sent' = Append(sent, r)
  /\ answers' = Append(answers, [began |-> 0, exception |-> FALSE])
  /\ active' = Len(sent) + 1
  /\ rx' = <<>> /\ response' = <<>> /\ expected' = 0
  /\ UNCHANGED <<talking, result>>

Finish(verdict, from, late, units) ==
  /\ active' = 0 /\ response' = <<>> /\ expected' = 0
  /\ result' = [of |-> active, from |-> from, verdict |-> verdict, timeout |-> late,
                mixed |-> \E i \in 1 .. Len(units) : units[i][1] # active]

\* One turn of the loop of pollRead and pollWrite.
Receive ==
  /\ active > 0 /\ sent[active].kind # "raw" /\ rx # <<>>
  /\ LET units == Append(response, Head(rx))
     IN  \E length \in Lengths(units) :
           IF length > 0 /\ Len(units) >= length
           THEN Finish(Verdict(units), Checked(units), FALSE, units)
           ELSE /\ response' = units /\ expected' = length
                /\ UNCHANGED <<active, result>>
  /\ rx' = Tail(rx)
  /\ UNCHANGED <<sent, answers, talking>>

\* The response timeout, seen when nothing more is available.
Timeout ==
  /\ active > 0 /\ sent[active].kind # "raw" /\ rx = <<>>
  /\ IF response = <<>>
     THEN Finish("failed", 0, TRUE, response)
     ELSE Finish(Verdict(response), Checked(response), TRUE, response)
  /\ UNCHANGED <<sent, rx, answers, talking>>

\* pollRaw takes everything up to a pause, or the timeout, unseen.
ReceiveRaw ==
  /\ active > 0 /\ sent[active].kind = "raw"
  /\ Finish(IF rx = <<>> THEN "failed" ELSE "raw", 0, rx = <<>>, rx)
  /\ rx' = <<>>
  /\ UNCHANGED <<sent, answers, talking>>

\* cancelTransaction drops the transaction and what was received.
Cancel ==
  /\ active > 0
  /\ active' = 0 /\ response' = <<>> /\ expected' = 0 /\ rx' = <<>>
  /\ UNCHANGED <<sent, answers, talking, result>>

-----------------------------------------------------------------------------
(* The slaves: each answers a request once, when it likes, or not at all.  *)

SlaveBegins(n) ==
  /\ talking = Silent
  /\ answers[n].began = 0
  /\ \E exception \in BOOLEAN :
       answers' = [answers EXCEPT ![n] = [began |-> Len(sent), exception |-> exception]]
  /\ rx' = Append(rx, Unit(n, 1))
  /\ talking' = Unit(n, 2)
  /\ UNCHANGED <<sent, active, response, expected, result>>

SlaveSends ==
  /\ talking # Silent
  /\ rx' = Append(rx, talking)
  /\ talking' = IF talking[2] = FrameLength(talking[1]) THEN Silent
                ELSE Unit(talking[1], talking[2] + 1)
  /\ UNCHANGED <<sent, active, response, expected, answers, result>>

LineInit ==
  /\ sent = <<>> /\ active = 0 /\ response = <<>> /\ expected = 0
  /\ rx = <<>> /\ answers = <<>> /\ talking = Silent
  /\ result = NoResult

LineNext ==
  \/ \E r \in Requests : Start(r)
  \/ Receive \/ Timeout \/ ReceiveRaw \/ Cancel
  \/ \E n \in 1 .. Len(sent) : SlaveBegins(n)
  \/ SlaveSends

LineSpec == LineInit /\ [][LineNext]_lineVars

-----------------------------------------------------------------------------
(* Properties.                                                             *)

\* A transaction that succeeds got the answer to its own request, or one that
\* began after the request was sent and belongs to an earlier request, given up
\* by then, of the same slave, function and length (of a write: address and, for
\* a single one, value): no answer received before, and none that was used, is
\* ever taken (pollRead, pollWrite and the drain of the receive buffer).
AnswerFits ==
  result.verdict = "ok" =>
    /\ result.from \in 1 .. result.of
    /\ answers[result.from].began >= result.of
    /\ sent[result.from].slave = sent[result.of].slave
    /\ sent[result.of].kind = "read" => sent[result.from].count = sent[result.of].count
    /\ sent[result.of].function = "single" => sent[result.from].value = sent[result.of].value

\* A transaction fails only by its timeout, or because units of another answer
\* are among those it has received: the length the master expects is that of
\* the frame a slave sends.
FailureHasCause ==
  result.verdict = "failed" => result.timeout \/ result.mixed

\* What the master says of a transaction is what the line has shown it
\* (pollRead, pollWrite and the decoders).
TransactionsJustified == AnswerFits /\ FailureHasCause
=============================================================================
