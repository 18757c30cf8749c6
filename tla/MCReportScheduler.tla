-------------------------- MODULE MCReportScheduler --------------------------
(***************************************************************************)
(* Two small instances of ReportScheduler.  The first has three slots and  *)
(* is run in two ways: with the clock at rest and an interval of 0, so     *)
(* that every deadline is due ("structure"), and with one of the slots in  *)
(* use and a clock that wraps ("periods").  The second (T) has one slot, a *)
(* clock and a delay before a packet is sent again ("answers").  A         *)
(* behaviour is one of the three, which "focus" names.                     *)
(***************************************************************************)
EXTENDS ReportScheduler, TLC

CONSTANTS chA, chB, v1

\* One kind of channel whose reading the encoder refuses.
MCRefused == (chA :> 2) @@ (chB :> 0)

VARIABLES
  focus,
  tNow, tInterval, tCompletion, tSamples, tReportSamples, tNextReportAt, tRetryAt, tCursor,
  tPendingNextCursor, tReportInProgress, tPending, tImmediate, tPayload, tPhase, tSentAt,
  tEpoch, tDelivered, tFrozen, tCleared, tAsked, tAge

timing ==
  <<tNow, tInterval, tCompletion, tSamples, tReportSamples, tNextReportAt, tRetryAt, tCursor,
    tPendingNextCursor, tReportInProgress, tPending, tImmediate, tPayload, tPhase, tSentAt,
    tEpoch, tDelivered, tFrozen, tCleared, tAsked, tAge>>

T == INSTANCE ReportScheduler WITH
       now <- tNow, interval <- tInterval, completion <- tCompletion, samples <- tSamples,
       reportSamples <- tReportSamples, nextReportAt <- tNextReportAt, retryAt <- tRetryAt,
       cursor <- tCursor, pendingNextCursor <- tPendingNextCursor,
       reportInProgress <- tReportInProgress, pending <- tPending,
       immediate <- tImmediate, payload <- tPayload, phase <- tPhase, sentAt <- tSentAt,
       epoch <- tEpoch, delivered <- tDelivered, frozen <- tFrozen, cleared <- tCleared,
       asked <- tAsked,
       age <- tAge,
       NSlots <- 1, Channels <- {chA}, ValueLength <- (chA :> 2), PayloadLimit <- 3,
       Wrap <- 8, Intervals <- {2, 3}, RetryDelay <- 2, MaxEpoch <- 0

\* One slot, polled once: it has only one reading to report.
OneSlot ==
  /\ samples[1] = NoSample /\ samples[2] = NoSample /\ \A s \in Slots : epoch[s] = 0
  /\ completion # NoRecords => DOMAIN completion = {0} /\ samples[0] = NoSample

\* Only the middle slot gets the kind of channel the encoder refuses.
RefusedInTheMiddle == \A s \in DOMAIN completion : completion[s].channel = chB => s = 1

MCInit ==
  /\ focus \in {"structure", "periods", "answers"}
  /\ Init
  /\ T!Init
  /\ focus = "periods" <=> interval # 0
  /\ focus # "periods" => now = 0
  /\ focus # "answers" => tNow = 0 /\ tInterval = 2

MCNext ==
  /\ UNCHANGED focus
  /\ \/ focus = "structure" /\ Next /\ RefusedInTheMiddle' /\ UNCHANGED <<now, interval, timing>>
     \/ focus = "periods" /\ Next /\ interval' # 0 /\ OneSlot' /\ UNCHANGED timing
     \/ focus = "answers" /\ T!Next /\ UNCHANGED vars

Timing(A) == focus = "answers" /\ A

\* The fairness of ReportScheduler, for the instance with a clock.
MCSpec ==
  /\ MCInit /\ [][MCNext]_<<focus, vars, timing>>
  /\ WF_timing(Timing(T!Tick))
  /\ SF_timing(Timing(T!CaptureInTime))
  /\ SF_timing(Timing(T!ReportStep))
  /\ WF_timing(Timing(T!SendSucceeds \/ T!SendFails))
  /\ SF_timing(Timing(T!SendSucceeds))

EnquiryIsAnswered == T!EnquiryAnswered
=============================================================================
