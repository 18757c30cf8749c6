------------------------------ MODULE MCBacklogs ------------------------------
(***************************************************************************)
(* What waits for a connection: the events the broker has not got yet      *)
(* (EventBus) and the records and answers the LoRaWAN server has not got   *)
(* yet (HistoryUpload).  They share neither state nor link, so a behaviour *)
(* moves one of them, which "focus" names.                                 *)
(***************************************************************************)
EXTENDS EventBus, TLC

CONSTANTS e1, e2
MCEvents == {e1, e2}

MCRange == {[kind |-> "range", start |-> 1, end |-> 9]}

VARIABLES
  focus,
  unix, ring, storage, retransmit, marker, flash, running, joined, wasConnected, observed,
  snapshotted, snapshot, next, queryActive, queryRecords, queryCursor, stack,
  stored, restarts, due, forwarded, clearing, selected, uploaded, overlapped

H == INSTANCE HistoryUpload WITH
       connected <- joined, Capacity <- 2, PacketRecords <- 1, Tolerance <- 0, NetworkTimes <- {1},
       Queries <- MCRange, SaveOutcomes <- {"both", "none"},
       MaxRecords <- 2, MaxTime <- 1, MaxDepth <- 1, MaxRestarts <- 0

historyVars ==
  <<unix, ring, storage, retransmit, marker, flash, running, joined, wasConnected, observed,
    snapshotted, snapshot, next, queryActive, queryRecords, queryCursor, stack,
    stored, restarts, due, forwarded, clearing, selected, uploaded, overlapped>>

MCInit ==
  /\ focus \in {"events", "history"}
  /\ EventInit
  /\ H!Init
  /\ focus = "events" => ~joined

MCNext ==
  /\ UNCHANGED focus
  /\ \/ focus = "events" /\ EventNext /\ UNCHANGED historyVars
     \/ focus = "history" /\ H!Next /\ UNCHANGED eventVars

History(A) == focus = "history" /\ A

\* The fairness of EventBus and of HistoryUpload, each in its own behaviours.
MCSpec ==
  /\ MCInit /\ [][MCNext]_<<focus, eventVars, historyVars>>
  /\ SF_eventVars(focus = "events" /\ PublishEvent)
  /\ WF_eventVars(focus = "events" /\ Connect)
  /\ SF_historyVars(History(H!RetransmitPacket))
  /\ SF_historyVars(History(H!RetransmissionDone("both")))
  /\ SF_historyVars(History(H!UploadPacket \/ H!NothingToUpload))
  /\ WF_historyVars(History(\E up \in BOOLEAN : H!SendFails(up)))
  /\ \A user \in {"query", "retransmission", "reply"} :
       SF_historyVars(History(H!SendSucceeds /\ Head(stack).from = user))
  /\ SF_historyVars(History(\E outcome \in {"both", "none"} : H!ObserveLink(outcome)))
  /\ WF_historyVars(History(H!QueryPacketSent \/ H!ReplySent))
  /\ WF_historyVars(History(\E outcome \in {"both", "none"} : H!RetransmissionPacketSent(outcome)))

StableLinkDrains == H!StableLinkForwards /\ H!StableLinkUploads
=============================================================================
