---------------------------- MODULE OutboxProofs ----------------------------
(***************************************************************************)
(* Theorems about Outbox for any number of events, consumers, dispatchers   *)
(* and faults, also when batches outlive their leases.                      *)
(***************************************************************************)
EXTENDS Outbox, TLAPS

\* The outbox's states are well typed.
THEOREM TypeCorrect == Spec => []TypeOK
<1>1. Init => TypeOK
  BY DEF Init, TypeOK, EventStatus, NoJobs
<1>2. TypeOK /\ [Next]_vars => TypeOK'
  <2> SUFFICES ASSUME TypeOK, [Next]_vars PROVE TypeOK'
    OBVIOUS
  <2> USE OutboxAssumption DEF TypeOK, EventStatus
  <2>1. \A e \in Events : JobsAfter(e) \in [Topics -> Nat]
    BY DEF JobsAfter
  <2>2. ASSUME NEW e \in Events, CommitDelivery(e)
        PROVE  /\ jobs' \in [Events -> [Topics -> Nat]]
               /\ status' \in [Events -> EventStatus]
               /\ attempts' \in [Events -> Nat]
               /\ ready' \in [Events -> BOOLEAN]
    BY <2>1, <2>2 DEF CommitDelivery
  <2>3. ASSUME NEW e \in Events, NEW n \in Nat, NEW B \in SUBSET BOOLEAN,
               MarkOutboxFailed(e, n, B)
        PROVE  /\ status' \in [Events -> EventStatus]
               /\ attempts' \in [Events -> Nat]
               /\ ready' \in [Events -> BOOLEAN]
    BY <2>3 DEF MarkOutboxFailed
  <2>4. ASSUME NEW e \in Events,
               AppendOutboxEvent(e) \/ BecomesReady(e) \/ LeaseLapses(e) \/ RequeueOutbox(e)
        PROVE  TypeOK'
    <3>1. CASE AppendOutboxEvent(e)
      BY <3>1 DEF AppendOutboxEvent
    <3>2. CASE BecomesReady(e)
      BY <3>2 DEF BecomesReady
    <3>3. CASE LeaseLapses(e)
      BY <3>3 DEF LeaseLapses, Fault
    <3>4. CASE RequeueOutbox(e)
      BY <3>4 DEF RequeueOutbox, Fault
    <3>5. QED
      BY <2>4, <3>1, <3>2, <3>3, <3>4
  <2>5. ASSUME NEW d \in Dispatchers, PickBatch(d) PROVE TypeOK'
    BY <2>5 DEF PickBatch
  <2>6. ASSUME NEW d \in Dispatchers, DispatchAborts(d) PROVE TypeOK'
    BY <2>6 DEF DispatchAborts, Fault
  <2>7. ASSUME NEW d \in Dispatchers, NEW e \in Events, DeliverEvent(d, e) PROVE TypeOK'
    BY <2>2, <2>7 DEF DeliverEvent
  <2>8. ASSUME NEW d \in Dispatchers, NEW e \in Events, DeliveryThrows(d, e) PROVE TypeOK'
    <3>1. faults' \in Nat /\ erring' \in [Dispatchers -> SUBSET Events]
      BY <2>8 DEF DeliveryThrows, Fault
    <3>2. QED
      BY <2>2, <2>8, <3>1 DEF DeliveryThrows
  <2>9. ASSUME NEW d \in Dispatchers, NEW e \in Events, RecordFailure(d, e) PROVE TypeOK'
    <3>1. NextAttempt(d, e) \in Nat
      BY DEF NextAttempt
    <3>2. QED
      BY <2>3, <2>9, <3>1 DEF RecordFailure
  <2>10. ASSUME NEW d \in Dispatchers, NEW e \in Events, QuarantineGap(d, e) PROVE TypeOK'
    BY <2>3, <2>10 DEF QuarantineGap
  <2>11. CASE UNCHANGED vars
    BY <2>11 DEF vars
  <2>12. QED
    BY <2>4, <2>5, <2>6, <2>7, <2>8, <2>9, <2>10, <2>11 DEF Next, DispatcherStep
<1>3. QED
  BY <1>1, <1>2, PTL DEF Spec

-----------------------------------------------------------------------------
(* Handing over. *)

WorkFor(e) == [t \in Topics |-> IF t \in Consumers[e] THEN 1 ELSE 0]

\* The jobs of an event exist all or not at all; all of them once it is
\* delivered; and only recorded events are in a dispatcher's hands.
HandOverInv ==
  /\ \A e \in Events : jobs[e] \in {NoJobs, WorkFor(e)}
  /\ \A e \in Events : status[e] = "delivered" => jobs[e] = WorkFor(e) /\ e \notin Gaps
  /\ \A e \in Events : status[e] = "absent" => jobs[e] = NoJobs
  /\ \A d \in Dispatchers, e \in Events :
       e \in batch[d] \/ e \in erring[d] => status[e] # "absent"

\* Delivering once more creates nothing: the unique index absorbs it.
LEMMA JobsAfterIsWork ==
  ASSUME NEW e \in Events, jobs[e] \in {NoJobs, WorkFor(e)}
  PROVE  JobsAfter(e) = WorkFor(e)
<1>1. CASE jobs[e] = NoJobs
  BY <1>1 DEF JobsAfter, WorkFor, NoJobs
<1>2. CASE jobs[e] = WorkFor(e)
  BY <1>2 DEF JobsAfter, WorkFor
<1>3. QED
  BY <1>1, <1>2

\* The one statement that touches jobs completes an event's hand-over.
LEMMA CommitHandsOver ==
  ASSUME TypeOK, HandOverInv, NEW e \in Events, CommitDelivery(e)
  PROVE  /\ jobs' = [jobs EXCEPT ![e] = WorkFor(e)]
         /\ status' = [status EXCEPT ![e] = "delivered"]
BY JobsAfterIsWork DEF CommitDelivery, HandOverInv

HandedOver(e) ==
  /\ jobs' = [jobs EXCEPT ![e] = WorkFor(e)]
  /\ status' = [status EXCEPT ![e] = "delivered"]

\* Completing a hand-over keeps the invariant if nothing new is taken in hand.
LEMMA HandedOverKeeps ==
  ASSUME TypeOK, HandOverInv, NEW e \in Events, e \notin Gaps, HandedOver(e),
         \A c \in Dispatchers, f \in Events :
           f \in batch'[c] \/ f \in erring'[c]
             => f = e \/ f \in batch[c] \/ f \in erring[c]
  PROVE  HandOverInv'
<1>1. \A f \in Events : /\ jobs'[f] = IF f = e THEN WorkFor(e) ELSE jobs[f]
                        /\ status'[f] = IF f = e THEN "delivered" ELSE status[f]
  BY DEF HandedOver, TypeOK
<1>2. \A f \in Events : WorkFor(f)' = WorkFor(f)
  BY DEF WorkFor
<1>3. QED
  BY <1>1, <1>2 DEF HandOverInv

LEMMA HandOverStep ==
  ASSUME TypeOK, HandOverInv, [Next]_vars PROVE HandOverInv'
<1> USE DEF TypeOK
<1>1. ASSUME NEW e \in Events,
             AppendOutboxEvent(e) \/ BecomesReady(e) \/ LeaseLapses(e) \/ RequeueOutbox(e)
      PROVE  HandOverInv'
  BY <1>1 DEF AppendOutboxEvent, BecomesReady, LeaseLapses, RequeueOutbox, HandOverInv
<1>2. ASSUME NEW d \in Dispatchers, PickBatch(d) PROVE HandOverInv'
  <2>1. PICK P \in SUBSET {e \in Events : Pickable(e)} :
          /\ batch' = [batch EXCEPT ![d] = P]
          /\ status' = [e \in Events |-> IF e \in P THEN "delivering" ELSE status[e]]
    BY <1>2 DEF PickBatch
  <2>2. \A e \in P : e \in Events /\ status[e] # "absent"
    BY DEF Pickable
  <2>3. UNCHANGED <<jobs, erring>>
    BY <1>2 DEF PickBatch
  <2>4. QED
    BY <2>1, <2>2, <2>3 DEF HandOverInv
<1>3. ASSUME NEW d \in Dispatchers, DispatchAborts(d) PROVE HandOverInv'
  BY <1>3 DEF DispatchAborts, HandOverInv
<1>4. ASSUME NEW d \in Dispatchers, NEW e \in Events, DeliverEvent(d, e) PROVE HandOverInv'
  <2>1. e \notin Gaps /\ CommitDelivery(e) /\ UNCHANGED erring
          /\ batch' = [batch EXCEPT ![d] = @ \ {e}]
    BY <1>4 DEF DeliverEvent
  <2>2. HandedOver(e)
    BY <2>1, CommitHandsOver DEF HandedOver
  <2>3. QED
    BY <2>1, <2>2, HandedOverKeeps
<1>5. ASSUME NEW d \in Dispatchers, NEW e \in Events, DeliveryThrows(d, e) PROVE HandOverInv'
  <2>1. /\ e \notin Gaps /\ e \in batch[d] /\ UNCHANGED batch
        /\ erring' = [erring EXCEPT ![d] = {e}]
        /\ CommitDelivery(e) \/ UNCHANGED <<status, jobs>>
    BY <1>5 DEF DeliveryThrows, Handling
  <2>2. CASE CommitDelivery(e)
    <3>1. HandedOver(e)
      BY <2>2, CommitHandsOver DEF HandedOver
    <3>2. \A c \in Dispatchers, f \in Events : f \in erring'[c] => f = e \/ f \in erring[c]
      BY <2>1
    <3>3. QED
      BY <2>1, <3>1, <3>2, HandedOverKeeps
  <2>3. CASE UNCHANGED <<status, jobs>>
    BY <2>1, <2>3 DEF HandOverInv
  <2>4. QED
    BY <2>1, <2>2, <2>3
<1>6. ASSUME NEW d \in Dispatchers, NEW e \in Events,
             RecordFailure(d, e) \/ QuarantineGap(d, e)
      PROVE  HandOverInv'
  <2>1. /\ status' = [status EXCEPT ![e] = "failed"] /\ UNCHANGED jobs
        /\ e \in batch[d] \/ e \in erring[d]
        /\ batch' = [batch EXCEPT ![d] = @ \ {e}]
        /\ erring' = [erring EXCEPT ![d] = {}] \/ UNCHANGED erring
    BY <1>6 DEF RecordFailure, QuarantineGap, Handling, MarkOutboxFailed
  <2>2. QED
    BY <2>1 DEF HandOverInv
<1>7. CASE UNCHANGED vars
  BY <1>7 DEF vars, HandOverInv
<1>8. QED
  BY <1>1, <1>2, <1>3, <1>4, <1>5, <1>6, <1>7 DEF Next, DispatcherStep

\* An event's jobs exist completely or not at all, in every reachable state.
THEOREM HandOverIsAtomic == Spec => []HandOverInv
<1>1. Init => HandOverInv
  BY DEF Init, HandOverInv
<1>2. TypeOK /\ HandOverInv /\ [Next]_vars => HandOverInv'
  BY HandOverStep
<1>3. QED
  BY <1>1, <1>2, TypeCorrect, PTL DEF Spec

\* A delivered event has exactly one job for each of its consumers.
THEOREM DeliveryIsComplete == Spec => []DeliveredMeansHandedOver
<1>1. ASSUME HandOverInv PROVE DeliveredMeansHandedOver
  <2>1. \A e \in Events, t \in Topics :
          WorkFor(e)[t] = IF t \in Consumers[e] THEN 1 ELSE 0
    BY DEF WorkFor
  <2>2. QED
    BY <1>1, <2>1 DEF HandOverInv, DeliveredMeansHandedOver
<1>2. QED
  BY <1>1, HandOverIsAtomic, PTL

\* Every step of the outbox hands one event over completely, records one, or
\* changes nothing a consumer can see: it implements EventDelivery.
THEOREM OutboxImplementsDelivery == Spec => DeliveryContract
<1> DEFINE recordedNow == {e \in Events : status[e] # "absent"}
<1>1. Init => Delivery!Init
  BY DEF Init, Delivery!Init, NoJobs, Delivery!NoWork
<1>2. TypeOK /\ HandOverInv /\ [Next]_vars
        => [Delivery!Next]_<<recordedNow, jobs>>
  <2> SUFFICES ASSUME TypeOK, HandOverInv, [Next]_vars
               PROVE  Delivery!Next \/ UNCHANGED <<recordedNow, jobs>>
    OBVIOUS
  <2> USE DEF TypeOK
  <2>1. ASSUME NEW e \in Events, AppendOutboxEvent(e) PROVE Delivery!Next
    <3>1. recordedNow' = recordedNow \cup {e} /\ e \notin recordedNow /\ UNCHANGED jobs
      BY <2>1 DEF AppendOutboxEvent
    <3>2. QED
      BY <3>1 DEF Delivery!Next, Delivery!Record
  <2>2. ASSUME NEW e \in Events, status[e] # "absent", CommitDelivery(e)
        PROVE  Delivery!Next \/ UNCHANGED <<recordedNow, jobs>>
    <3>1. recordedNow' = recordedNow /\ jobs' = [jobs EXCEPT ![e] = WorkFor(e)]
      BY <2>2, CommitHandsOver
    <3>2. CASE jobs[e] = NoJobs
      BY <2>2, <3>1, <3>2
      DEF Delivery!Next, Delivery!HandOver, Delivery!NoWork, Delivery!WorkFor, NoJobs,
          WorkFor
    <3>3. CASE jobs[e] = WorkFor(e)
      BY <3>1, <3>3
    <3>4. QED
      BY <3>2, <3>3 DEF HandOverInv
  <2>3. ASSUME NEW e \in Events,
               BecomesReady(e) \/ LeaseLapses(e) \/ RequeueOutbox(e)
        PROVE  UNCHANGED <<recordedNow, jobs>>
    BY <2>3 DEF BecomesReady, LeaseLapses, RequeueOutbox
  <2>4. ASSUME NEW d \in Dispatchers, PickBatch(d) \/ DispatchAborts(d)
        PROVE  UNCHANGED <<recordedNow, jobs>>
    <3>1. \A e \in Events : status'[e] = status[e] \/ (Pickable(e) /\ status'[e] = "delivering")
      BY <2>4 DEF PickBatch, DispatchAborts
    <3>2. recordedNow' = recordedNow
      BY <3>1 DEF Pickable
    <3>3. QED
      BY <2>4, <3>2 DEF PickBatch, DispatchAborts
  <2>5. ASSUME NEW d \in Dispatchers, NEW e \in Events,
               DeliverEvent(d, e) \/ DeliveryThrows(d, e)
        PROVE  Delivery!Next \/ UNCHANGED <<recordedNow, jobs>>
    <3>1. status[e] # "absent"
      BY <2>5 DEF DeliverEvent, DeliveryThrows, Handling, HandOverInv
    <3>2. CommitDelivery(e) \/ UNCHANGED <<status, jobs>>
      BY <2>5 DEF DeliverEvent, DeliveryThrows
    <3>3. QED
      BY <2>2, <3>1, <3>2
  <2>6. ASSUME NEW d \in Dispatchers, NEW e \in Events,
               RecordFailure(d, e) \/ QuarantineGap(d, e)
        PROVE  UNCHANGED <<recordedNow, jobs>>
    <3>1. status[e] # "absent"
      BY <2>6 DEF RecordFailure, QuarantineGap, Handling, HandOverInv
    <3>2. status' = [status EXCEPT ![e] = "failed"] /\ UNCHANGED jobs
      BY <2>6 DEF RecordFailure, QuarantineGap, MarkOutboxFailed
    <3>3. QED
      BY <3>1, <3>2
  <2>7. CASE UNCHANGED vars
    BY <2>7 DEF vars
  <2>8. QED
    BY <2>1, <2>3, <2>4, <2>5, <2>6, <2>7 DEF Next, DispatcherStep
<1>3. QED
  BY <1>1, <1>2, TypeCorrect, HandOverIsAtomic, PTL
  DEF Spec, DeliveryContract, Delivery!Spec
=============================================================================
