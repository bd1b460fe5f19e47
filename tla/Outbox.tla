------------------------------- MODULE Outbox -------------------------------
(***************************************************************************)
(* The transactional outbox and its dispatcher (packages/db/src/queue.ts,   *)
(* dispatchOutbox) with the operator's re-delivery command.                 *)
(*                                                                          *)
(* next_attempt_at is kept as ready[e], next_attempt_at <= now().  For a    *)
(* delivering event it is the dispatcher's lease.                           *)
(***************************************************************************)
EXTENDS Naturals, FiniteSets

CONSTANTS
  Events,       \* event ids (UUIDv7: later events have larger ids)
  Topics,       \* job topics
  Consumers,    \* Consumers[e]: the topics EVENT_CONSUMERS names for e
  Gaps,         \* events with neither consumers nor a declaration of none
  Poison,       \* events whose delivery always throws
  Dispatchers,  \* worker processes
  MaxAttempts,  \* OUTBOX_MAX_ATTEMPTS
  BatchLimit,   \* limit of one dispatch
  FaultBudget,  \* bound: how many faults and operator interventions happen
  Slow          \* events whose lease can run out in a batch that is slow

ASSUME OutboxAssumption ==
  /\ Events \subseteq Nat
  /\ Consumers \in [Events -> SUBSET Topics]
  /\ Gaps \subseteq Events
  /\ \A e \in Gaps : Consumers[e] = {}
  /\ Poison \subseteq Events \ Gaps
  /\ MaxAttempts \in Nat \ {0}
  /\ BatchLimit \in Nat \ {0}
  /\ FaultBudget \in Nat
  /\ Slow \subseteq Events

VARIABLES
  status,    \* outbox_events.status, "absent" before the row is committed
  attempts,  \* outbox_events.attempts
  ready,     \* next_attempt_at <= now()
  jobs,      \* jobs[e][t]: job rows with idempotency key t:e
  batch,     \* batch[d]: events d picked and has still to handle
  held,      \* held[d][e]: the attempts value d picked e with
  erring,    \* erring[d]: events of d whose delivery threw (at most one)
  faults     \* faults and interventions so far

vars == <<status, attempts, ready, jobs, batch, held, erring, faults>>

EventStatus == {"absent", "pending", "delivering", "delivered", "failed"}

TypeOK ==
  /\ status \in [Events -> EventStatus]
  /\ attempts \in [Events -> Nat]
  /\ ready \in [Events -> BOOLEAN]
  /\ jobs \in [Events -> [Topics -> Nat]]
  /\ batch \in [Dispatchers -> SUBSET Events]
  /\ held \in [Dispatchers -> [Events -> Nat]]
  /\ erring \in [Dispatchers -> SUBSET Events]
  /\ faults \in Nat

NoJobs == [t \in Topics |-> 0]

Init ==
  /\ status = [e \in Events |-> "absent"]
  /\ attempts = [e \in Events |-> 0]
  /\ ready = [e \in Events |-> FALSE]
  /\ jobs = [e \in Events |-> NoJobs]
  /\ batch = [d \in Dispatchers |-> {}]
  /\ held = [d \in Dispatchers |-> [e \in Events |-> 0]]
  /\ erring = [d \in Dispatchers |-> {}]
  /\ faults = 0

Fault == faults < FaultBudget /\ faults' = faults + 1

\* appendOutboxEvent commits together with the state change it reports.
AppendOutboxEvent(e) ==
  /\ status[e] = "absent"
  /\ status' = [status EXCEPT ![e] = "pending"]
  /\ ready' = [ready EXCEPT ![e] = TRUE]
  /\ UNCHANGED <<attempts, jobs, batch, held, erring, faults>>

\* A backoff is over.
BecomesReady(e) ==
  /\ status[e] \in {"pending", "failed"}
  /\ ~ready[e]
  /\ ready' = [ready EXCEPT ![e] = TRUE]
  /\ UNCHANGED <<status, attempts, jobs, batch, held, erring, faults>>

\* The lease on a delivering event runs out: its dispatcher is gone or, if
\* slow, still working through the batch.
Abandoned(e) == \A d \in Dispatchers : e \notin batch[d]

LeaseLapses(e) ==
  /\ status[e] = "delivering"
  /\ ~ready[e]
  /\ IF Abandoned(e) THEN UNCHANGED faults ELSE e \in Slow /\ Fault
  /\ ready' = [ready EXCEPT ![e] = TRUE]
  /\ UNCHANGED <<status, attempts, jobs, batch, held, erring>>

\* Given up: only an operator brings the event back.
Quarantined(e) == status[e] = "failed" /\ attempts[e] >= MaxAttempts

\* Variants with a bug: quarantine, a dead dispatcher's events or the lease
\* of a live one are forgotten.
Pickable_NoQuarantine(e) ==
  ready[e] /\ status[e] \in {"pending", "delivering", "failed"}
Pickable_NoRecovery(e) ==
  /\ ready[e]
  /\ status[e] \in {"pending", "failed"}
  /\ ~Quarantined(e)

Pickable_IgnoresLease(e) ==
  /\ status[e] = "delivering" \/ (ready[e] /\ status[e] \in {"pending", "failed"})
  /\ ~Quarantined(e)

Pickable(e) ==
  ready[e] /\ status[e] \in {"pending", "delivering", "failed"} /\ ~Quarantined(e)

\* The first BatchLimit pickable events by id are leased in one statement.
PickBatch(d) ==
  /\ batch[d] = {}
  /\ LET all == {e \in Events : Pickable(e)} IN
       \E P \in SUBSET all :
         /\ P # {}
         /\ Cardinality(P) <= BatchLimit
         /\ P # all => Cardinality(P) = BatchLimit
         /\ \A e \in P, f \in all \ P : e < f
         /\ batch' = [batch EXCEPT ![d] = P]
         /\ status' = [e \in Events |-> IF e \in P THEN "delivering" ELSE status[e]]
         /\ ready' = [e \in Events |-> e \notin P /\ ready[e]]
         /\ held' = [held EXCEPT ![d] =
                       [e \in Events |-> IF e \in P THEN attempts[e] ELSE @[e]]]
  /\ UNCHANGED <<attempts, jobs, erring, faults>>

\* d handles the events of its batch one by one, in the order they were
\* returned, which the statement does not fix.
Handling(d, e) == e \in batch[d] /\ erring[d] = {}

\* insert into jobs ... on conflict do nothing, for every consumer.
JobsAfter_NoConflictClause(e) == \* variant
  [t \in Topics |-> IF t \in Consumers[e] THEN jobs[e][t] + 1 ELSE jobs[e][t]]
JobsAfter_FirstConsumer(e) == \* variant: a consumer is left out
  LET t0 == CHOOSE t \in Consumers[e] : TRUE
  IN  IF Consumers[e] = {} \/ jobs[e][t0] > 0 THEN jobs[e]
      ELSE [jobs[e] EXCEPT ![t0] = 1]
JobsAfter(e) ==
  [t \in Topics |-> IF t \in Consumers[e] /\ jobs[e][t] = 0 THEN 1 ELSE jobs[e][t]]

\* The event's own transaction: its jobs and delivered.
CommitDelivery(e) ==
  /\ jobs' = [jobs EXCEPT ![e] = JobsAfter(e)]
  /\ status' = [status EXCEPT ![e] = "delivered"]
  /\ attempts' = [attempts EXCEPT ![e] = @ + 1]
  /\ ready' = [ready EXCEPT ![e] = TRUE]

DeliverEvent(d, e) ==
  /\ Handling(d, e)
  /\ e \notin Gaps \cup Poison
  /\ CommitDelivery(e)
  /\ batch' = [batch EXCEPT ![d] = @ \ {e}]
  /\ UNCHANGED <<held, erring, faults>>

\* The transaction throws.  It rolled back, or (the connection broke at the
\* commit) it is in fact applied and only its acknowledgement is lost.
DeliveryThrows(d, e) ==
  /\ Handling(d, e)
  /\ e \notin Gaps
  /\ \/ e \in Poison /\ UNCHANGED <<status, attempts, ready, jobs, faults>>
     \/ e \notin Poison /\ Fault /\ UNCHANGED <<status, attempts, ready, jobs>>
     \/ e \notin Poison /\ Fault /\ CommitDelivery(e)
  /\ erring' = [erring EXCEPT ![d] = {e}]
  /\ UNCHANGED <<batch, held>>

\* markOutboxFailed writes attempts as a number, whatever the row holds now.
MarkOutboxFailed_JobStatus(e, n, delays) == \* variant: the job queue's enum
  /\ status' = [status EXCEPT ![e] = "dead_lettered"]
  /\ attempts' = [attempts EXCEPT ![e] = n]
  /\ \E b \in delays : ready' = [ready EXCEPT ![e] = b]
MarkOutboxFailed(e, n, delays) ==
  /\ status' = [status EXCEPT ![e] = "failed"]
  /\ attempts' = [attempts EXCEPT ![e] = n]
  /\ \E b \in delays : ready' = [ready EXCEPT ![e] = b]

\* The number written after a failed delivery.
NextAttempt_NotCounted(d, e) == held[d][e] \* variant
NextAttempt(d, e) == held[d][e] + 1

\* The catch: one more attempt, and a jittered backoff unless that was the last.
RecordFailure(d, e) ==
  /\ e \in erring[d]
  /\ MarkOutboxFailed(e, NextAttempt(d, e),
       IF NextAttempt(d, e) >= MaxAttempts THEN {TRUE} ELSE BOOLEAN)
  /\ erring' = [erring EXCEPT ![d] = {}]
  /\ batch' = [batch EXCEPT ![d] = @ \ {e}]
  /\ UNCHANGED <<jobs, held, faults>>

\* A routing gap is quarantined at once: no retry can heal it.
QuarantineGap(d, e) ==
  /\ Handling(d, e)
  /\ e \in Gaps
  /\ MarkOutboxFailed(e, MaxAttempts, {TRUE})
  /\ batch' = [batch EXCEPT ![d] = @ \ {e}]
  /\ UNCHANGED <<jobs, held, erring, faults>>

\* The process dies, or markOutboxFailed itself throws out of the dispatch:
\* the rest of the batch stays delivering until its lease runs out.
DispatchAborts(d) ==
  /\ batch[d] # {}
  /\ Fault
  /\ batch' = [batch EXCEPT ![d] = {}]
  /\ erring' = [erring EXCEPT ![d] = {}]
  /\ UNCHANGED <<status, attempts, ready, jobs, held>>

\* pnpm requeue-outbox: quarantined events, or (--include-retrying) any failed
\* one, back to pending with a jittered next attempt.
RequeueOutbox(e) ==
  /\ status[e] = "failed"
  /\ Fault
  /\ status' = [status EXCEPT ![e] = "pending"]
  /\ attempts' = [attempts EXCEPT ![e] = 0]
  /\ \E b \in BOOLEAN : ready' = [ready EXCEPT ![e] = b]
  /\ UNCHANGED <<jobs, batch, held, erring>>

DispatcherStep(d) ==
  \/ PickBatch(d)
  \/ \E e \in Events : \/ DeliverEvent(d, e) \/ RecordFailure(d, e)
                       \/ QuarantineGap(d, e)
                       \/ e \in Poison /\ DeliveryThrows(d, e)

Next ==
  \/ \E e \in Events : \/ AppendOutboxEvent(e) \/ BecomesReady(e)
                       \/ LeaseLapses(e) \/ RequeueOutbox(e)
  \/ \E d \in Dispatchers : DispatcherStep(d) \/ DispatchAborts(d)
  \/ \E d \in Dispatchers, e \in Events : DeliveryThrows(d, e)

Spec == Init /\ [][Next]_vars

\* Workers keep polling and clocks advance.
Fairness ==
  /\ \A d \in Dispatchers : WF_vars(DispatcherStep(d))
  /\ \A e \in Events : /\ WF_vars(BecomesReady(e))
                       /\ WF_vars(Abandoned(e) /\ LeaseLapses(e))

FairSpec == Spec /\ Fairness

-----------------------------------------------------------------------------
(* Properties. *)

\* What a delivered event promises: one job for each of its consumers, however
\* often it was delivered, and no event with a routing gap slips through.
DeliveredMeansHandedOver ==
  \A e \in Events : status[e] = "delivered" =>
    /\ e \notin Gaps
    /\ \A t \in Topics : jobs[e][t] = IF t \in Consumers[e] THEN 1 ELSE 0

\* While leases outlive batches, an event is worked on by one dispatcher at a
\* time, and that dispatcher's copy of attempts is the row's value, so that
\* the number markOutboxFailed writes loses no attempt.
EventsAreLeasedOnce ==
  \A d \in Dispatchers : \A e \in batch[d] \ Slow :
    /\ \A c \in Dispatchers \ {d} : e \notin batch[c]
    /\ e \in erring[d] \/ (status[e] = "delivering" /\ attempts[e] = held[d][e])

\* Quarantine ends only by an operator: no dispatcher that still has the event
\* in hand delivers it or gives it new attempts.
QuarantineStays ==
  [][\A e \in Events \ Slow : Quarantined(e) /\ ~Quarantined(e)'
       => status'[e] = "pending" /\ attempts'[e] = 0]_vars

\* A failing event neither blocks nor outlives the others: every healthy event
\* is delivered (or met a fault at each of its attempts), every broken one ends
\* in quarantine.
HealthyDelivered ==
  \A e \in Events \ (Gaps \cup Poison) :
    status[e] # "absent" ~>
      status[e] = "delivered" \/ (Quarantined(e) /\ faults >= MaxAttempts)
BrokenQuarantined ==
  \A e \in Gaps \cup Poison : status[e] # "absent" ~> Quarantined(e)

\* The outbox implements the abstract delivery of events to consumers.
Delivery == INSTANCE EventDelivery WITH
  recorded <- {e \in Events : status[e] # "absent"}, work <- jobs
DeliveryContract == Delivery!Spec
=============================================================================
