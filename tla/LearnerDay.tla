----------------------------- MODULE LearnerDay -----------------------------
(***************************************************************************)
(* One learner's day: the plan of required items that every opening of the  *)
(* today page projects again, the learner's confirmations, the completion   *)
(* of the day and the teacher's reopening of it.                            *)
(* (packages/db/src/domain/learner-day-plan.ts, called by projectToday in   *)
(* apps/web/src/lib/domain/day-plan.ts.)                                    *)
(*                                                                          *)
(* Every executor marks its items required, so an item is required exactly  *)
(* if it was not added after materialization.                               *)
(***************************************************************************)
EXTENDS Naturals, FiniteSets

CONSTANTS
  Nodes,           \* route nodes that may be on the day's route
  Homework,        \* those whose completion only the plan records
  Pages,           \* requests that can run projectToday at the same time
  MaxDisturbances, \* bound: changes of the route and requests that die
  MaxReopens       \* bound: reopenings by the teacher

ASSUME LearnerDayAssumption ==
  /\ Homework \subseteq Nodes
  /\ MaxDisturbances \in Nat
  /\ MaxReopens \in Nat

\* A node has an item, or a stub that stands in while it cannot be executed.
Item(n) == <<n, 1>>
Stub(n) == <<n, 0>>
Keys == Nodes \X {0, 1}

VARIABLES
  offer,        \* what the route, materials and assessments give for a node
  progress,     \* the learner's progress in the tables behind the items
  disturbances, \* route changes and dead requests so far
  opened,       \* the learner_day_plans row is committed
  planStatus,   \* its status
  completedAt,  \* its completed_at is set
  reopens,      \* reopenings so far: reopened_at is set if positive
  events,       \* LearnerDayCompleted events in the outbox
  items,        \* status of the learner_day_plan_items, "none" if absent
  required,     \* keys of the items with required = true
  pc,           \* where a request is
  spec,         \* the items it computed
  prior,        \* the items it read once it held the plan's row lock
  created       \* it inserted the plan

source == <<offer, progress>>
plan == <<opened, planStatus, completedAt, reopens, events>>
vars == <<source, disturbances, plan, items, required, pc, spec, prior, created>>

\* Off the route, not executable, its item without questions, executable.
\* Homework without questions is not executable.
Offers(n) == {"absent", "unready", "ready"} \cup IF n \in Homework THEN {} ELSE {"empty"}
OfferTable == {o \in [Nodes -> {"absent", "unready", "empty", "ready"}] :
                 \A n \in Nodes : o[n] \in Offers(n)}
ItemStatus == {"none", "pending", "in_progress", "completed", "blocked", "exempted"}
Progress == {"pending", "in_progress", "completed"}
PlanStatus == {"not_started", "in_progress", "blocked", "completed"}
NoItems == [k \in Keys |-> "none"]

TypeOK ==
  /\ offer \in OfferTable
  /\ progress \in [Nodes -> Progress]
  /\ disturbances \in Nat
  /\ opened \in BOOLEAN
  /\ planStatus \in PlanStatus
  /\ completedAt \in BOOLEAN
  /\ reopens \in Nat
  /\ events \in Nat
  /\ items \in [Keys -> ItemStatus]
  /\ required \in SUBSET Keys
  /\ pc \in [Pages -> {"idle", "computed", "inserting", "merging", "closing"}]
  /\ spec \in [Pages -> [Keys -> ItemStatus]]
  /\ prior \in [Pages -> [Keys -> ItemStatus]]
  /\ created \in [Pages -> BOOLEAN]

Init ==
  /\ offer \in OfferTable
  /\ progress = [n \in Nodes |-> "pending"]
  /\ disturbances = 0
  /\ opened = FALSE /\ planStatus = "not_started" /\ completedAt = FALSE
  /\ reopens = 0 /\ events = 0
  /\ items = NoItems
  /\ required = {}
  /\ pc = [p \in Pages |-> "idle"]
  /\ spec = [p \in Pages |-> NoItems]
  /\ prior = [p \in Pages |-> NoItems]
  /\ created = [p \in Pages |-> FALSE]

-----------------------------------------------------------------------------
(* What the plan is projected from. *)

Disturb == disturbances < MaxDisturbances /\ disturbances' = disturbances + 1

\* Teachers and workers publish, withdraw and generate; schedules change.
OfferChanges(n) ==
  /\ Disturb
  /\ \E o \in Offers(n) \ {offer[n]} : offer' = [offer EXCEPT ![n] = o]
  /\ UNCHANGED <<progress, plan, items, required, pc, spec, prior, created>>

\* The learner reads, practises or takes a test; homework has no such table.
LearnerWorks(n) ==
  /\ n \notin Homework
  /\ offer[n] = "ready"
  /\ \E s \in IF progress[n] = "pending" THEN {"in_progress", "completed"}
              ELSE {"completed"} \ {progress[n]} :
       progress' = [progress EXCEPT ![n] = s]
  /\ UNCHANGED <<offer, disturbances, plan, items, required, pc, spec, prior, created>>

\* executeNode: a node becomes its item, an item that is blocked for want of
\* questions, a blocked stub, or nothing.
ExecuteNodes ==
  [k \in Keys |->
     LET n == k[1] IN
     IF k = Stub(n) THEN IF offer[n] = "unready" THEN "blocked" ELSE "none"
     ELSE IF offer[n] = "ready" THEN progress[n]
     ELSE IF offer[n] = "empty" THEN "blocked" ELSE "none"]

-----------------------------------------------------------------------------
(* The verdict on a day: the order of the tests is their priority. *)

IsSettled(s) == s \in {"completed", "exempted"}

DecideDayStatus_OptionalDay(it, req) == \* variant: a day without required items
  IF \A k \in Keys : it[k] = "none" THEN "empty"
  ELSE IF \E k \in req : it[k] = "blocked" THEN "blocked"
  ELSE IF \A k \in req : IsSettled(it[k]) THEN "completed"
  ELSE IF \E k \in Keys : it[k] \in {"completed", "in_progress"} THEN "in_progress"
  ELSE "not_started"

DecideDayStatus(it, req) ==
  IF \A k \in Keys : it[k] = "none" THEN "empty"
  ELSE IF \E k \in req : it[k] = "blocked" THEN "blocked"
  ELSE IF req # {} /\ \A k \in req : IsSettled(it[k]) THEN "completed"
  ELSE IF \E k \in Keys : it[k] \in {"completed", "in_progress"} THEN "in_progress"
  ELSE "not_started"

\* Projection and reopening never write completed themselves.
StoredStatus_Verbatim(derived) == \* variant: "empty" is not a stored status
  IF derived = "completed" THEN "in_progress" ELSE derived
StoredStatus(derived) ==
  CASE derived = "empty" -> "not_started"
    [] derived = "completed" -> "in_progress"
    [] OTHER -> derived

-----------------------------------------------------------------------------
(* projectToday, request p.  A request holds the plan's row lock exactly     *)
(* while it is merging; the other transactions on the plan wait for it.      *)

LockFree == \A p \in Pages : pc[p] # "merging"

Goto(p, l) == pc' = [pc EXCEPT ![p] = l]

Forget(p) ==
  /\ Goto(p, "idle")
  /\ spec' = [spec EXCEPT ![p] = NoItems]
  /\ prior' = [prior EXCEPT ![p] = NoItems]
  /\ created' = [created EXCEPT ![p] = FALSE]

ComputeToday(p) ==
  /\ pc[p] = "idle"
  /\ Goto(p, "computed")
  /\ spec' = [spec EXCEPT ![p] = ExecuteNodes]
  /\ UNCHANGED <<source, disturbances, plan, items, required, prior, created>>

\* select ... for update finds no row, and locks none.
FindNoPlan(p) ==
  /\ pc[p] = "computed"
  /\ ~opened
  /\ Goto(p, "inserting")
  /\ UNCHANGED <<source, disturbances, plan, items, required, spec, prior, created>>

\* The select that locks an existing plan, or the insert (which waits for a
\* competing one, then reads the winner's row).
AtPlan(p) ==
  /\ pc[p] = "inserting" \/ (pc[p] = "computed" /\ opened)
  /\ LockFree

Reprojectable_FirstLookOnly(p) == ~(pc[p] = "computed" /\ planStatus = "completed") \* variant
Reprojectable(p) == planStatus # "completed"

SkipCompleted(p) ==
  /\ AtPlan(p)
  /\ ~Reprojectable(p)
  /\ Forget(p)
  /\ UNCHANGED <<source, disturbances, plan, items, required>>

Inserts_FirstLook(p) == pc[p] = "inserting" \* variant: lost races not noticed
Inserts(p) == pc[p] = "inserting" /\ ~opened

TakePlan(p) ==
  /\ AtPlan(p)
  /\ Reprojectable(p)
  /\ Goto(p, "merging")
  /\ prior' = [prior EXCEPT ![p] = items]
  /\ created' = [created EXCEPT ![p] = Inserts(p)]
  /\ UNCHANGED <<source, disturbances, plan, items, required, spec>>

\* The merge writes item by item by what was read, whatever an item is now:
\* completeDayPlanItem does not take the plan's lock.
Preserved_NotCompleted == {"in_progress", "exempted"} \* variant
Preserved == {"in_progress", "completed", "exempted"}

Merged(p, k) ==
  LET old == prior[p][k]
      new == spec[p][k]
  IN  IF new # "none" THEN IF old \in Preserved THEN items[k] ELSE new
      ELSE IF old \in {"none", "pending"} THEN "none"
      ELSE IF old = "exempted" THEN items[k] ELSE "exempted"

MergedRequired(p) ==
  {k \in Keys : /\ Merged(p, k) # "none"
                /\ IF prior[p][k] = "none" THEN created[p] ELSE k \in required}

CommitProjection(p) ==
  /\ pc[p] = "merging"
  /\ opened' = TRUE
  /\ items' = [k \in Keys |-> Merged(p, k)]
  /\ required' = MergedRequired(p)
  /\ LET derived == DecideDayStatus(items', required') IN
       /\ planStatus' = StoredStatus(derived)
       /\ IF derived = "completed"
          THEN Goto(p, "closing") /\ UNCHANGED <<spec, prior, created>>
          ELSE Forget(p)
  /\ UNCHANGED <<source, disturbances, completedAt, reopens, events>>

\* completeLearnerDay: completed_at, not the status, says whether the event
\* has been published.
FirstCompletion_ByStatus == planStatus # "completed" \* variant
FirstCompletion == ~completedAt

\* A request that saw the day completable closes it, reopened or not.
MayClose_NeverAgain == ~completedAt \* variant: completed_at is not null
MayClose == ~(completedAt /\ planStatus = "completed")

CompleteLearnerDay(p) ==
  /\ pc[p] = "closing"
  /\ LockFree
  /\ IF MayClose /\ DecideDayStatus(items, required) = "completed"
     THEN /\ planStatus' = "completed"
          /\ completedAt' = TRUE
          /\ events' = IF FirstCompletion THEN events + 1 ELSE events
          /\ UNCHANGED <<opened, reopens>>
     ELSE UNCHANGED plan
  /\ Forget(p)
  /\ UNCHANGED <<source, disturbances, items, required>>

\* The request dies: an open transaction rolls back.
Abandon(p) ==
  /\ pc[p] # "idle"
  /\ Disturb
  /\ Forget(p)
  /\ UNCHANGED <<source, plan, items, required>>

-----------------------------------------------------------------------------
(* The learner's confirmation of homework, and the teacher. *)

CompleteDayPlanItem(n) ==
  /\ n \in Homework
  /\ items[Item(n)] \in {"pending", "in_progress"}
  /\ items' = [items EXCEPT ![Item(n)] = "completed"]
  /\ UNCHANGED <<source, disturbances, plan, required, pc, spec, prior, created>>

ReopenLearnerDay ==
  /\ completedAt
  /\ LockFree
  /\ reopens < MaxReopens
  /\ planStatus' = StoredStatus(DecideDayStatus(items, required))
  /\ reopens' = reopens + 1
  /\ UNCHANGED <<source, disturbances, opened, completedAt, events, items, required,
                 pc, spec, prior, created>>

PageStep(p) ==
  \/ ComputeToday(p) \/ FindNoPlan(p) \/ SkipCompleted(p) \/ TakePlan(p)
  \/ CommitProjection(p) \/ CompleteLearnerDay(p)

Next ==
  \/ \E n \in Nodes : OfferChanges(n) \/ LearnerWorks(n) \/ CompleteDayPlanItem(n)
  \/ \E p \in Pages : PageStep(p) \/ Abandon(p)
  \/ ReopenLearnerDay

Spec == Init /\ [][Next]_vars

\* Requests run to their end, and the learner keeps coming back to the page.
FairSpec == Spec /\ \A p \in Pages : WF_vars(PageStep(p))

-----------------------------------------------------------------------------
(* Properties. *)

\* I-22: a day that was ever completed published exactly one completion event,
\* however often it is reopened and completed again.
OneCompletionEvent == events = IF completedAt THEN 1 ELSE 0

\* Only a recorded reopening takes a completed day out of completed; the
\* trigger that insists on it never stops a projection.
ReopeningOnRecord == completedAt /\ planStatus # "completed" => reopens > 0

\* A completed day has required items and none of them is open, also while the
\* route changes under it and late requests still carry yesterday's view.
CompletedMeansSettled ==
  planStatus = "completed" =>
    required # {} /\ \A k \in required : IsSettled(items[k])

\* Once the day is materialized, nothing is added to what the learner must do:
\* not by later items and not by a request that lost the race to insert.
DenominatorNeverGrows == [][opened => required' \subseteq required]_vars

\* What is completed stays completed or is exempted, except for a confirmation
\* that fell between the read and the write of a projection.
CompletionsKept ==
  [][\A k \in Keys :
       items[k] = "completed" /\ ~IsSettled(items'[k])
         => \E p \in Pages : pc[p] = "merging" /\ prior[p][k] # "completed"]_vars

\* A day whose required items stay settled is recorded as completed, also when
\* it was reopened or the request that could have completed it died.
SettledDaysClose ==
  []<>(planStatus = "completed" \/ DecideDayStatus(items, required) # "completed")

\* day-plan.ts: what the learner finishes in the tables behind the plan comes
\* alive in the plan when it is projected again.
FinishedWorkCounts ==
  \A n \in Nodes \ Homework :
    progress[n] = "completed" ~>
      (Item(n) \in required => IsSettled(items[Item(n)]))

\* ADR-0017: a day is completed by the learner finishing its required items;
\* while there is something to do, it is not completed by doing nothing.
CompletedByTheLearner ==
  [][~completedAt /\ completedAt' /\ (\E n \in Nodes : offer[n] = "ready")
       => \E n \in Nodes : progress[n] = "completed" \/ items[Item(n)] = "completed"]_vars
=============================================================================
