-------------------------- MODULE LearnerDayProofs --------------------------
(***************************************************************************)
(* Theorems about LearnerDay for any set of nodes and homework and any      *)
(* number of concurrent requests, route changes, dead requests and          *)
(* reopenings.                                                              *)
(***************************************************************************)
EXTENDS LearnerDay, TLAPS

\* Whatever the items are, the verdict on them is a status, and what projection
\* and reopening store of it is never completed.
LEMMA VerdictTyped ==
  ASSUME NEW it, NEW req
  PROVE  DecideDayStatus(it, req) \in PlanStatus \cup {"empty"}
  BY DEF DecideDayStatus, PlanStatus

LEMMA StoredStatusTyped ==
  ASSUME NEW it, NEW req
  PROVE  /\ StoredStatus(DecideDayStatus(it, req)) \in PlanStatus
         /\ StoredStatus(DecideDayStatus(it, req)) # "completed"
<1>1. DecideDayStatus(it, req) \in PlanStatus \cup {"empty"}
  BY VerdictTyped
<1>2. QED
  BY <1>1 DEF StoredStatus, PlanStatus

\* Forgetting a request's work keeps the types of what a request holds.
LEMMA ForgetTyped ==
  ASSUME TypeOK, NEW p \in Pages, Forget(p)
  PROVE  /\ pc' \in [Pages -> {"idle", "computed", "inserting", "merging", "closing"}]
         /\ spec' \in [Pages -> [Keys -> ItemStatus]]
         /\ prior' \in [Pages -> [Keys -> ItemStatus]]
         /\ created' \in [Pages -> BOOLEAN]
<1>1. NoItems \in [Keys -> ItemStatus]
  BY DEF NoItems, ItemStatus
<1>2. QED
  BY <1>1 DEF Forget, Goto, TypeOK

\* Executing the nodes of a route yields item statuses.
LEMMA ExecuteNodesTyped ==
  ASSUME TypeOK
  PROVE  ExecuteNodes \in [Keys -> ItemStatus]
<1> SUFFICES ASSUME NEW k \in Keys PROVE ExecuteNodes[k] \in ItemStatus
  BY DEF ExecuteNodes
<1>1. k[1] \in Nodes
  BY DEF Keys
<1>2. progress[k[1]] \in Progress
  BY <1>1 DEF TypeOK
<1>3. QED
  BY <1>2 DEF ExecuteNodes, ItemStatus, Progress

\* A merge yields item statuses.
LEMMA MergedTyped ==
  ASSUME TypeOK, NEW p \in Pages, NEW k \in Keys
  PROVE  Merged(p, k) \in ItemStatus
<1>1. items[k] \in ItemStatus /\ spec[p][k] \in ItemStatus
  BY DEF TypeOK
<1>2. QED
  BY <1>1 DEF Merged, ItemStatus

\* The states of a learner's day are well typed.
THEOREM TypeCorrect == Spec => []TypeOK
<1>1. Init => TypeOK
  <2>1. NoItems \in [Keys -> ItemStatus]
    BY DEF NoItems, ItemStatus
  <2> SUFFICES ASSUME Init PROVE TypeOK
    OBVIOUS
  <2>2. /\ items \in [Keys -> ItemStatus]
        /\ spec \in [Pages -> [Keys -> ItemStatus]]
        /\ prior \in [Pages -> [Keys -> ItemStatus]]
    BY <2>1 DEF Init
  <2>3. pc \in [Pages -> {"idle", "computed", "inserting", "merging", "closing"}]
    BY DEF Init
  <2>4. QED
    BY <2>2, <2>3 DEF Init, TypeOK, Progress, PlanStatus
<1>2. TypeOK /\ [Next]_vars => TypeOK'
  <2> SUFFICES ASSUME TypeOK, [Next]_vars PROVE TypeOK'
    OBVIOUS
  <2>1. ASSUME NEW n \in Nodes, OfferChanges(n) PROVE TypeOK'
    <3>1. offer' \in OfferTable
      BY <2>1 DEF OfferChanges, TypeOK, OfferTable, Offers
    <3>2. QED
      BY <2>1, <3>1 DEF OfferChanges, Disturb, TypeOK, plan
  <2>2. ASSUME NEW n \in Nodes, LearnerWorks(n) PROVE TypeOK'
    BY <2>2 DEF LearnerWorks, TypeOK, Progress, plan
  <2>3. ASSUME NEW n \in Nodes, CompleteDayPlanItem(n) PROVE TypeOK'
    BY <2>3 DEF CompleteDayPlanItem, TypeOK, ItemStatus, plan, source
  <2>4. ASSUME NEW p \in Pages, ComputeToday(p) PROVE TypeOK'
    BY <2>4, ExecuteNodesTyped DEF ComputeToday, Goto, TypeOK, plan, source
  <2>5. ASSUME NEW p \in Pages, FindNoPlan(p) PROVE TypeOK'
    BY <2>5 DEF FindNoPlan, Goto, TypeOK, plan, source
  <2>6. ASSUME NEW p \in Pages, SkipCompleted(p) PROVE TypeOK'
    BY <2>6, ForgetTyped DEF SkipCompleted, TypeOK, plan, source
  <2>7. ASSUME NEW p \in Pages, TakePlan(p) PROVE TypeOK'
    BY <2>7 DEF TakePlan, Goto, Inserts, TypeOK, plan, source
  <2>8. ASSUME NEW p \in Pages, CommitProjection(p) PROVE TypeOK'
    <3>1. items' \in [Keys -> ItemStatus] /\ required' \in SUBSET Keys
      BY <2>8, MergedTyped DEF CommitProjection, MergedRequired
    <3>2. planStatus' \in PlanStatus
      BY <2>8, StoredStatusTyped DEF CommitProjection
    <3>3. /\ pc' \in [Pages -> {"idle", "computed", "inserting", "merging", "closing"}]
          /\ spec' \in [Pages -> [Keys -> ItemStatus]]
          /\ prior' \in [Pages -> [Keys -> ItemStatus]]
          /\ created' \in [Pages -> BOOLEAN]
      <4>1. CASE Forget(p)
        BY <4>1, ForgetTyped
      <4>2. CASE Goto(p, "closing") /\ UNCHANGED <<spec, prior, created>>
        BY <4>2 DEF Goto, TypeOK
      <4>3. QED
        BY <2>8, <4>1, <4>2 DEF CommitProjection
    <3>4. UNCHANGED <<source, disturbances, completedAt, reopens, events>> /\ opened' \in BOOLEAN
      BY <2>8 DEF CommitProjection
    <3>5. QED
      BY <3>1, <3>2, <3>3, <3>4 DEF TypeOK, source
  <2>9. ASSUME NEW p \in Pages, CompleteLearnerDay(p) PROVE TypeOK'
    <3>1. planStatus' \in PlanStatus /\ completedAt' \in BOOLEAN /\ events' \in Nat
      <4>1. CASE UNCHANGED plan
        BY <4>1 DEF TypeOK, plan
      <4>2. CASE /\ planStatus' = "completed" /\ completedAt' = TRUE
                 /\ events' = IF FirstCompletion THEN events + 1 ELSE events
        BY <4>2 DEF TypeOK, PlanStatus
      <4>3. QED
        BY <2>9, <4>1, <4>2 DEF CompleteLearnerDay
    <3>2. UNCHANGED <<source, disturbances, items, required, opened, reopens>>
      BY <2>9 DEF CompleteLearnerDay, plan
    <3>3. Forget(p)
      BY <2>9 DEF CompleteLearnerDay
    <3>4. QED
      BY <3>1, <3>2, <3>3, ForgetTyped DEF TypeOK, source
  <2>10. ASSUME NEW p \in Pages, Abandon(p) PROVE TypeOK'
    BY <2>10, ForgetTyped DEF Abandon, Disturb, TypeOK, plan, source
  <2>11. ASSUME ReopenLearnerDay PROVE TypeOK'
    <3>1. planStatus' \in PlanStatus
      BY <2>11, StoredStatusTyped DEF ReopenLearnerDay
    <3>2. QED
      BY <2>11, <3>1 DEF ReopenLearnerDay, TypeOK, source
  <2>12. CASE UNCHANGED vars
    BY <2>12 DEF vars, plan, source, TypeOK
  <2>13. QED
    BY <2>1, <2>2, <2>3, <2>4, <2>5, <2>6, <2>7, <2>8, <2>9, <2>10, <2>11, <2>12
       DEF Next, PageStep
<1>3. QED
  BY <1>1, <1>2, PTL DEF Spec

-----------------------------------------------------------------------------
(* The row lock and the record of the completion. *)

\* One request at a time merges; while it does the plan is not completed, and
\* it takes itself for the plan's creator only if there is no plan yet.
LockInv ==
  /\ \A p, q \in Pages : pc[p] = "merging" /\ pc[q] = "merging" => p = q
  /\ \A p \in Pages : pc[p] = "merging" => planStatus # "completed"
  /\ \A p \in Pages : pc[p] = "merging" /\ created[p] => ~opened

\* The induction of every theorem below.
DayInv == LockInv /\ OneCompletionEvent /\ ReopeningOnRecord /\ CompletedMeansSettled

\* Requests that are not merging, and do not begin to, leave LockInv alone.
LEMMA LockKept ==
  ASSUME TypeOK, LockInv, UNCHANGED <<opened, planStatus>>,
         \A q \in Pages : pc'[q] = "merging" => pc[q] = "merging" /\ created'[q] = created[q]
  PROVE  LockInv'
  BY DEF LockInv

\* Nothing is written to the plan or its items.
LEMMA DayKept ==
  ASSUME DayInv, LockInv', UNCHANGED <<plan, items, required>>
  PROVE  DayInv'
  BY DEF DayInv, plan, OneCompletionEvent, ReopeningOnRecord, CompletedMeansSettled

LEMMA DayInvInductive ==
  ASSUME TypeOK, DayInv, [Next]_vars PROVE DayInv'
<1> USE DEF Goto
<1>1. ASSUME NEW n \in Nodes, OfferChanges(n) \/ LearnerWorks(n) PROVE DayInv'
  <2>1. UNCHANGED <<plan, items, required, pc, created>>
    BY <1>1 DEF OfferChanges, LearnerWorks
  <2>2. LockInv'
    BY <2>1 DEF DayInv, LockInv, plan
  <2>3. QED
    BY <2>1, <2>2, DayKept
<1>2. ASSUME NEW n \in Nodes, CompleteDayPlanItem(n) PROVE DayInv'
  <2>1. UNCHANGED <<plan, required, pc, created>>
    BY <1>2 DEF CompleteDayPlanItem
  <2>2. \A k \in Keys : IsSettled(items[k]) => IsSettled(items'[k])
    BY <1>2 DEF CompleteDayPlanItem, IsSettled, TypeOK
  <2>3. QED
    BY <2>1, <2>2 DEF DayInv, LockInv, plan, OneCompletionEvent, ReopeningOnRecord,
                      CompletedMeansSettled, TypeOK
<1>3. ASSUME NEW p \in Pages,
             ComputeToday(p) \/ FindNoPlan(p) \/ SkipCompleted(p) \/ Abandon(p)
      PROVE  DayInv'
  <2>1. UNCHANGED <<plan, items, required>>
    BY <1>3 DEF ComputeToday, FindNoPlan, SkipCompleted, Abandon
  <2>2. \A q \in Pages : pc'[q] = "merging" => pc[q] = "merging" /\ created'[q] = created[q]
    BY <1>3 DEF ComputeToday, FindNoPlan, SkipCompleted, Abandon, Forget, TypeOK
  <2>3. LockInv'
    BY <2>1, <2>2, LockKept DEF DayInv, plan
  <2>4. QED
    BY <2>1, <2>3, DayKept
<1>4. ASSUME NEW p \in Pages, TakePlan(p) PROVE DayInv'
  <2>1. UNCHANGED <<plan, items, required>>
    BY <1>4 DEF TakePlan
  <2>2. \A q \in Pages : pc'[q] = "merging" => q = p
    BY <1>4 DEF TakePlan, AtPlan, LockFree, TypeOK
  <2>3. planStatus' # "completed"
    BY <1>4 DEF TakePlan, Reprojectable, plan
  <2>4. created'[p] => ~opened'
    <3>1. created'[p] = Inserts(p) /\ opened' = opened
      BY <1>4 DEF TakePlan, TypeOK, plan
    <3>2. QED
      BY <3>1 DEF Inserts
  <2>5. LockInv'
    BY <2>2, <2>3, <2>4 DEF LockInv
  <2>6. QED
    BY <2>1, <2>5, DayKept
<1>5. ASSUME NEW p \in Pages, CommitProjection(p) PROVE DayInv'
  <2>1. planStatus' # "completed" /\ UNCHANGED <<completedAt, reopens, events>>
    BY <1>5, StoredStatusTyped DEF CommitProjection
  <2>2. pc[p] = "merging" /\ planStatus # "completed"
    BY <1>5 DEF CommitProjection, DayInv, LockInv
  <2>3. \A q \in Pages : pc'[q] # "merging"
    <3>1. pc' = [pc EXCEPT ![p] = "idle"] \/ pc' = [pc EXCEPT ![p] = "closing"]
      BY <1>5 DEF CommitProjection, Forget
    <3>2. QED
      BY <2>2, <3>1 DEF DayInv, LockInv, TypeOK
  <2>4. QED
    BY <2>1, <2>2, <2>3 DEF DayInv, LockInv, OneCompletionEvent, ReopeningOnRecord,
                            CompletedMeansSettled
<1>6. ASSUME NEW p \in Pages, CompleteLearnerDay(p) PROVE DayInv'
  <2>1. \A q \in Pages : pc'[q] # "merging"
    BY <1>6 DEF CompleteLearnerDay, LockFree, Forget, TypeOK
  <2>2. LockInv'
    BY <2>1 DEF LockInv
  <2>3. UNCHANGED <<items, required>>
    BY <1>6 DEF CompleteLearnerDay
  <2>4. CASE UNCHANGED plan
    BY <2>2, <2>3, <2>4, DayKept
  <2>5. CASE /\ DecideDayStatus(items, required) = "completed"
             /\ planStatus' = "completed" /\ completedAt' = TRUE
             /\ events' = IF FirstCompletion THEN events + 1 ELSE events
    <3>1. required # {} /\ \A k \in required : IsSettled(items[k])
      BY <2>5 DEF DecideDayStatus
    <3>2. OneCompletionEvent'
      BY <2>5 DEF DayInv, OneCompletionEvent, FirstCompletion, TypeOK
    <3>3. QED
      BY <2>2, <2>3, <2>5, <3>1, <3>2 DEF DayInv, ReopeningOnRecord, CompletedMeansSettled
  <2>6. QED
    BY <1>6, <2>4, <2>5 DEF CompleteLearnerDay
<1>7. ASSUME ReopenLearnerDay PROVE DayInv'
  <2>1. planStatus' # "completed" /\ reopens' > 0
    BY <1>7, StoredStatusTyped DEF ReopenLearnerDay, TypeOK
  <2>2. \A q \in Pages : pc'[q] # "merging"
    BY <1>7 DEF ReopenLearnerDay, LockFree
  <2>3. QED
    BY <1>7, <2>1, <2>2 DEF ReopenLearnerDay, DayInv, LockInv, OneCompletionEvent,
                            ReopeningOnRecord, CompletedMeansSettled
<1>8. CASE UNCHANGED vars
  BY <1>8 DEF vars, plan, DayInv, LockInv, OneCompletionEvent, ReopeningOnRecord,
              CompletedMeansSettled
<1>9. QED
  BY <1>1, <1>2, <1>3, <1>4, <1>5, <1>6, <1>7, <1>8 DEF Next, PageStep

LEMMA DayInvAlways == Spec => []DayInv
<1>1. Init => DayInv
  BY DEF Init, DayInv, LockInv, OneCompletionEvent, ReopeningOnRecord, CompletedMeansSettled
<1>2. TypeOK /\ DayInv /\ [Next]_vars => DayInv'
  BY DayInvInductive
<1>3. QED
  BY <1>1, <1>2, TypeCorrect, PTL DEF Spec

\* I-22: a day publishes its completion exactly once, however many requests,
\* reopenings and deaths of requests there are.
THEOREM CompletionEventOnce == Spec => []OneCompletionEvent
<1>1. DayInv => OneCompletionEvent
  BY DEF DayInv
<1>2. QED
  BY <1>1, DayInvAlways, PTL

\* The trigger against silent reopening never stops a projection.
THEOREM ReopeningRecorded == Spec => []ReopeningOnRecord
<1>1. DayInv => ReopeningOnRecord
  BY DEF DayInv
<1>2. QED
  BY <1>1, DayInvAlways, PTL

\* A day stands as completed only while all its required items are settled.
THEOREM CompletedSettled == Spec => []CompletedMeansSettled
<1>1. DayInv => CompletedMeansSettled
  BY DEF DayInv
<1>2. QED
  BY <1>1, DayInvAlways, PTL

-----------------------------------------------------------------------------
(* What projecting again may do to the items. *)

\* Once materialized, the required items never become more.
THEOREM DenominatorBounded == Spec => DenominatorNeverGrows
<1>1. DayInv /\ [Next]_vars => [opened => required' \subseteq required]_vars
  <2> SUFFICES ASSUME DayInv, Next, opened PROVE required' \subseteq required
    BY DEF vars
  <2>1. ASSUME NEW p \in Pages, CommitProjection(p) PROVE required' \subseteq required
    <3>1. ~created[p]
      BY <2>1 DEF CommitProjection, DayInv, LockInv
    <3>2. QED
      BY <2>1, <3>1 DEF CommitProjection, MergedRequired
  <2>2. QED
    BY <2>1 DEF Next, PageStep, OfferChanges, LearnerWorks, CompleteDayPlanItem, ComputeToday,
                FindNoPlan, SkipCompleted, TakePlan, CompleteLearnerDay, Abandon,
                ReopenLearnerDay
<1>2. QED
  BY <1>1, DayInvAlways, PTL DEF Spec, DenominatorNeverGrows

\* A completed item is lost only to a projection that read it before it was
\* completed and writes it after.
THEOREM CompletionsAreKept == Spec => CompletionsKept
<1> DEFINE Kept ==
      \A k \in Keys :
        items[k] = "completed" /\ ~IsSettled(items'[k])
          => \E p \in Pages : pc[p] = "merging" /\ prior[p][k] # "completed"
<1>1. TypeOK /\ [Next]_vars => [Kept]_vars
  <2> SUFFICES ASSUME TypeOK, Next, NEW k \in Keys,
                      items[k] = "completed", ~IsSettled(items'[k])
               PROVE  \E p \in Pages : pc[p] = "merging" /\ prior[p][k] # "completed"
    BY DEF vars
  <2>1. ASSUME NEW p \in Pages, CommitProjection(p)
        PROVE  pc[p] = "merging" /\ prior[p][k] # "completed"
    BY <2>1 DEF CommitProjection, Merged, Preserved, IsSettled
  <2>2. items' # items
    BY DEF IsSettled
  <2>3. ASSUME NEW n \in Nodes, CompleteDayPlanItem(n) PROVE FALSE
    BY <2>3 DEF CompleteDayPlanItem, IsSettled, TypeOK
  <2>4. QED
    BY <2>1, <2>2, <2>3 DEF Next, PageStep, OfferChanges, LearnerWorks, ComputeToday,
                FindNoPlan, SkipCompleted, TakePlan, CompleteLearnerDay, Abandon,
                ReopenLearnerDay
<1>2. QED
  BY <1>1, TypeCorrect, PTL DEF Spec, CompletionsKept
=============================================================================
