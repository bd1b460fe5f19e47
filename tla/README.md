# Su-maek: a verification project

Su-maek is an operating system for mathematics academies: routes and schedules
for classes, automatically generated tests, grading and mastery, and the daily
plan of every learner. It is a TypeScript monorepo over one PostgreSQL database:

- `apps/web` (Next.js) and `apps/worker` (a polling loop) are the processes,
- `packages/db` holds the schema, the queue and the domain services,
- `packages/core` holds pure domain algorithms,
- `packages/ingest` and `packages/contracts` hold content import and message types.

This directory models the parts in which several processes, retries and crashes
meet on shared rows. TLC checks the models on small instances; TLAPS proves the
statements that matter most for every value of the constants.

## 1. Inventory

How the parts interact: web actions and worker handlers call domain services;
a service changes its rows and appends an event to the *outbox* in one
transaction; every worker turns outbox events into *jobs* for the event's
consumers; workers claim jobs, run handlers, and handlers call services again.
There is no other channel between processes than these tables, and no lock
except row locks, unique indexes and a few advisory locks.

| Component | State | Operations | Hard part | What makes it correct |
|---|---|---|---|---|
| Job queue (`queue.ts`, `loop.ts`, `main.ts`) | `jobs` rows: status, attempts, worker, lease, run_at | enqueue, claim, checkpoint, renew, complete, defer, fail, requeue | claims of several workers, lapsing leases, crashes, shutdown, failing writes, lost replies | exclusive execution, no stale result, settled stays settled, nothing left behind |
| Outbox (`queue.ts`) | `outbox_events` rows | append, dispatch a batch, fail, quarantine, re-deliver | dispatcher death, lost acknowledgements, one bad event in a batch | all consumers or none, once; failures isolated |
| Event consumers (`handlers/`) | `inbox_events`, `jobs.checkpoint` | mark, work per target, checkpoint, defer | duplicates, resumed runs, switches | nobody notified twice, deferred events run |
| Assessment generation | `assessment_instances`, jobs, failure events | scan, enqueue, generate, report, retry, manual generation | several producers, workers and a teacher for the same test, errors around the generator, a batch limit | one test per class, day and purpose; no generator fails silently; due tests settle |
| Kill switches | `kill_switches` rows | stop, resume, expire | read before and used after a claim | jobs wait without losing attempts |
| Learner day plans | `learner_day_plans`, items | project, complete item, complete day, reopen | projections racing completion | one completion event; the denominator never grows |
| Attempts, grading, mastery | `attempts`, `responses`, `grade_decisions`, exceptions, `concept_masteries` | save, submit, grade, resolve, recompute | late saves, double submits, concurrent rulings and recomputations, crashes between commits | graded once as submitted, decisions append-only, a finalized attempt adds up, the mastery follows the decisions |
| Reviews | `review_items` | schedule, answer, close | graded answers racing reviews | a learner's trace is kept |
| Schedules (`schedule.ts`, `learner-schedule.ts`, `scheduling/`) | `sessions`, revisions, proposals, learner items and revisions | recalculate a class, recalculate a learner, close a lesson, cancel, override, absence | reads before the advisory lock, two overlapping recalculations, the class deleting lessons that learners' items point to | one active revision, limits of the placement, carried-over nodes return, history and closed work stay |
| Route builder (`routes/actions.ts`, `core/routes`) | `route_plans.lock_version`, versions, nodes, reports | open page, edit, conflict, reapply, validate, publish, new draft | token, node and verdict are separate statements; other editors come in between | an edit is accepted on the rows its page showed and then does what the page says (for pages read while no other request was between two statements), what is published is what was validated |
| AI extraction (`ingestion.ts`, `ai-canary.ts`, `circuit-breaker.ts`, `model-registry.ts`) | `source_files`, `ai_model_versions`, samples, breakers in memory | upload, extract, shadow, judge, halt, register, promote | overlapping uploads, late answers, stale selections, faults in the middle | the canary stays invisible, a sick one is halted, no file stays in extraction |
| Operator access | `operator_access_grants` | issue, revoke, expire | expiry against revocation | access only in the approved window |
| Curriculum releases, question approval and rights | releases, questions, `content_rights` | verify, publish, approve, block | publication racing verification | a published release is verified and immutable |
| Question selection, diff, forgetting curve | none (pure) | | boundaries | agreement with a reference definition |
| Heartbeats, export, text and math conversion, RLS, UI | | | | not modelled, see section 7 |

## 2. Plan

Modules in order; each has an `MC` module with its instances and, where it is
worth it, a `Proofs` module (AssessmentProofs serves AssessmentGeneration and Attempt).

1. **JobQueue** (done): everything else runs on it.
2. **Outbox** over the abstract **EventDelivery** (done).
3. **EventConsumer** (done): the queue reduced to what a handler sees of it.
4. **AssessmentGeneration** (done): producer, handler, generators, teacher.
5. **LearnerDay** (done): projection, item and day completion, reopening.
6. **Attempt** (done): save, submit, grade, exceptions, mastery, reviews.
7. **ScheduleEngine**, **GroupSchedule**, **LearnerSchedule** (done): the placement
   as an operator, the class around it, the learner around the class.
8. **RouteContents**, **RouteBuilder** (done): validator and conflict preview as
   operators with a reference definition, the editors around them.
9. **AiExtraction** (done): uploads, breakers, canary, registry commands.
10. Left: rights and approval of questions, kill-switch rows and operator grants,
    curriculum releases (section 7 says what each would show).

Pure algorithms go into the module of the component that uses them and are
checked in the same runs.

## 3. Modules and how they correspond to the code

The full correspondence, definition by definition, is the `map` of `PROJECT.json`.

**JobQueue.** `status`, `attempts`, `owner` are the columns of `jobs`; the time
columns appear as the facts statements compare them for: `leaseLive` is
`lease_expires_at >= now()`, `due` is `run_at <= now()`; `LeaseLapses` and
`BecomesDue` are time passing. A claim is one transaction with two steps,
`ClaimSelect` (candidates locked, running jobs counted, selection) and
`ClaimCommit`, so that two claims overlap: an open claim's locks block others'
claims (`SKIP LOCKED`) and make single-row statements wait (`RowFree`).
`phase[w][j][c]` is where worker w is with its c-th copy of job j, the newest first:
a round that a throwing `failJob` abandoned leaves its executions running, the loop
starts the next round, and nothing in the claim keeps a worker from a job it is itself
still executing once that row's lease is over. Result writes are steps of their own
after the check of `keeper.lost`, because the code checks and then writes.
A result write may throw before it is applied (`ResultWriteThrows`) or be applied with
its reply lost (`ResultUnheard`); either way the `catch` asks the keeper and calls
`failJob` by id. After a write that was applied (`ReplyIsLost`, the execution is
`repeating`) this hits a row that has succeeded or waits for its next try already. When
`failJob` throws the round is abandoned.
`Crash` also covers a claim whose commit is lost.

**EventDelivery / Outbox.** EventDelivery is what ADR-0006 promises: `Record`
and `HandOver` to all consumers, once. Outbox is `dispatchOutbox`: picking by id
under a lease, one transaction per event, and the catch that counts an attempt.
`DeliveryThrows` includes the commit that succeeded with its acknowledgement
lost. `Delivery == INSTANCE EventDelivery WITH ...` is the refinement mapping:
what is recorded are the rows, the work handed over are the jobs.

**EventConsumer.** One module for the four handlers; `Kind` says which rules
apply: two read the switch first, only the recalculation resumes from a
checkpoint. A job's targets are the groups, learners or recipients it serves;
each is served in a transaction of its own.

**AssessmentGeneration.** A slot is (class, date, purpose), which is both the job
key and the unique index of migration 0018a. The generators' reading of policy,
session, route and questions is one step, `Resolve`, with the outcome "refuses
for this cause" or "can publish"; `cause` may change at any time. `Publish`
is the transaction that meets the unique index. `Scan` takes a batch of the first
`ScanLimit` due tests without a test (`IsBatch`, the code's 50) and only then drops
those of switched-off organizations. An error inside the handler's `try` is `Throws`;
one of the switch's read before it, or of `completeJob` and `deferJob` after it, is
`ThrowsAround`: the loop fails the job and the handler reports nothing. The slots whose
job such an error has given up are `silent`.

**LearnerDay.** One learner and one date. `offer[n]` is what the route and the
tables of materials, questions and tests give for node n today, `progress[n]` the
learner's progress in those tables; homework has none, the plan is its only record.
A node that cannot be executed is projected as a blocked *stub* under a key of its
own (`node:<id>`), otherwise as its *item*; both are required, because every
executor says so, so `required` also tells which items were added after
materialization. A request computes its items before it takes the plan's row lock
(`ComputeToday`), may find no row to lock (`FindNoPlan`), reads the items under the
lock (`TakePlan`) and writes them by what it read (`CommitProjection`);
`CompleteDayPlanItem`, which takes no such lock, may come in between. The several
queries of one computation are one step. `CompleteLearnerDay` is a transaction of
its own that the request may not live to start.

**Attempt.** One learner's attempt at one test whose questions test one concept.
An answer is represented by the verdict `gradeAnswer` gives it, so `Verdict` only
says which answers a teacher decides and that no answer is a wrong one. What the
code does in statements of their own is a step each: the check and the write of a
save, the compare-and-set of a submission, the read of the answers, the grading
transaction, each half of a recomputation, the outcome. A teacher's ruling is four
steps: the check before the transaction, the read of the next version, the rows it
writes together with what it counts (`CountOpen`), and the commit
(`ResolveException`). Between the last two, its row locks make others wait
(`Blocked`); `VersionFree` is the unique index that lets one of two rulings fail.
`late`, `stranded` and `missed` are history: they name the exceptions the properties make.
A recomputation of the mastery reads (`ReadEvidence`) and stores (`StoreMastery`) in two
statements; `missed` says that one died or that a decision was committed between the two
(`Overtakes`).
A review is named by the decision that scheduled it; `planned` and `due` are both
`scheduled` in the code, told apart by the day.

**ScheduleEngine / GroupSchedule / LearnerSchedule.** A day is one slot with room
for `DayCapacity` nodes. `CalculateSchedule` is `calculateSchedule`: fixed items,
then each node in route order where it was if it still fits, else on the first
free day, a bounded number of moves (`MaxAutoMoves`) applied without approval.
In GroupSchedule a recalculation is `ReadSessions`, the further reads, and `Apply`,
the transaction under the advisory lock; between them the teacher closes lessons,
cancels days, and another recalculation may apply. `CloseSession` is the close, of any
planned lesson since only the page lists those up to today, with the outcome of every node and the event it appends. In LearnerSchedule
a learner's items are linked to the lesson of their slot (`LinkLessons`) and lose the
link when the class's `Apply` deletes it; an apply that meets a lesson deleted since
it was linked aborts on the foreign key (`AbortLearner`). `Reject` and `Propose`
are the ends without a revision: the second waits for an approval which no code gives.

**RouteContents / RouteBuilder.** A version's contents are a set of nodes with their
sort orders. `ValidateRoute` is `validateRoute`; `DiffRouteNodes`, `ApplyIntent` and
`ReapplyPossible` are the conflict preview. `Teachable` is an independent statement of
what a valid route is, and MCRouteBuilder assumes (TLC evaluates it) that the two
agree on all routes of up to four items, gaps and equal sort orders included. A row's id
is made of its version and item (`RowId`, with `ItemLimit` above every item's number).
In RouteBuilder a request is where its handler is: `Bump` compares and increments
the token, then an edit writes (`WriteAdd`, `ReadMove`/`WriteMove`, `WriteDelete`) and
withdraws the verdict (`Invalidate`), each a statement outside a transaction; a request
may die between any two. Publication is a transaction of two updates: the first finds
the published versions (`Supersede`), waits for those that another publication has
locked and drops what is not published any more (`ObtainLocks`), the second publishes
and commits (`CommitPublish`); the locks make others wait in between.
`frozen` (the contents a version was published with) and `slips` are history. `slips[v]`
names the races that were lost over version v, each recorded by the step that loses it:

| Name | Step | Lost by |
|---|---|---|
| `cut off` | `Die` | an edit that ends after its row and before the withdrawal of the verdict |
| `outdated` | `Judge` | a verdict stored about other rows than are there |
| `overruled` | `Judge` | a verdict stored over a version that is no draft any more |
| `edited` | `CommitPublish` | a publication while an edit of the version is under way |
| `withdrawn` | `CommitPublish` | a publication after the verdict it had read was withdrawn |
| `republished` | `CommitPublish` | a publication of what another one has published already |
| `second` | `CopyDraft` | a draft begun while another request begins one |

`request[r].settled` says that r's screen was read while there was a draft and no other
request was between two of its statements; a screen read in between may pair a new token
with old rows.

**AiExtraction.** A request is one upload from the insert to the stored questions;
`request[f].step` is the await it is at. `breaker` is the map of breakers of one server
process: closed, open (with its cooldown over or not) and half open; `Called`,
`Answered` and `Failed` are applied when a call starts and ends, whatever happened in
between, as in the code. The canary is chosen before the call (`Select`), asked after
it, sampled and judged (`Judge`), and `haltCanary` looks up a row of its own
(`Aim`) before it writes. The commands of the `ai-canary` tool read and write in two
steps. `Throws` is a statement outside the one `try` that puts a file back,
`ShadowBreaks` one inside the shadow, `Crash` the process. Reduced: the budget check to
a refusal that may happen (`Declines`), the agreement of two answers to full or none,
latency and cost of the promotion gate are left out (they only refuse more), all models
are of the deployed provider, and the questions of a file are stored at once.
`failures` and `pardoned` are history: the provider's failures in a row, and the
canaries that were registered, or whose judge failed, since their last sample; a canary
registered before the behaviour starts waits for its first sample, too.

## 4. Runs

| Run | Instance | Shows |
|---|---|---|
| `JobQueue_claims` | 2 workers, 2 jobs of 1 organization, 1 switchable and 1 whose leases may lapse under a live worker, claims of up to 2, 2 copies of a job per worker, 1 attempt, 2 faults (1.8 million states) | exclusive execution, right copies of attempts, no stale writes, settled stays settled |
| `JobQueue_settles` | 2 workers, 1 job, 2 faults, leases may lapse | every enqueued job settles |
| `Outbox` | 2 dispatchers, 3 events: poison, healthy with 2 consumers, gap; 2 attempts, 2 faults | contract, isolation, quarantine |
| `EventConsumer` | 2 workers, a recalculation with 2 groups, a stalling notification, 2 faults | at most once, checkpoints, deferral |
| `AssessmentGeneration` | a daily and a confirmation slot, a batch of 1, 1 worker, 1 producer, a teacher, 2 faults (0.25 million states) | uniqueness, reporting, liveness |
| `LearnerDay` | 2 requests, a lesson and a homework, 1 route change or dead request, 1 reopening | one event, bounded denominator, kept completions, settled days close |
| `LearnerDay_unfinished` | 1 request, 1 lesson, nothing goes wrong | finished work never counts (finding 1) |
| `Schedule` | a route of 2 nodes over 4 days, 2 overlapping recalculations, 1 cancellation, 2 overrides and 1 absence of one learner, 3 acts of the teacher (2.3 million states) | one active revision for class and learner, placement limits, nothing moves without cause, carried-over nodes return, history and closed work stay |
| `RouteBuilder` | 2 requests, 2 kinds of nodes (one needs a payload), 2 versions, tokens up to 5 (3.2 million states) | edits accepted on what is stored, edits as previewed, conflicts shown, publication as validated, one active version |
| `RouteBuilder_immutable` | as above | an edit lands in a published version (finding 2) |
| `AiExtraction` | 2 uploads, an active model and a canary with two good samples, 1 operator with 2 commands, 1 fault; thresholds 2 and 1, windows of 2 | the canary's failures stay its own, a sick canary is halted, extractions end |
| `Attempt` | 2 devices, 2 teachers, a short answer and a question with several blanks, up to 3 decisions on each, 1 day, 1 dying request, 1 review being answered at a time (2.0 million states) | append-only decisions, totals that add up, grading of what was submitted, a mastery that follows the decisions, kept reviews |

Counterexample configurations, beside the runs, for what the code does against its
own text (`tlc -config <name>.cfg MC<module>`; each ends with its property violated):

| Configuration | Property | Shows |
|---|---|---|
| `JobQueue_stale_result` | `OnlyOwnersWrite` | leases may lapse: a stale worker's result is recorded |
| `JobQueue_unheard` | `SucceededStays` | the reply to `completeJob` is lost: the succeeded job is put up for a retry, or dead-lettered |
| `EventConsumer_lost` | `AtLeastOnce` | a crash after the inbox mark loses the event |
| `LearnerDay_idle` | `CompletedByTheLearner` | a day completed by doing nothing |
| `AssessmentGeneration_silent` | `EveryFailureIsReported` | an error around the generator dead-letters the job, and nobody is told |
| `AssessmentGeneration_starved` | `EveryDueTestSettles` | tests that stay in the scan fill the batch, a later one is never generated |
| `Attempt_overlap` | `ResolvedMeansFinal` | two rulings at once leave the attempt under review for ever |
| `Attempt_mastery` | `MasteryCatchesUp` | an older recomputation stored over a newer one |
| `Schedule_closed_slot` | `ClosedSlotsStayClosed` | a second lesson in the slot that was just closed |
| `Schedule_stale_plan` | `AppliedCancellationsHold` | a late apply brings a cancelled lesson back |
| `Schedule_learner_carry_over` | `LearnerCarriesOver` | a skipped node never returns to a learner's own schedule |
| `RouteBuilder_unvalidated` | `OnlyValidatedIsPublished` | a lost race publishes rows that nobody validated |
| `RouteBuilder_unseen` | `NothingIsOverwrittenSilently` | an edit from a page with the new token and the old rows is accepted |
| `AiExtraction_spared` | `NewCanaryIsSpared` | a new canary halted for its predecessor's samples |
| `AiExtraction_halted` | `HaltedUntilRegistered` | a halted canary promoted |
| `AiExtraction_trial` | `OneTrial` | two trial calls of a half-open circuit at once |

**Bounds.** Two workers are enough for every race in the code: each statement
involves one row and one other claimant. `FaultBudget` bounds how many crashes,
lapses under a live worker, lost writes, shutdowns, switch changes and operator
commands a behaviour has; two let one fault hit the recovery from another. Each
module names in its comments what draws on it. `MaxAttempts` of 1 or 2 reaches
the last attempt within the budget. In `JobQueue_claims` one claim may take both jobs,
so that a batch has one execution that goes on when another's round is abandoned, and a
worker holds up to two copies of a job, which is what it takes to claim its own;
in `JobQueue_settles` `Limit = 1`. The truncation to `3 * Limit` candidates never bites.
In `AssessmentGeneration` a batch of one is full with two due tests; lost reports are
confined to the confirmation test, so that `FailureIsReported` is not vacuous. In `Outbox`, `Slow` confines lapses under a live dispatcher
to event 2, and `EventConsumer` confines them to job j2, to keep the instances
small; both stay in the run so that statements about them are not vacuous.
In `LearnerDay` a single disturbance is enough for a loser of the insert race to
carry other items than the winner, for an item to be withdrawn or unblocked, and
for the completing request to die; two disturbances (1.3 million states) were
checked as well and are left out of the run only for its time.
In `Attempt` the two devices and the two teachers are symmetric. Two questions let
two rulings overlap on one answer and on different ones; three versions are the
automatic decision and both teachers'. One sequence number is enough for a save
that wins and one that loses. A learner answers one review at a time (`MaxReviewing`);
two devices answering at once were left out for time. The view `WhileItMatters` joins
states that differ only in whether the time limit passed after submission, which no
step and no property looks at. `PassMark = 4` makes one lost point a failed test.
In `Schedule` a day has one slot, so the order of several slots within a day is not
looked at. Four days and two nodes let a node be cancelled, closed unfinished,
carried over and moved while a second recalculation is under way; longer routes with
two nodes a day (`DayCapacity = 2`, `RouteLength = 3`, three days) were checked as well.
Requests of teachers bound the behaviour, recalculations do not: each answers one.
In `RouteBuilder` tokens up to 5 let one editor conflict, look again and reapply while
the other edits, validates and publishes and drafts the second version. The view
`WhatMatters` forgets the number of a token that is not the latest (tokens only grow, so
it leads to a refusal) and what an accepted edit was made on once no property compares
with it any more. A second draft that a race leaves needs a third version, and two rows of one sort order
beside another need three items: the exceptions `second` and equal sort orders are beyond
this instance, not beyond the proofs; `second` was seen to be needed with three versions. In `AiExtraction` thresholds and windows of 1 and 2
stand for 3, 5, 20 and 50: two samples are the least with which a window slides past
an old one, and two uploads the least with which samples overlap. Three commands
with both models free to register (3.2 million states, up to symmetry) were checked for
the invariants.
Deadlock is not checked where a system may come to rest: all events delivered,
all jobs settled, all tests generated, nobody opening a page, the attempt finalized,
the last day over, the tokens or the uploads used up. JobQueue itself never stops.

**Fairness.** Workers poll in a loop (`main.ts`), handlers return or throw, the
supervisor restarts a dead worker, clocks advance, an abandoned lease runs out:
weak fairness for each. Strong fairness only where another process may take the
step away and give it back: a claim in `EventConsumer` and
`AssessmentGeneration` (the other worker or a switch that is off disable it),
and the producer's scan. Nothing is assumed of operators, faults or teachers,
and no handler is assumed to succeed. `SettledDaysClose` and `FinishedWorkCounts`
are promises to a learner who keeps coming back to the today page, since only that
projects a plan again; LearnerDay assumes this and that requests end. AiExtraction
assumes that a request goes on: calls of providers are limited in time (`withTimeout`)
and statements end; which way they end is left open. Attempt has no
liveness property and assumes no fairness: what a request leaves undone there
(`stranded`, a missing retry plan) nobody takes up again, so the invariants
`SubmissionsAreProcessed` and `ResolvedMeansFinal` say who still works on it.

Each property of a passing run has a mutant in `PROJECT.json`: a variant of one
definition, marked as a variant in its module, under which TLC finds the property
violated. The runs ask what is most worth asking. Properties that are proved and
follow from others or are typing (`TypeOK`, `OpenClaimsAreCurrent`,
`DeliveredMeansHandedOver`, `ReopeningOnRecord`, `CompletedMeansSettled`) are stated in
the modules, with their variants, and can be added to the configurations; so can
`AttemptsBounded`, `EventsAreLeasedOnce`, `QuarantineStays`, `ResumedWorkIsFinished` and
`ReportedOnce`, which hold there but are not proved.

## 5. What is proved

For every number of jobs, workers, events, targets, slots and every budget, from
the named assumptions of each module. A proof of a safety property follows the
same pattern: typing first, then an inductive strengthening, one step per action.

- *JobQueueProofs*. `OpenClaimsAreCurrent` is inductive with typing: statements
  outside a claim wait for its locks, and time only makes a row more claimable.
  `HeldRows` is about the jobs outside `Lapsing`, whose leases do not lapse under a live
  worker (what the keeper is meant to provide; `JobQueue_stale_result` is what happens to
  the others): an execution that is not over either holds the running row of its worker
  under a live lease, or has applied a result of which it has not heard, and the row is as
  that result left it (`RowHeld`). Exclusive execution follows from it, for two workers and
  for two copies in one; so does that a result lands on the worker's running row or over its
  own unheard result, and that a settled job is moved by an operator or by the one worker
  that has not heard of its success. That this exception is real is
  `JobQueue_unheard`. `AttemptsMatchClaim` holds of lapsing jobs, too: it is about
  the newest copy of the owner.
- *OutboxProofs*. `HandOverInv`: an event's jobs are none or exactly one for each
  consumer, and all of them once it is delivered. From it follow
  `DeliveredMeansHandedOver` and that the outbox implements EventDelivery: every step records
  one event, hands one over completely, or leaves both alone.
- *EventConsumerProofs*. A target of a job without checkpoint is served at most
  once, even by two runs at once: only the run that inserted the inbox row works,
  and what it has not yet done has no effect yet. A checkpoint is honoured
  (`Resumes`): a job that keeps its lease has one run at a time, which starts from
  the job's checkpoint and has all of it behind it when it works or saves.
- *AssessmentProofs*, on AssessmentGeneration. One test per slot from the index alone,
  whatever races. No generator fails silently: whoever is about to fail a job for good after
  its generator refused or threw has reported it (`Announced`), because `reportFailure` and
  `failJob` decide by the same copy of attempts. Jobs that errors around the generator
  have given up (`silent`) are excepted: `AssessmentGeneration_silent`.
- *AssessmentProofs*, on Attempt. `IndInv`: nothing is decided before grading (`Fresh`), the
  compare-and-set lets one request grade (`OneGrader`), versions have no gaps
  (`Chain`), and a ruling that has counted holds the next free version and its
  answer alone (`Locked`). From it: decisions are append-only and the newest is
  final. `FinalInv` adds what a ruling has counted (`Tallied`): it is right for every
  answer that it did not see open and that has not been judged twice since, so a
  commit that finds nothing open may finalize. That grading is about the stored
  answers, that the mastery follows the decisions and that planned reviews stay have
  invariants of their own: as long as no recomputation died or was overtaken, what is about
  to be stored is current, and the stored mastery is, unless a recomputation is still to come
  (`Current`), since every decision is followed by one. `Processed` follows a submission to its end: whoever finalizes
  it without exceptions takes the answers it graded along until it has compared their
  scores with the pass mark (`Pending`).
- *LearnerDayProofs*. `DayInv`: one request merges at a time, a plan that is being
  merged is not completed, and only the request that inserted the plan takes itself
  for its creator. From it follow, for any number of requests: one completion event,
  the recorded reopening, settled completed days, and a denominator that never grows.
- *ScheduleProofs*, on the engine, for every snapshot whatever its nodes, days, places,
  fixed items and limits. A round gives a node no place or an available day with room
  (`PlacementFits`) and overfills nothing (`RoundsKeepTheLimits`); over all rounds
  (`RoundInv`, `KeptInv`) a schedule without conflicts keeps every limit
  (`SchedulesKeepTheLimits`), and places that are sound together are kept as they are
  (`SoundPlacesAreKept`). `OverridesKeepExtraWork` says the same kind of thing of
  `applyOverrides`: for any route and overrides every node is on the result once, and
  extra work is on it unless an override skips it. It needs what `LearnerAssumption` says of
  `Overrides`: extra work has a node of its own, not on the class's route.
- *ScheduleProofs*, on the protocol. `ReadInv`: whatever a run has read by now is a snapshot
  the engine is made for (routes without repetition, finite lessons, carried-over nodes
  among the targets), and what it has computed is the engine's answer to it. So the
  theorems on the engine hold of every recalculation, of class and learner, however stale
  its reads. `ScheduleInv`: lessons are those of the revisions (`Lessons`), a run's reads
  are not of the future (`RunsAreDated`), one revision is active and planned lessons ahead
  are its own (`ClassRevisions`), and the same of a learner's items. This half uses nothing
  of what the engine computes: whatever stale or foolish plan is applied, the
  future follows the active revision, and closed lessons and closed work stay.
- *RouteBuilderProofs*, on the operators. A route that `validateRoute` passes can be taught
  (`ValidRoutesCanBeTaught`), for any items, edges and calendar; TLC also evaluates the
  converse, on the routes of MCRouteBuilder. A comparison without a difference
  is one of equal lists (`NoDifferenceNoChange`): rows that keep their rank among the common
  ones keep their place.
- *RouteBuilderProofs*, on the handlers. `RouteInv` has, beside types and which versions
  exist (`Known`), one part for each promise. `VerdictsStand`: over a version where none of the five races
  was lost, a publishable verdict is about the stored rows or about to be withdrawn, and a
  published version has the rows it was validated with and no edit left. `OneOfEach`, as long as
  none of the three races of `ActiveIsPublished` was lost: one version published and
  pointed at, one edited at most, and who publishes the latter supersedes the former.
  `Calm`: as long as the token of a screen that was read undisturbed is the latest, the
  draft is still what it shows (`Shown`), because whoever changes rows has incremented the
  token first. `Previewed`: an edit made there finds these rows, until another increment follows, and leaves
  its preview behind (`Foreseen`). Nothing is assumed about how requests overlap:
  a race enters the proofs only through `slips`, that is when it is lost.
  `AddsAreNew` is there because the model adds an item once: rows of the same content are
  different items, so an item that two pages were about to add would have one id twice.
- *AiExtractionProofs*. `ProviderOnly`: the provider's breaker counts at most the provider's
  failures since its last answer, and canaries have breakers of their own
  (`RequestsAsk`: a request that asks a canary has one). `CanariesJudged`: a canary over the
  threshold that is not `pardoned` is between the sample and the halt of some upload.
  Inductive it is because the unique index leaves one canary, so that the row `haltCanary`
  looks up is the one that was judged, as long as that one is a canary still.

The assumptions are those a run checks with its instance. Two are about a device of
the model and not about the code: rows have ids from which version and item can be told
(`ItemLimit` exceeds every item's number), and the histories a model may start from
(`Pasts`) consist of outcomes. Bounds such as `MaxCommands`, `MaxFaults` or `FaultBudget`
are arbitrary numbers in the proofs.

Only model-checked: liveness (`EveryJobSettles`, `HealthyDelivered`,
`BrokenQuarantined`, `DeferredEventsRun`, `DueTestsSettle`, `SettledDaysClose`,
`ExtractionsEnd`), because ENABLED and fairness are beyond the prover. Every
invariant and every action property of a run is stated by a theorem.

## 6. Findings and disagreements noticed

Two disagreements between text and code have a run (`findings` in PROJECT.json):

1. An item that was once projected as in progress keeps that status for ever
   (`learner-day-plan.ts:299`), although `day-plan.ts:535` counts on a later
   projection to bring in that it was finished; such a day is never completed.
2. A node is written into a published version: the edit's token was accepted while the
   version was a draft, and validation and publication need no token. `actions.ts:92`
   and `state-machines.md:53` call published versions immutable; the check of I-02 in
   `invariants.sql:95-107` looks at `route_versions.updated_at`, which does not change.

Those of the counterexample configurations (section 4):

- A stale worker's result is recorded although `queue.ts:635` forbids it.
- A succeeded job runs again: `completeJob` commits, its reply is lost, and the `catch` calls
  `failJob`, which names the row by id only (`loop.ts:182-191`, `queue.ts:213-228`): the row
  goes to `retry_scheduled`, or to `dead_lettered` on the last try, although
  `state-machines.md:435` ends there (`succeeded --> [*]`).
- A test is not generated and nobody is told: ADR-0018:123 adds the failure event because
  a failure that stays in `jobs` does not reach the teacher, but an error in the switch's
  read (`handlers/assessment.ts:113`, outside the `try`) or in `completeJob` or `deferJob`
  (`loop.ts:177`, `:182`) dead-letters the job without one. The page of failed generations
  lists such a job, without a reason.
- A test that is due is never generated: the producer scans the first 50 due tests of all
  organizations (`assessment-schedule.ts:67`, `:210`) and only then skips those that are
  switched off (`:272-276`); these, and those whose job was given up, stay in the scan for
  as long as their sessions are coming. Fifty of them that start earlier keep a later one out.
- The inbox mark is not in the transaction of the work (ADR-0006 section 3), so
  delivery to consumers is at most once, not at least once.
- A blocked stub is exempted when its node becomes executable, and the node's item
  comes in as optional: the day completes with nothing done (ADR-0017).
- Two teachers who rule on the last two exceptions at the same time each count the
  other's as open (`attempt.ts:747`), so the attempt stays `review_required` with
  nothing left to review, although `attempt.ts:744` and `state-machines.md:350` say
  it is finalized; its total lacks one of the two scores.
- Two recomputations of one mastery store their results in the opposite order of their reads
  (`attempt.ts:833`, `:862`), where `attempt.ts:428` speaks of eventual consistency: the older
  result stays until the learner's next answer on the concept.
- Closing today's lesson with nodes unfinished starts a recalculation on the same day,
  which finds those nodes a place in today's slot: a planned lesson beside the closed
  one, where `adaptive.ts:40` speaks of the next available slot. No race is needed.
- A recalculation that has read before a cancellation, and applies after the
  one that took it up (the reads are before the lock, `schedule.ts:427`), puts a lesson on
  the cancelled day, and the cancellation stays `applied`.
- A learner's recalculation takes every node of a closed lesson as done
  (`learner-schedule.ts:249-253`), the skipped ones included: what the comment at
  `schedule.ts:176-182` calls losing the progress that a teacher reported honestly.
- Rows that nobody validated are published, although `actions.ts:93` allows publication only
  through validation: a request dies between its write and the withdrawal of the verdict
  (`actions.ts:370-390`); a verdict is stored over rows that were edited meanwhile
  (`actions.ts:653-693`); a publication goes on with what was edited, or withdrawn, after it looked.
- A page rendered between another edit's token and its row has the new token with the old
  rows, and an edit made on it is accepted, although `actions.ts:142` says that nothing is
  overwritten silently whatever the order of the reads.
- `haltCanary` halts whatever row is the canary when it looks (`ai-canary.ts:541`), not the
  model that was judged: one just registered is halted without samples, where
  `model-registry.ts:288` says it is not halted below `minSamples`.
- A promotion that read the canary before its automatic halt makes the halted row active
  (`ai-canary.ts:501`), where `model-registry.ts:22` demands a new registration.
- A half-open circuit lets every call through until one ends, where
  `circuit-breaker.ts:6` and `:72` promise one trial; and a call of before that
  succeeds late closes an open circuit.

Others were met while modelling; the models do what the code does:

- `queue.ts:9` promises a per-organization limit at claim time; the count misses
  claims not yet committed (`queue.ts:102-109`), so two workers exceed it together.
- `state-machines.md:428-429`: a job is retried while attempts < max_attempts;
  `failJob` compares the copy from before the increment: one more run.
- ADR-0010:143 and `state-machines.md:424`: beyond max_attempts a job is
  dead-lettered; the reclaim of an expired lease (`queue.ts:95`) has no limit, so a
  job that kills its worker is taken up for ever.
- A worker may claim a job that it is itself still executing (`queue.ts:88-101`): a
  throwing `failJob` abandons the round (`main.ts:146`), the rest of the batch runs on, and
  once its lease has lapsed the row is like any other. The results of both copies are written.
- ADR-0010:121: SIGTERM stops new claims; the loop looks at the flag only between
  rounds (`main.ts:107`), so one more claim may follow.
- ADR-0006 section 4: aggregate_version order; failed events are retried on their
  own, so a later version may overtake.
- A failure event is written once per job id, so after a manual retry the first
  reason stays the one shown.
- A learner's confirmation of homework that commits between a projection's read and
  its write is overwritten or deleted (`learner-day-plan.ts:308`, `:329`), although
  the action reported success and ADR-0018 section 3 says completed items are kept.
  `CompletionsKept` states exactly this exception.
- An exempted item stays exempted when its material is published again.
- A test generated by hand carries no route node, so a plan node that waits for
  its generation stays blocked (`apps/web/src/app/app/tests/actions.ts:50-64`).
- I-02 (`state-machines.md:489`) protects submitted answers with a trigger on
  `responses`, which the migrations do not have: a save whose check passed before
  submission lands afterwards, and the answer on record is not the one graded.
- The status of an exception is checked before the transaction
  (`attempt.ts:620`), so one exception can be resolved twice; the second
  decision supersedes the first.
- A request that dies between the commit of `submitted` and the grading
  transaction, or whose grading meets a save that inserts the same row first,
  leaves a submitted attempt that no code grades.
- Only `submitAndGrade` evaluates a confirmation test, and only without exceptions:
  a test failed by a teacher's ruling gets no retry plan.
- `answerReview` updates by id without looking at the status again
  (`review.ts:257`): it may schedule a review anew that grading has completed.
- Schedules: `closeSession` sets no `completed_at` (`session-execution.ts:224`), which
  `invariants.sql` (I-05) flags on every closed lesson. A learner's absence starts only the class's
  recalculation, which does not read it. No code approves a proposal that waits
  for approval. `effective_from` and `effective_to` of an override are not read.
- Routes: two moves in flight may give two nodes one sort order. A late verdict of
  `validateDraft` overwrites `published` (`invariants.sql` checks that the active version is
  published). A publisher that stalls may publish
  again what a later publication superseded, and in a narrow race between its two
  updates two versions stand as published. A new draft copies nodes without book range
  and homework mode (`actions.ts:863-871`), and no action edits them: such nodes block
  its publication until they are deleted and added again; reapplying such an addition
  after a conflict is refused although the panel calls it possible.
- Extraction: a failed file is put back to `uploaded` so that it can be tried again
  (`ingestion.ts:126`), but nothing tries: a second upload of the same content is refused
  by its checksum and `processSourceFile` has no other caller. A request that dies after `extracting`, and an error of
  the budget check, of the record of the usage or of the storing, which are outside the `try`
  (`ingestion.ts:108`), leave the file there, which `ExtractionsEnd` excepts, and one that dies while storing leaves part of the questions,
  which a later attempt would take for all (`ingestion.ts:97`).
- Canary: a model registered again keeps its old samples, is halted at the next one, and
  the gate counts all of them. `register --role active` is a way around the gate
  (`promoteCanary` says there is none). A canary halted during an upload is still
  asked by uploads that have selected it.
- Rights (read, not modelled): a question approved while its right is under review is
  never assignable later, although `content/books/actions.ts:129` says it returns to the pool;
  blocking and restoring a right makes one under review usable; blocking clears no
  assignable question, which I-13 flags.

## 7. Not modelled

- Rights and approval of questions: the disagreements in section 6 are sequential and
  need no model to be seen; the race of approval with a block would be its one property.
- Kill-switch rows: the command reads and then inserts, so two operators may stop a
  global switch twice and a resume clears one (`kill-switch.mts:319`). The switch as
  workers read it is in the models.
- Operator access: single guarded updates; a second revocation at the same time hits no
  row but is audited (`operator-access.ts:268`).
- Curriculum releases: an administrator's command line, one release at a time.
- The monthly budget: concurrent requests may exceed it and warn twice; the
  extraction's use of it is a refusal that may happen.
- Question selection, templates and the forgetting curve's intervals: pure functions, of which the
  models need only whether they refuse or which branch they take.
- Text and formula conversion (`packages/ingest`, `hwp`, `hwpx`, `math`,
  `variants`): string processing whose inputs TLC cannot enumerate.
- Row-level security, the permission matrix, contracts, schema declarations: tables
  without behaviour; the constraints that other components rely on (unique
  indexes, triggers) are in the models of those components.
- Heartbeats, status and queue reports: they observe and decide nothing.
- PDF rendering, external calendars, the web pages: input and output.

Most lines of the repository are of these kinds: the import of scanned books alone has
some ten thousand lines of patterns over text, and the pages and the declarations
of the schema have most of the rest.
