------------------------ MODULE AssessmentGeneration ------------------------
(***************************************************************************)
(* Automatic daily and confirmation tests: the periodic producer that        *)
(* enqueues a job for every due test node (domain/assessment-schedule.ts),   *)
(* the worker's handler (handlers/assessment.ts), the generators with their  *)
(* unique index (domain/assessment-generation.ts) and the teacher, who may   *)
(* generate by hand and retry a failed job.                                  *)
(*                                                                          *)
(* A slot is a class, a date and a purpose.  Leases outlive handlers here,   *)
(* and a result that is recorded unheard is told in one step: what happens   *)
(* otherwise is JobQueue's subject.                                          *)
(***************************************************************************)
EXTENDS Naturals, Sequences, FiniteSets

CONSTANTS
  Slots,       \* records [org, day, purpose]: a class and date, and what is tested
  Order,       \* Order[s]: when the session of s starts, and its place in it
  ScanLimit,   \* ASSESSMENT_PRODUCER_BATCH
  Workers,     \* worker processes
  Producers,   \* the producer of each worker process
  Teacher,     \* whoever presses generate
  Causes,      \* reasons for which a generator refuses, all permanent
  MaxAttempts, \* jobs.max_attempts
  FaultBudget, \* bound: how many faults, cancellations, switch-offs and retries happen
  ManualTests, \* slots the teacher generates by hand
  LostReports  \* slots for which the transaction that reports a failure can fail

ASSUME GenerationAssumption ==
  /\ Slots # {}
  /\ Order \in [Slots -> Nat]
  /\ ScanLimit \in Nat \ {0}
  /\ Teacher \notin Workers
  /\ "none" \notin Causes
  /\ MaxAttempts \in Nat
  /\ FaultBudget \in Nat
  /\ ManualTests \subseteq Slots
  /\ LostReports \subseteq Slots

Orgs == {s.org : s \in Slots}
Actors == Workers \cup {Teacher}
Transient == "transient_db"
Reasons == Causes \cup {Transient}

\* assessmentJobKey has the columns of the unique index.
JobKey_NoPurpose(s) == <<s.org, s.day>> \* variant
JobKey(s) == s

VARIABLES
  due,      \* due[s]: a coming session has the test node and its time has come
  switchOn, \* switchOn[o]: organisation o's assessment generation switch
  cause,    \* cause[s]: why a generator would refuse now, "none" if it would not
  tests,    \* tests[s]: assessment_instances of s that are not cancelled
  job,      \* job[s]: the status of the job row
  attempts, \* attempts[s]: its attempts
  events,   \* events[s]: reasons of the failure events about s's job
  silent,   \* slots whose job an error around the generator has given up
  rows,     \* rows[p]: what is left of p's scan
  phase,    \* phase[a]: the next step of a's generation
  slot,     \* slot[a]: the slot a works on
  attempt,  \* attempt[w]: job.attempts of w's copy of the row
  why,      \* why[a]: the reason a's generation fails
  faults    \* faults, cancellations, switch-offs and retries so far

jobVars == <<job, attempts, silent>>
actorVars == <<phase, slot, attempt, why>>
genVars == <<due, switchOn, cause, tests, jobVars, events, rows, actorVars, faults>>
Phases == {"idle", "gate", "defer", "find", "resolve", "publish", "complete",
           "report", "fail"}
JobStates == {"absent", "queued", "running", "succeeded", "failed"}

GenTypeOK ==
  /\ due \in [Slots -> BOOLEAN]
  /\ switchOn \in [Orgs -> BOOLEAN]
  /\ cause \in [Slots -> Causes \cup {"none"}]
  /\ tests \in [Slots -> Nat]
  /\ job \in [Slots -> JobStates]
  /\ attempts \in [Slots -> Nat]
  /\ events \in [Slots -> Seq(Reasons)]
  /\ silent \in SUBSET Slots
  /\ rows \in [Producers -> SUBSET Slots]
  /\ phase \in [Actors -> Phases]
  /\ slot \in [Actors -> Slots]
  /\ attempt \in [Workers -> Nat]
  /\ why \in [Actors -> Reasons \cup {"none"}]
  /\ faults \in Nat

SomeSlot == CHOOSE s \in Slots : TRUE

GenInit ==
  /\ due = [s \in Slots |-> FALSE]
  /\ switchOn = [o \in Orgs |-> TRUE]
  /\ cause = [s \in Slots |-> "none"]
  /\ tests = [s \in Slots |-> 0]
  /\ job = [s \in Slots |-> "absent"]
  /\ attempts = [s \in Slots |-> 0]
  /\ events = [s \in Slots |-> <<>>]
  /\ silent = {}
  /\ rows = [p \in Producers |-> {}]
  /\ phase = [a \in Actors |-> "idle"]
  /\ slot = [a \in Actors |-> SomeSlot]
  /\ attempt = [w \in Workers |-> 0]
  /\ why = [a \in Actors |-> "none"]
  /\ faults = 0

Fault == faults < FaultBudget /\ faults' = faults + 1

-----------------------------------------------------------------------------
(* Surroundings. *)

\* The session comes into the window, or is cancelled, completed or past.
SetDue(s) ==
  /\ IF due[s] THEN Fault ELSE UNCHANGED faults
  /\ due' = [due EXCEPT ![s] = ~@]
  /\ UNCHANGED <<switchOn, cause, tests, jobVars, events, rows, actorVars>>

SetSwitch(o) ==
  /\ IF switchOn[o] THEN Fault ELSE UNCHANGED faults
  /\ switchOn' = [switchOn EXCEPT ![o] = ~@]
  /\ UNCHANGED <<due, cause, tests, jobVars, events, rows, actorVars>>

\* Policies, sessions, routes and questions change.
SetCause(s, c) ==
  /\ cause[s] # c
  /\ cause' = [cause EXCEPT ![s] = c]
  /\ UNCHANGED <<due, switchOn, tests, jobVars, events, rows, actorVars, faults>>

-----------------------------------------------------------------------------
(* The producer. *)

Untested == {s \in Slots : due[s] /\ tests[s] = 0}

\* findDueAssessmentSessions: due sessions without a test, the first ones of all
\* organisations.  Those of one that is switched off are in the batch, and so are
\* those whose job was given up long ago.
IsBatch(B) ==
  /\ B \subseteq Untested
  /\ Cardinality(B) <= ScanLimit
  /\ B # Untested => Cardinality(B) = ScanLimit
  /\ \A s \in B, r \in Untested \ B : Order[s] <= Order[r]

\* produceAssessmentJobs skips the former.
Scan(p) ==
  /\ rows[p] = {}
  /\ \E B \in SUBSET Untested :
       /\ IsBatch(B)
       /\ rows' = [rows EXCEPT ![p] = {s \in B : switchOn[s.org]}]
  /\ rows' # rows
  /\ UNCHANGED <<due, switchOn, cause, tests, jobVars, events, actorVars, faults>>

\* enqueueJob: a row with the key, whatever its state, absorbs the insert.
Enqueue(p, s) ==
  /\ s \in rows[p]
  /\ rows' = [rows EXCEPT ![p] = @ \ {s}]
  /\ job' = IF \E r \in Slots : JobKey(r) = JobKey(s) /\ job[r] # "absent"
              THEN job ELSE [job EXCEPT ![s] = "queued"]
  /\ UNCHANGED <<attempts, silent, due, switchOn, cause, tests, events, actorVars,
                 faults>>

\* An insert throws: the round goes on without the rest of the batch.
ProducerThrows(p) ==
  /\ rows[p] # {}
  /\ Fault
  /\ rows' = [rows EXCEPT ![p] = {}]
  /\ UNCHANGED <<due, switchOn, cause, tests, jobVars, events, actorVars>>

-----------------------------------------------------------------------------
(* The worker around the generator. *)

GoIdle(a) ==
  /\ phase' = [phase EXCEPT ![a] = "idle"]
  /\ slot' = [slot EXCEPT ![a] = SomeSlot]
  /\ why' = [why EXCEPT ![a] = "none"]
  /\ attempt' = [w \in Workers |-> IF w = a THEN 0 ELSE attempt[w]]

Enters(a, p) == phase' = [phase EXCEPT ![a] = p]

Runs(a, s) == phase[a] # "idle" /\ slot[a] = s

\* A queued job, or a running one whose worker is gone and lease over; the
\* worker's copy of attempts is the one before the claim's increment.
Claim(w, s) ==
  /\ phase[w] = "idle"
  /\ job[s] \in {"queued", "running"}
  /\ job[s] = "running" => \A v \in Workers : ~Runs(v, s)
  /\ job' = [job EXCEPT ![s] = "running"]
  /\ attempts' = [attempts EXCEPT ![s] = @ + 1]
  /\ attempt' = [attempt EXCEPT ![w] = attempts[s]]
  /\ slot' = [slot EXCEPT ![w] = s]
  /\ Enters(w, "gate")
  /\ UNCHANGED <<silent, due, switchOn, cause, tests, events, rows, why, faults>>

\* deferJob gives the claim's attempt back.
AttemptsAfterDefer_FromCopy(w) == attempt[w] - 1 \* variant
AttemptsAfterDefer(w) ==
  LET n == attempts[slot[w]] IN IF n > 0 THEN n - 1 ELSE 0

\* The organisation's switch: the job waits without using up an attempt.
ReadSwitch(w) ==
  /\ phase[w] = "gate"
  /\ Enters(w, IF switchOn[slot[w].org] THEN "find" ELSE "defer")
  /\ UNCHANGED <<due, switchOn, cause, tests, jobVars, events, rows,
                 slot, attempt, why, faults>>

DeferJob(w) ==
  /\ phase[w] = "defer"
  /\ job' = [job EXCEPT ![slot[w]] = "queued"]
  /\ attempts' = [attempts EXCEPT ![slot[w]] = AttemptsAfterDefer(w)]
  /\ GoIdle(w)
  /\ UNCHANGED <<silent, due, switchOn, cause, tests, events, rows, faults>>

\* The generator answered ok: the worker's job succeeds.
CompleteJob(w) ==
  /\ phase[w] = "complete"
  /\ job' = [job EXCEPT ![slot[w]] = "succeeded"]
  /\ GoIdle(w)
  /\ UNCHANGED <<attempts, silent, due, switchOn, cause, tests, events, rows, faults>>

\* The last try: there is none after it that could still report the failure.
LastTry_OffByOne(w) == attempt[w] > MaxAttempts \* variant
LastTry(w) == attempt[w] >= MaxAttempts

\* failJob: one more try, decided by the same copy of attempts, or the end.
FailedJob(s, retries) ==
  job' = [job EXCEPT ![s] = IF retries THEN "queued" ELSE "failed"]
JobRetries(w) == attempt[w] < MaxAttempts

\* The generator throws (the database failed): the job is retried, or the last
\* failure is reported first.  A teacher just sees the error.
Throws(a) ==
  /\ phase[a] \in {"find", "resolve", "publish"}
  /\ Fault
  /\ \/ /\ a \in Workers /\ LastTry(a)
        /\ Enters(a, "report")
        /\ why' = [why EXCEPT ![a] = Transient]
        /\ UNCHANGED <<job, slot, attempt>>
     \/ /\ a \in Workers /\ ~LastTry(a)
        /\ FailedJob(slot[a], JobRetries(a))
        /\ GoIdle(a)
     \/ a = Teacher /\ GoIdle(a) /\ UNCHANGED job
  /\ UNCHANGED <<attempts, silent, due, switchOn, cause, tests, events, rows>>

\* isFeatureEnabled, deferJob or completeJob throws, the last two before or after
\* they are applied: the loop fails the job, and the handler reports nothing.
ThrowsAround(w) ==
  /\ phase[w] \in {"gate", "defer", "complete"}
  /\ Fault
  /\ FailedJob(slot[w], JobRetries(w))
  /\ \/ UNCHANGED attempts
     \/ /\ phase[w] = "defer"
        /\ attempts' = [attempts EXCEPT ![slot[w]] = AttemptsAfterDefer(w)]
  /\ silent' = IF JobRetries(w) THEN silent ELSE silent \cup {slot[w]}
  /\ GoIdle(w)
  /\ UNCHANGED <<due, switchOn, cause, tests, events, rows>>

\* reportFailure: one event per job, looked up by its job id.
Reports_Always(s) == TRUE \* variant
Reports(s) == events[s] = <<>>

ReportFailure(w) ==
  /\ phase[w] = "report"
  /\ events' = IF Reports(slot[w])
                 THEN [events EXCEPT ![slot[w]] = Append(@, why[w])] ELSE events
  /\ Enters(w, "fail")
  /\ UNCHANGED <<due, switchOn, cause, tests, jobVars, rows,
                 slot, attempt, why, faults>>

\* A report that fails is only logged: the job still fails for its own reason.
ReportIsLost(w) ==
  /\ slot[w] \in LostReports
  /\ phase[w] = "report"
  /\ Fault
  /\ Enters(w, "fail")
  /\ UNCHANGED <<due, switchOn, cause, tests, jobVars, events, rows,
                 slot, attempt, why>>

\* The rethrown error reaches failJob.
FailJob(w) ==
  /\ phase[w] = "fail"
  /\ FailedJob(slot[w], FALSE)
  /\ GoIdle(w)
  /\ UNCHANGED <<attempts, silent, due, switchOn, cause, tests, events, rows, faults>>

Crash(w) ==
  /\ phase[w] # "idle"
  /\ Fault
  /\ GoIdle(w)
  /\ UNCHANGED <<due, switchOn, cause, tests, jobVars, events, rows>>

-----------------------------------------------------------------------------
(* The generators. *)

TeacherGenerates(s) ==
  /\ s \in ManualTests
  /\ phase[Teacher] = "idle"
  /\ slot' = [slot EXCEPT ![Teacher] = s]
  /\ Enters(Teacher, "find")
  /\ UNCHANGED <<due, switchOn, cause, tests, jobVars, events, rows,
                 attempt, why, faults>>

\* The generator answers ok.
Answers(a) ==
  IF a \in Workers THEN Enters(a, "complete") /\ UNCHANGED <<slot, attempt, why>>
                   ELSE GoIdle(a)

\* findExisting: an existing test is the answer.
FindExisting(a) ==
  /\ phase[a] = "find"
  /\ IF tests[slot[a]] > 0
       THEN Answers(a)
       ELSE Enters(a, "resolve") /\ UNCHANGED <<slot, attempt, why>>
  /\ UNCHANGED <<due, switchOn, cause, tests, jobVars, events, rows, faults>>

\* Policy, session, route and questions are read and the questions selected.
Resolve(a) ==
  /\ phase[a] = "resolve"
  /\ LET c == cause[slot[a]] IN
     IF c = "none"
       THEN Enters(a, "publish") /\ UNCHANGED <<slot, attempt, why>>
       ELSE IF a \in Workers
         THEN /\ Enters(a, "report")
              /\ why' = [why EXCEPT ![a] = c]
              /\ UNCHANGED <<slot, attempt>>
         ELSE GoIdle(a)
  /\ UNCHANGED <<due, switchOn, cause, tests, jobVars, events, rows, faults>>

\* The publishing transaction.  Whoever comes second violates
\* assessments_group_idempotent_uq and answers with the other's test.
Collides_Never(s) == FALSE \* variant: the index before migration 0018a
Collides(s) == tests[s] > 0

Publish(a) ==
  /\ phase[a] = "publish"
  /\ IF Collides(slot[a])
       THEN UNCHANGED tests
       ELSE tests' = [tests EXCEPT ![slot[a]] = @ + 1]
  /\ Answers(a)
  /\ UNCHANGED <<due, switchOn, cause, jobVars, events, rows, faults>>

\* retryAssessmentGeneration: the same row is queued again.
RetryAssessmentGeneration(s) ==
  /\ job[s] = "failed"
  /\ Fault
  /\ job' = [job EXCEPT ![s] = "queued"]
  /\ attempts' = [attempts EXCEPT ![s] = 0]
  /\ silent' = silent \ {s}
  /\ UNCHANGED <<due, switchOn, cause, tests, events, rows, actorVars>>

WorkerStep(w) ==
  \/ ReadSwitch(w) \/ DeferJob(w) \/ FindExisting(w) \/ Resolve(w) \/ Publish(w)
  \/ CompleteJob(w) \/ ReportFailure(w) \/ FailJob(w)

ProducerStep(p) == Scan(p) \/ \E s \in Slots : Enqueue(p, s)

GenNext ==
  \/ \E o \in Orgs : SetSwitch(o)
  \/ \E s \in Slots : \/ SetDue(s) \/ RetryAssessmentGeneration(s)
                      \/ TeacherGenerates(s)
                      \/ \E c \in Causes \cup {"none"} : SetCause(s, c)
                      \/ \E w \in Workers : Claim(w, s)
  \/ \E p \in Producers : ProducerStep(p) \/ ProducerThrows(p)
  \/ \E w \in Workers : WorkerStep(w) \/ ThrowsAround(w) \/ ReportIsLost(w) \/ Crash(w)
  \/ FindExisting(Teacher) \/ Resolve(Teacher) \/ Publish(Teacher)
  \/ \E a \in Actors : Throws(a)

GenSpec == GenInit /\ [][GenNext]_genVars

\* Producers and workers keep polling.  A producer's scan and a worker's claim
\* may be preempted by others, or find the switch off in between.
Fairness ==
  /\ \A p \in Producers : SF_genVars(Scan(p))
  /\ \A p \in Producers, s \in Slots : WF_genVars(Enqueue(p, s))
  /\ \A s \in Slots : SF_genVars(\E w \in Workers : Claim(w, s))
  /\ \A w \in Workers : WF_genVars(WorkerStep(w))

FairSpec == GenSpec /\ Fairness

-----------------------------------------------------------------------------
(* Properties. *)

\* However producers, workers, retries and the teacher race, a class has at
\* most one test of a purpose on a date.
OneTestPerSlot == \A s \in Slots : tests[s] <= 1

\* A generation job whose generator refuses, or throws on the last try, is only
\* given up once that has been reported (unless the report itself is lost): the
\* job is not dead-lettered by another count than the handler's.
FailureIsReported ==
  \A s \in Slots \ LostReports : job[s] = "failed" /\ s \notin silent => events[s] # <<>>

\* What ADR-0018 asks for of every failure: the code does not (ThrowsAround).
EveryFailureIsReported ==
  \A s \in Slots \ LostReports : job[s] = "failed" => events[s] # <<>>

\* A job is announced as failed at most once, whatever is retried or reclaimed.
ReportedOnce == \A s \in Slots : Len(events[s]) <= 1

\* The batch has room for s, whatever the order of what starts with it.
InReach(s) ==
  Cardinality({r \in Untested : Order[r] <= Order[s]} \cup {s}) <= ScanLimit

\* A test that stays due, with the switch on and with room in the batch, gets
\* generated or given up.
DueTestsSettle ==
  \A s \in Slots :
    <>[](due[s] /\ switchOn[s.org] /\ InReach(s))
      => <>(tests[s] > 0 \/ job[s] = "failed")

\* Without the room it may not: earlier sessions without a test keep it from the
\* scan for as long as they are due.
EveryDueTestSettles ==
  \A s \in Slots :
    <>[](due[s] /\ switchOn[s.org]) => <>(tests[s] > 0 \/ job[s] = "failed")
=============================================================================
