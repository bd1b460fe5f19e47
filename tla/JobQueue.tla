------------------------------ MODULE JobQueue ------------------------------
(***************************************************************************)
(* The PostgreSQL job queue (packages/db/src/queue.ts) and the worker loop  *)
(* that drains it (apps/worker/src/loop.ts, main.ts): claiming with         *)
(* FOR UPDATE SKIP LOCKED, leases and the lease keeper, completion, retry,  *)
(* deferral, dead-lettering, graceful shutdown, crashes, kill switches and  *)
(* the operator's requeue commands.                                         *)
(*                                                                          *)
(* A row's lease_expires_at and run_at are kept as the two facts the code   *)
(* compares them for: leaseLive[j] is lease_expires_at >= now() and due[j]  *)
(* is run_at <= now().  Time passes in LeaseLapses and BecomesDue.          *)
(***************************************************************************)
EXTENDS Naturals, FiniteSets

CONSTANTS
  Jobs,         \* job rows, one per (topic, idempotency key)
  Workers,      \* worker processes
  NoWorker,     \* worker_id is null
  Orgs,         \* organizations
  Org,          \* Org[j]: the job's organization, or SystemOrg
  SystemOrg,    \* organization_id is null
  Priority,     \* Priority[j]: lower runs first
  Switchable,   \* jobs whose topic is bound to a kill switch
  MaxAttempts,  \* jobs.max_attempts
  Limit,        \* WORKER_CONCURRENCY, the limit of one claim
  MaxPerOrg,    \* the claim's per-organization limit
  MaxCopies,    \* bound: executions of one job that one worker holds at once
  FaultBudget,  \* bound: how many faults and operator interventions happen
  Lapsing       \* jobs whose lease may lapse although their worker runs: their
                \* keeper is not heard for as long as a lease, 300 s

ASSUME JobQueueAssumption ==
  /\ Org \in [Jobs -> Orgs \cup {SystemOrg}]
  /\ SystemOrg \notin Orgs
  /\ NoWorker \notin Workers
  /\ Priority \in [Jobs -> Nat]
  /\ Switchable \subseteq Jobs
  /\ MaxAttempts \in Nat \ {0}
  /\ Limit \in Nat \ {0}
  /\ MaxPerOrg \in Nat \ {0}
  /\ MaxCopies \in Nat \ {0}
  /\ FaultBudget \in Nat
  /\ Lapsing \subseteq Jobs

ASSUME FiniteJobs == IsFiniteSet(Jobs)

VARIABLES
  status,     \* jobs.status, "absent" before the row is inserted
  attempts,   \* jobs.attempts
  owner,      \* jobs.worker_id
  leaseLive,  \* lease_expires_at >= now()
  due,        \* run_at <= now()
  pc,         \* where each worker's loop is
  stopping,   \* workers that received SIGTERM (shuttingDown)
  gateShut,   \* workers that read "globally off" before claiming
  locked,     \* locked[w]: candidate rows locked by w's open claim
  picked,     \* picked[w]: the rows w's claim takes, its batch until it ends
  phase,      \* phase[w][j][c]: what w is doing with its c-th copy of job j
  seen,       \* seen[w][j][c]: the attempts value in that copy
  lost,       \* lost[w][j]: the copies whose keeper.lost is set
  switch,     \* the kill switch over the Switchable topics
  faults      \* faults and interventions so far

jobVars    == <<status, attempts, owner, leaseLive, due>>
claimVars  == <<gateShut, locked, picked>>
runVars    == <<phase, seen, lost>>
workerVars == <<pc, stopping>>
vars == <<jobVars, claimVars, runVars, workerVars, switch, faults>>

JobStatus == {"absent", "queued", "running", "retry_scheduled",
              "succeeded", "failed_final", "dead_lettered"}
Settled   == {"succeeded", "failed_final", "dead_lettered"}
PCs       == {"down", "top", "round", "claim", "commit", "executing"}
Phases    == {"idle", "claimed", "working",
              "completing", "deferring", "failing", "refusing",
              "unheard",    \* the result is applied, its reply has not come
              "repeating"}  \* and the catch records a failure after it
Switches  == {"on", "org_off", "off"}

\* A worker's copies of a job, newest first: a round that was abandoned leaves
\* handlers behind, and the same worker may claim their jobs again.
Copies == 1..MaxCopies

NoPhases == [j \in Jobs |-> [c \in Copies |-> "idle"]]
NoneSeen == [j \in Jobs |-> [c \in Copies |-> 0]]
NoneLost == [j \in Jobs |-> {}]

TypeOK ==
  /\ status \in [Jobs -> JobStatus]
  /\ attempts \in [Jobs -> Nat]
  /\ owner \in [Jobs -> Workers \cup {NoWorker}]
  /\ leaseLive \in [Jobs -> BOOLEAN]
  /\ due \in [Jobs -> BOOLEAN]
  /\ pc \in [Workers -> PCs]
  /\ stopping \in SUBSET Workers
  /\ gateShut \in SUBSET Workers
  /\ locked \in [Workers -> SUBSET Jobs]
  /\ picked \in [Workers -> SUBSET Jobs]
  /\ phase \in [Workers -> [Jobs -> [Copies -> Phases]]]
  /\ seen \in [Workers -> [Jobs -> [Copies -> Nat]]]
  /\ lost \in [Workers -> [Jobs -> SUBSET Copies]]
  /\ switch \in Switches
  /\ faults \in Nat

Init ==
  /\ status = [j \in Jobs |-> "absent"]
  /\ attempts = [j \in Jobs |-> 0]
  /\ owner = [j \in Jobs |-> NoWorker]
  /\ leaseLive = [j \in Jobs |-> FALSE]
  /\ due = [j \in Jobs |-> FALSE]
  /\ pc = [w \in Workers |-> "top"]
  /\ stopping = {}
  /\ gateShut = {}
  /\ locked = [w \in Workers |-> {}]
  /\ picked = [w \in Workers |-> {}]
  /\ phase = [w \in Workers |-> NoPhases]
  /\ seen = [w \in Workers |-> NoneSeen]
  /\ lost = [w \in Workers |-> NoneLost]
  /\ switch = "on"
  /\ faults = 0

-----------------------------------------------------------------------------
\* Every fault or intervention of the environment draws on one budget.
Fault == faults < FaultBudget /\ faults' = faults + 1

\* What w does with the copies of its current round.
Executing(w) == {j \in Jobs : phase[w][j][1] # "idle"}

\* Nothing comes of this copy any more: the handler has ended, and the catch
\* will find keeper.lost set.
Over(w, j, c) ==
  \/ phase[w][j][c] = "idle"
  \/ phase[w][j][c] = "unheard" /\ c \in lost[w][j]

\* A worker whose result was applied has not yet learnt of it, or is about to
\* record a failure after it.
Unheard(j) ==
  \E w \in Workers, c \in Copies :
    phase[w][j][c] \in {"unheard", "repeating"} /\ ~Over(w, j, c)

\* The jobs row is written by a statement outside a claim: it waits for the
\* row lock of an open claim, so it happens when the row is not locked.
RowFree(j) == \A w \in Workers : j \notin locked[w]

Waiting(j)     == status[j] \in {"queued", "retry_scheduled"}
Recoverable(j) == status[j] = "running" /\ ~leaseLive[j]

\* Inserts the row; a second insert with the same idempotency key is a
\* stutter.  run_at comes from the client's clock and may lie ahead of now().
EnqueueJob(j) ==
  /\ status[j] = "absent"
  /\ status' = [status EXCEPT ![j] = "queued"]
  /\ \E b \in BOOLEAN : due' = [due EXCEPT ![j] = b]
  /\ UNCHANGED <<attempts, owner, leaseLive, claimVars, runVars, workerVars,
                 switch, faults>>

\* A deferral lasts as long as a lease, so its worker has heard of it or lost
\* the row by then, unless it stalls.
BecomesDue(j) ==
  /\ Waiting(j)
  /\ ~due[j]
  /\ IF Unheard(j) THEN j \in Lapsing /\ Fault ELSE UNCHANGED faults
  /\ due' = [due EXCEPT ![j] = TRUE]
  /\ UNCHANGED <<status, attempts, owner, leaseLive, claimVars, runVars,
                 workerVars, switch>>

-----------------------------------------------------------------------------
(* The worker loop. *)

\* The process ends, and all handlers in it.
Forgets(w) ==
  /\ phase' = [phase EXCEPT ![w] = NoPhases]
  /\ seen' = [seen EXCEPT ![w] = NoneSeen]
  /\ lost' = [lost EXCEPT ![w] = NoneLost]

\* while (!shuttingDown): a new round, or the orderly exit.
LoopTop(w) ==
  /\ pc[w] = "top"
  /\ IF w \in stopping
     THEN pc' = [pc EXCEPT ![w] = "down"] /\ Forgets(w)
     ELSE pc' = [pc EXCEPT ![w] = "round"] /\ UNCHANGED runVars
  /\ UNCHANGED <<jobVars, claimVars, stopping, switch, faults>>

\* The kill-switch gate is read before the claim and used after it.
ReadSwitches(w) ==
  /\ pc[w] = "round"
  /\ pc' = [pc EXCEPT ![w] = "claim"]
  /\ gateShut' = IF switch = "off" THEN gateShut \cup {w} ELSE gateShut \ {w}
  /\ UNCHANGED <<jobVars, locked, picked, runVars, stopping, switch, faults>>

\* The topics this claim asks for.  A job that this very worker still executes
\* is not left out; the second conjunct is the bound on copies, not the code's.
Wanted(w, j) ==
  /\ w \in gateShut => j \notin Switchable
  /\ phase[w][j][MaxCopies] = "idle"

\* Variants with a bug, only to show that the properties notice: rows locked by
\* another claim are taken too; running rows are never taken over.
Claimable_NotSkipLocked(w, j) ==
  (Waiting(j) \/ Recoverable(j)) /\ due[j] /\ Wanted(w, j)
Claimable_NoRecovery(w, j) ==
  Waiting(j) /\ due[j] /\ RowFree(j) /\ Wanted(w, j)

\* A row this worker may take: queued, due for retry, or its lease ran out.
Claimable(w, j) ==
  (Waiting(j) \/ Recoverable(j)) /\ due[j] /\ RowFree(j) /\ Wanted(w, j)

RunningOf(o) ==
  {j \in Jobs : Org[j] = o /\ status[j] = "running" /\ leaseLive[j]}

\* C is the first 3 * Limit claimable rows in some order that respects
\* priority: order by priority, run_at, id limit 3 * limit.
IsCandidateSet(w, C) ==
  LET all == {j \in Jobs : Claimable(w, j)} IN
  /\ C \subseteq all
  /\ Cardinality(C) <= 3 * Limit
  /\ C # all => Cardinality(C) = 3 * Limit
  /\ \A j \in C, k \in all \ C : Priority[j] <= Priority[k]

\* S is what the selection loop keeps of C: in that order, skipping a job
\* whose organization is at its limit, until Limit jobs are selected.
IsSelection(C, S) ==
  LET full(o) == Cardinality(RunningOf(o))
                   + Cardinality({j \in S : Org[j] = o}) >= MaxPerOrg
      new(o)  == Cardinality({j \in S : Org[j] = o})
  IN
  /\ S \subseteq C
  /\ Cardinality(S) <= Limit
  /\ \A o \in Orgs : new(o) > 0 => Cardinality(RunningOf(o)) + new(o) <= MaxPerOrg
  /\ \A j \in C \ S :
       \/ Cardinality(S) = Limit /\ \A k \in S : Priority[k] <= Priority[j]
       \/ /\ Org[j] # SystemOrg
          /\ full(Org[j])
          /\ \A k \in S : Org[k] = Org[j] => Priority[k] <= Priority[j]

\* First half of claimJobs' transaction: lock the candidates, count what
\* runs now in each organization, select.  An uncommitted claim of another
\* worker is not seen by the count.  Without a candidate the round is over.
ClaimSelect(w) ==
  /\ pc[w] = "claim"
  /\ \E C \in SUBSET {j \in Jobs : Claimable(w, j)} :
       /\ IsCandidateSet(w, C)
       /\ \E S \in SUBSET C :
            /\ IsSelection(C, S)
            /\ locked' = [locked EXCEPT ![w] = C]
            /\ picked' = [picked EXCEPT ![w] = S]
       /\ pc' = [pc EXCEPT ![w] = IF C = {} THEN "top" ELSE "commit"]
  /\ gateShut' = gateShut \ {w}
  /\ UNCHANGED <<jobVars, runVars, stopping, switch, faults>>

\* The copy handed to the handler was read before the increment.
ClaimedAttempts_Incremented(j) == attempts[j] + 1 \* variant
ClaimedAttempts(j) == attempts[j]

\* The rows of a claim as its commit leaves them.
MarkRunning(w) ==
  /\ status' = [j \in Jobs |-> IF j \in picked[w] THEN "running" ELSE status[j]]
  /\ attempts' = [j \in Jobs |-> IF j \in picked[w] THEN attempts[j] + 1
                                                    ELSE attempts[j]]
  /\ owner' = [j \in Jobs |-> IF j \in picked[w] THEN w ELSE owner[j]]
  /\ leaseLive' = [j \in Jobs |-> j \in picked[w] \/ leaseLive[j]]
  /\ locked' = [locked EXCEPT ![w] = {}]
  /\ UNCHANGED <<due, gateShut, stopping, switch>>

\* A copy in phase p comes before the older ones.
Newest(f, x) == [c \in Copies |-> IF c = 1 THEN x ELSE f[c - 1]]
NewCopies(w, p) ==
  /\ phase' = [phase EXCEPT ![w] =
       [j \in Jobs |-> IF j \in picked[w] THEN Newest(@[j], p) ELSE @[j]]]
  /\ seen' = [seen EXCEPT ![w] =
       [j \in Jobs |-> IF j \in picked[w] THEN Newest(@[j], ClaimedAttempts(j)) ELSE @[j]]]
  /\ lost' = [lost EXCEPT ![w] =
       [j \in Jobs |-> IF j \in picked[w] THEN {c \in Copies \ {1} : c - 1 \in @[j]}
                                        ELSE @[j]]]

EndRound(w) ==
  /\ pc' = [pc EXCEPT ![w] = "top"]
  /\ picked' = [picked EXCEPT ![w] = {}]

\* Second half: mark the selected rows running, commit, start the handlers.
ClaimCommit(w) ==
  /\ pc[w] = "commit"
  /\ MarkRunning(w)
  /\ NewCopies(w, "claimed")
  /\ pc' = [pc EXCEPT ![w] = "executing"]
  /\ UNCHANGED <<picked, faults>>

\* claimJobs throws: it is rolled back, or it was committed unheard and rows
\* are running that nobody executes.
ClaimThrows(w) ==
  /\ pc[w] = "commit"
  /\ Fault
  /\ EndRound(w)
  /\ \/ /\ locked' = [locked EXCEPT ![w] = {}]
        /\ UNCHANGED <<jobVars, runVars, gateShut, stopping, switch>>
     \/ MarkRunning(w) /\ NewCopies(w, "idle")

-----------------------------------------------------------------------------
(* One execution of a claimed job inside a worker. *)

\* The copy moves on; nothing is kept of one that is done.
Advance(w, j, c, p) ==
  /\ phase' = [phase EXCEPT ![w][j][c] = p]
  /\ seen' = IF p = "idle" THEN [seen EXCEPT ![w][j][c] = 0] ELSE seen
  /\ lost' = IF p = "idle" THEN [lost EXCEPT ![w][j] = @ \ {c}] ELSE lost

\* The handler first asks isFeatureEnabled; a switched-off organization (or
\* a switch thrown after the claim) makes it answer with a defer signal.
HandlerStarts(w, j, c) ==
  /\ phase[w][j][c] = "claimed"
  /\ Advance(w, j, c, IF j \notin Switchable \/ switch = "on" THEN "working"
                      ELSE IF c \in lost[w][j] THEN "idle" ELSE "deferring")
  /\ UNCHANGED <<jobVars, claimVars, workerVars, switch, faults>>

\* The handler returns or throws.  With keeper.lost set nothing is written.
HandlerEnds(w, j, c) ==
  /\ phase[w][j][c] = "working"
  /\ IF c \in lost[w][j] THEN Advance(w, j, c, "idle")
     ELSE \E p \in {"completing", "failing", "refusing"} : Advance(w, j, c, p)
  /\ UNCHANGED <<jobVars, claimVars, workerVars, switch, faults>>

\* The handler stores progress; the statement names the job by id only and
\* pushes lease_expires_at by a minute, which may revive a lapsed lease.
CheckpointJob(w, j, c) ==
  /\ phase[w][j][c] = "working"
  /\ RowFree(j)
  /\ owner[j] # NoWorker
  /\ \E b \in {leaseLive[j], TRUE} : leaseLive' = [leaseLive EXCEPT ![j] = b]
  /\ UNCHANGED <<status, attempts, owner, due, claimVars, runVars, workerVars,
                 switch, faults>>

\* A keeper tick that finds the lease gone.  (A tick that still holds the
\* lease changes neither leaseLive nor lost.)
RenewFails(w, j, c) ==
  /\ phase[w][j][c] # "idle"
  /\ RowFree(j)
  /\ ~(owner[j] = w /\ status[j] = "running" /\ leaseLive[j])
  /\ c \notin lost[w][j]
  /\ lost' = [lost EXCEPT ![w][j] = @ \cup {c}]
  /\ UNCHANGED <<jobVars, claimVars, workerVars, phase, seen, switch, faults>>

\* completeJob, deferJob and failJob name the row by id only.
CompleteJob(w, j, c) ==
  /\ phase[w][j][c] = "completing"
  /\ status' = [status EXCEPT ![j] = "succeeded"]
  /\ UNCHANGED <<attempts, due>>

\* greatest(attempts - 1, 0)
UndoAttempt(n) == IF n = 0 THEN 0 ELSE n - 1

DeferJob(w, j, c) ==
  /\ phase[w][j][c] = "deferring"
  /\ status' = [status EXCEPT ![j] = "retry_scheduled"]
  /\ attempts' = [attempts EXCEPT ![j] = UndoAttempt(@)]
  /\ due' = [due EXCEPT ![j] = FALSE]

\* failJob compares the limit with the claimed copy.
AtLimit(w, j, c) == seen[w][j][c] >= MaxAttempts

\* failJob(retryable = true).  Full jitter may give a delay of zero.
FailRetryable(w, j, c) ==
  /\ phase[w][j][c] \in {"failing", "repeating"}
  /\ IF AtLimit(w, j, c)
     THEN status' = [status EXCEPT ![j] = "dead_lettered"] /\ UNCHANGED due
     ELSE /\ status' = [status EXCEPT ![j] = "retry_scheduled"]
          /\ \E b \in BOOLEAN : due' = [due EXCEPT ![j] = b]
  /\ UNCHANGED attempts

FailFinal(w, j, c) ==
  /\ phase[w][j][c] = "refusing"
  /\ status' = [status EXCEPT ![j] = "failed_final"]
  /\ UNCHANGED <<attempts, due>>

\* One of these statements is applied.
ResultWrite(w, j, c) ==
  /\ \/ CompleteJob(w, j, c) \/ DeferJob(w, j, c)
     \/ FailRetryable(w, j, c) \/ FailFinal(w, j, c)
  /\ RowFree(j)
  /\ UNCHANGED <<owner, leaseLive, gateShut, locked, stopping, switch>>

\* It is applied and the worker hears of it.
ResultRecorded(w, j, c) ==
  /\ ResultWrite(w, j, c)
  /\ Advance(w, j, c, "idle")
  /\ UNCHANGED <<pc, picked, faults>>

\* The statement throws.  completeJob and deferJob stand inside the try, so
\* their error reaches the catch (afterwards); failJob stands in the catch, so
\* its error abandons the round while the batch's other jobs go on.
Throws(w, j, c, afterwards) ==
  \/ /\ phase[w][j][c] \in {"completing", "deferring"}
     /\ Advance(w, j, c, afterwards)
     /\ UNCHANGED <<pc, picked>>
  \/ /\ phase[w][j][c] \in {"failing", "refusing", "repeating"}
     /\ Advance(w, j, c, "idle")
     /\ IF c = 1 /\ j \in picked[w] /\ pc[w] = "executing"
        THEN EndRound(w) ELSE UNCHANGED <<pc, picked>>

\* It was not applied: the catch records a retryable failure, or, with
\* keeper.lost set, nothing.
ResultWriteThrows(w, j, c) ==
  /\ Fault
  /\ Throws(w, j, c, IF c \in lost[w][j] THEN "idle" ELSE "failing")
  /\ UNCHANGED <<jobVars, gateShut, locked, stopping, switch>>

\* It was applied and the reply is lost.
ResultUnheard(w, j, c) ==
  /\ Fault
  /\ ResultWrite(w, j, c)
  /\ Throws(w, j, c, "unheard")

ReplyIsLost_Unchecked(w, j, c) == \* variant: the catch does not ask the keeper
  /\ phase[w][j][c] = "unheard"
  /\ Advance(w, j, c, "repeating")
  /\ UNCHANGED <<jobVars, claimVars, workerVars, switch, faults>>

\* The worker's statement throws at last, and the catch takes a result that
\* was recorded for a failure, unless a keeper tick came before.
ReplyIsLost(w, j, c) ==
  /\ phase[w][j][c] = "unheard"
  /\ Advance(w, j, c, IF c \in lost[w][j] THEN "idle" ELSE "repeating")
  /\ UNCHANGED <<jobVars, claimVars, workerVars, switch, faults>>

\* Promise.all over the batch is over.
RoundEnds(w) ==
  /\ pc[w] = "executing"
  /\ picked[w] \cap Executing(w) = {}
  /\ EndRound(w)
  /\ UNCHANGED <<jobVars, gateShut, locked, runVars, stopping, switch, faults>>

-----------------------------------------------------------------------------
(* Faults, time and operators. *)

\* The lease of a running row runs out: no keeper renews it any more, or (if
\* j is one of Lapsing) its worker stalled for longer than the lease.
Abandoned(j) ==
  \A w \in Workers, c \in Copies :
    owner[j] = w => phase[w][j][c] = "idle" \/ c \in lost[w][j]

LeaseLapses(j) ==
  /\ status[j] = "running"
  /\ leaseLive[j]
  /\ IF Abandoned(j) THEN UNCHANGED faults ELSE j \in Lapsing /\ Fault
  /\ leaseLive' = [leaseLive EXCEPT ![j] = FALSE]
  /\ UNCHANGED <<status, attempts, owner, due, claimVars, runVars, workerVars,
                 switch>>

\* The process dies (kill, grace period over, second signal): its claim
\* rolls back and its handlers are gone.
Crash(w) ==
  /\ pc[w] # "down"
  /\ Fault
  /\ pc' = [pc EXCEPT ![w] = "down"]
  /\ locked' = [locked EXCEPT ![w] = {}]
  /\ picked' = [picked EXCEPT ![w] = {}]
  /\ Forgets(w)
  /\ UNCHANGED <<jobVars, gateShut, stopping, switch>>

\* The supervisor starts a fresh process in the worker's place.
Restart(w) ==
  /\ pc[w] = "down"
  /\ pc' = [pc EXCEPT ![w] = "top"]
  /\ stopping' = stopping \ {w}
  /\ UNCHANGED <<jobVars, claimVars, runVars, switch, faults>>

RequestShutdown(w) ==
  /\ pc[w] # "down"
  /\ w \notin stopping
  /\ Fault
  /\ stopping' = stopping \cup {w}
  /\ UNCHANGED <<jobVars, claimVars, runVars, pc, switch>>

\* An operator throws or releases the kill switch.
SetSwitch(s) ==
  /\ s # switch
  /\ Fault
  /\ switch' = s
  /\ UNCHANGED <<jobVars, claimVars, runVars, workerVars>>

\* The row becomes a fresh one.
Revive(j) ==
  /\ status' = [status EXCEPT ![j] = "queued"]
  /\ attempts' = [attempts EXCEPT ![j] = 0]
  /\ owner' = [owner EXCEPT ![j] = NoWorker]
  /\ leaseLive' = [leaseLive EXCEPT ![j] = FALSE]

\* pnpm requeue-dlq: dead letters only, with a jittered run_at.
RequeueDeadLetter(j) ==
  /\ status[j] = "dead_lettered"
  /\ Fault
  /\ Revive(j)
  /\ \E b \in BOOLEAN : due' = [due EXCEPT ![j] = b]
  /\ UNCHANGED <<claimVars, runVars, workerVars, switch>>

\* Variant: a generation that succeeded may be re-run as well.
FailedGeneration_Any(j) == status[j] \in Settled
FailedGeneration(j) == status[j] \in {"failed_final", "dead_lettered"}

\* A teacher re-runs a failed generation, dead-lettered or final, at once.
RetryAssessmentGeneration(j) ==
  /\ FailedGeneration(j)
  /\ Fault
  /\ Revive(j)
  /\ due' = [due EXCEPT ![j] = TRUE]
  /\ UNCHANGED <<claimVars, runVars, workerVars, switch>>

-----------------------------------------------------------------------------
WorkerStep(w) ==
  \/ LoopTop(w) \/ ReadSwitches(w) \/ ClaimSelect(w) \/ ClaimCommit(w)
  \/ RoundEnds(w) \/ Restart(w)

JobStep(w, j, c) ==
  \/ HandlerStarts(w, j, c) \/ HandlerEnds(w, j, c) \/ ResultRecorded(w, j, c)
  \/ ReplyIsLost(w, j, c)

Next ==
  \/ \E j \in Jobs : \/ EnqueueJob(j) \/ BecomesDue(j) \/ LeaseLapses(j)
                     \/ RequeueDeadLetter(j) \/ RetryAssessmentGeneration(j)
  \/ \E w \in Workers : \/ WorkerStep(w) \/ ClaimThrows(w) \/ Crash(w)
                        \/ RequestShutdown(w)
  \/ \E w \in Workers, j \in Jobs, c \in Copies :
       \/ JobStep(w, j, c) \/ CheckpointJob(w, j, c) \/ RenewFails(w, j, c)
       \/ ResultWriteThrows(w, j, c) \/ ResultUnheard(w, j, c)
  \/ \E s \in Switches : SetSwitch(s)

Spec == Init /\ [][Next]_vars

\* The loop keeps polling, handlers and statements end, the supervisor restarts
\* a worker, clocks advance and an abandoned lease runs out.
Fairness ==
  /\ \A w \in Workers : WF_vars(WorkerStep(w))
  /\ \A w \in Workers, j \in Jobs, c \in Copies : WF_vars(JobStep(w, j, c))
  /\ \A j \in Jobs : /\ WF_vars(~Unheard(j) /\ BecomesDue(j))
                     /\ WF_vars(Abandoned(j) /\ LeaseLapses(j))

FairSpec == Spec /\ Fairness

-----------------------------------------------------------------------------
(* Properties. *)

\* A job is never executed twice at once, by two workers or in one: claims
\* exclude each other through row locks, and a live worker keeps its lease
\* (startLeaseKeeper) or knows that it has lost it.
ExclusiveExecution ==
  \A j \in Jobs \ Lapsing, v, w \in Workers, c, d \in Copies :
    ~Over(v, j, c) /\ ~Over(w, j, d) => v = w /\ c = d

\* A result never lands on another worker's row (loop.ts: once the lease is lost
\* neither success nor failure is written): its row is running and its own, or
\* still as the execution's own result left it, when the reply to that one was
\* lost and loop.ts:191 records a failure over it.
NoStaleWrite ==
  [][\A w \in Workers, j \in Jobs \ Lapsing, c \in Copies : ResultWrite(w, j, c) =>
       /\ owner[j] = w
       /\ \/ status[j] = "running"
          \/ /\ phase[w][j][c] = "repeating"
             /\ status[j] \in {"succeeded", "retry_scheduled"}]_vars

\* What queue.ts:635 asks for of every job, lapsing leases or not: the code
\* checks keeper.lost only after the handler, and writes by id.
OnlyOwnersWrite ==
  [][\A w \in Workers, j \in Jobs, c \in Copies :
       ResultWrite(w, j, c) => owner[j] = w]_vars

\* A worker records a failure over its own completeJob, of which it has not heard.
Unsettles(w, j, c) ==
  /\ phase[w][j][c] = "repeating" /\ phase'[w][j][c] = "idle"
  /\ owner[j] = w
  /\ status[j] = "succeeded"
  /\ status'[j] \in {"retry_scheduled", "dead_lettered"}

\* A settled job is taken up again only when an operator re-queues it, and a
\* succeeded one never (state-machines.md section 11), except by its own worker
\* that has not heard of the success.
SettledIsFinal ==
  [][\A j \in Jobs \ Lapsing : status[j] \in Settled /\ status'[j] # status[j] =>
       \/ status[j] # "succeeded" /\ status'[j] = "queued"
       \/ \E w \in Workers, c \in Copies : Unsettles(w, j, c)]_vars

\* What state-machines.md:435 says, without the exception: the code does not.
SucceededStays ==
  [][\A j \in Jobs : status[j] = "succeeded" => status'[j] = "succeeded"]_vars

\* While a worker owns a running row, the attempts in its newest copy is the
\* row's value before its own last claim, whatever other workers, and its own
\* older copies, did in between (failJob compares that with max_attempts).
AttemptsMatchClaim ==
  \A w \in Workers, j \in Jobs :
    status[j] = "running" /\ owner[j] = w /\ phase[w][j][1] # "idle"
      => attempts[j] = seen[w][j][1] + 1

\* Rows locked by an open claim belong to it alone and are still claimable
\* when it marks them running (FOR UPDATE SKIP LOCKED).
OpenClaimsAreCurrent ==
  \A w \in Workers : pc[w] = "commit" =>
    \A j \in picked[w] :
      /\ j \in locked[w]
      /\ \A v \in Workers \ {w} : j \notin locked[v]
      /\ due[j]
      /\ Waiting(j) \/ Recoverable(j)

\* Every enqueued job settles once the switch stays on: no crash, lost lease or
\* reply, deferral or write failure leaves a row that nobody takes up again.
EveryJobSettles ==
  <>[](switch = "on") =>
    \A j \in Jobs : status[j] # "absent" ~> status[j] \in Settled
=============================================================================
