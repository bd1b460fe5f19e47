--------------------------- MODULE EventConsumer ---------------------------
(***************************************************************************)
(* The job handlers that consume events (apps/worker/src/handlers): the     *)
(* inbox mark, the work they do per group or recipient, and the checkpoint  *)
(* of the schedule recalculation.                                           *)
(*                                                                          *)
(* The queue appears as what a handler sees of it: a job is claimed, its    *)
(* run ends or is cut off, it is claimed again.  JobQueue models the rest.  *)
(* An event has one job per consumer, and no event is routed to both topics *)
(* that share an inbox name, so the inbox is kept as a set of jobs.         *)
(***************************************************************************)
EXTENDS Naturals, FiniteSets

CONSTANTS
  Jobs,        \* event jobs
  Kind,        \* Kind[j]: the handler of j's topic
  Targets,     \* Targets[j]: groups to reschedule or recipients to notify
  Workers,     \* worker processes, one run each
  NoWorker,    \* a value that is no worker
  FaultBudget, \* bound: how many faults and operator interventions happen
  Stalling     \* jobs that can lose their lease while a live worker runs them

Kinds == {"recalculate", "learner", "notification", "impact"}

ASSUME ConsumerAssumption ==
  /\ Jobs # {}
  /\ Kind \in [Jobs -> Kinds]
  /\ \A j \in Jobs : IsFiniteSet(Targets[j])
  /\ NoWorker \notin Workers
  /\ FaultBudget \in Nat
  /\ Stalling \subseteq Jobs

VARIABLES
  jobState,   \* "lapsed" is running with an expired lease
  holder,     \* jobs.worker_id while running
  checkpoint, \* jobs.checkpoint's doneGroupIds, {} for none
  inbox,      \* jobs whose (consumer, event) is in inbox_events
  effects,    \* effects[j][t]: how often j's work was done for t
  switchOn,   \* the auto_reschedule kill switch
  phase,      \* phase[w]: what w's handler does next
  job,        \* job[w]: the job w runs
  resumed,    \* resumed[w]: the checkpoint w's claim returned
  done,       \* done[w]: targets w's run has behind it
  faults      \* faults and interventions so far

vars == <<jobState, holder, checkpoint, inbox, effects, switchOn,
          phase, job, resumed, done, faults>>
runVars == <<phase, job, resumed, done>>

AllTargets == UNION {Targets[j] : j \in Jobs}
SomeJob == CHOOSE j \in Jobs : TRUE

TypeOK ==
  /\ jobState \in [Jobs -> {"queued", "running", "lapsed", "succeeded", "dead"}]
  /\ holder \in [Jobs -> Workers \cup {NoWorker}]
  /\ checkpoint \in [Jobs -> SUBSET AllTargets]
  /\ inbox \subseteq Jobs
  /\ effects \in [Jobs -> [AllTargets -> Nat]]
  /\ switchOn \in BOOLEAN
  /\ phase \in [Workers -> {"idle", "gate", "mark", "work", "save", "return"}]
  /\ job \in [Workers -> Jobs]
  /\ resumed \in [Workers -> SUBSET AllTargets]
  /\ done \in [Workers -> SUBSET AllTargets]
  /\ faults \in Nat

Init ==
  /\ jobState = [j \in Jobs |-> "queued"]
  /\ holder = [j \in Jobs |-> NoWorker]
  /\ checkpoint = [j \in Jobs |-> {}]
  /\ inbox = {}
  /\ effects = [j \in Jobs |-> [t \in AllTargets |-> 0]]
  /\ switchOn = TRUE
  /\ phase = [w \in Workers |-> "idle"]
  /\ job = [w \in Workers |-> SomeJob]
  /\ resumed = [w \in Workers |-> {}]
  /\ done = [w \in Workers |-> {}]
  /\ faults = 0

Fault == faults < FaultBudget /\ faults' = faults + 1

-----------------------------------------------------------------------------
(* The queue around a handler. *)

\* The kinds whose handler reads the auto_reschedule switch first.
Gated(j) == Kind[j] \in {"recalculate", "learner"}

Runs(w, j) == phase[w] # "idle" /\ job[w] = j

Claim(w, j) ==
  /\ phase[w] = "idle"
  /\ jobState[j] \in {"queued", "lapsed"}
  /\ \A v \in Workers : Runs(v, j) => j \in Stalling
  /\ jobState' = [jobState EXCEPT ![j] = "running"]
  /\ holder' = [holder EXCEPT ![j] = w]
  /\ phase' = [phase EXCEPT ![w] = IF Gated(j) THEN "gate" ELSE "mark"]
  /\ job' = [job EXCEPT ![w] = j]
  /\ resumed' = [resumed EXCEPT ![w] = checkpoint[j]]
  /\ UNCHANGED <<checkpoint, inbox, effects, switchOn, done, faults>>

EndRun(w) ==
  /\ phase' = [phase EXCEPT ![w] = "idle"]
  /\ job' = [job EXCEPT ![w] = SomeJob]
  /\ resumed' = [resumed EXCEPT ![w] = {}]
  /\ done' = [done EXCEPT ![w] = {}]

\* Once the lease is lost the loop writes no result; a stalled one does not
\* know and writes it all the same.
Settle(w, states) ==
  \/ \E s \in states : jobState' = [jobState EXCEPT ![job[w]] = s]
  \/ holder[job[w]] # w /\ UNCHANGED jobState

\* The handler throws; the job is retried, or given up for good.
Throws_OtherEnum(w) == \* variant: a status of outbox_events
  /\ phase[w] # "idle"
  /\ Fault
  /\ Settle(w, {"queued", "failed"})
  /\ EndRun(w)
  /\ UNCHANGED <<holder, checkpoint, inbox, effects, switchOn>>
Throws(w) ==
  /\ phase[w] # "idle"
  /\ Fault
  /\ Settle(w, {"queued", "dead"})
  /\ EndRun(w)
  /\ UNCHANGED <<holder, checkpoint, inbox, effects, switchOn>>

\* The worker dies; what it committed stays.
Crash(w) ==
  /\ phase[w] # "idle"
  /\ Fault
  /\ EndRun(w)
  /\ UNCHANGED <<jobState, holder, checkpoint, inbox, effects, switchOn>>

LeaseLapses(j) ==
  /\ jobState[j] = "running"
  /\ \/ (\A w \in Workers : ~Runs(w, j)) /\ UNCHANGED faults
     \/ j \in Stalling /\ Fault
  /\ jobState' = [jobState EXCEPT ![j] = "lapsed"]
  /\ UNCHANGED <<holder, checkpoint, inbox, effects, switchOn, runVars>>

\* pnpm requeue-dead-letters: the same row again, its checkpoint kept.
Revive(j) ==
  /\ jobState[j] = "dead"
  /\ Fault
  /\ jobState' = [jobState EXCEPT ![j] = "queued"]
  /\ UNCHANGED <<holder, checkpoint, inbox, effects, switchOn, runVars>>

SetSwitch ==
  /\ switchOn' = ~switchOn
  /\ UNCHANGED <<jobState, holder, checkpoint, inbox, effects, runVars, faults>>

-----------------------------------------------------------------------------
(* The handlers. *)

Goto(w, p) == phase' = [phase EXCEPT ![w] = p]

\* The switch is read before the inbox is marked: a deferred job is not consumed.
ReadSwitch(w) ==
  /\ phase[w] = "gate"
  /\ switchOn
  /\ Goto(w, "mark")
  /\ UNCHANGED <<jobState, holder, checkpoint, inbox, effects, switchOn,
                 job, resumed, done, faults>>

\* Variant: the mark comes first.
Defers_AfterMark(w) ==
  /\ phase[w] = "gate"
  /\ ~switchOn
  /\ inbox' = inbox \cup {job[w]}
  /\ Settle(w, {"queued"})
  /\ EndRun(w)
  /\ UNCHANGED <<holder, checkpoint, effects, switchOn, faults>>
Defers(w) ==
  /\ phase[w] = "gate"
  /\ ~switchOn
  /\ Settle(w, {"queued"})
  /\ EndRun(w)
  /\ UNCHANGED <<holder, checkpoint, inbox, effects, switchOn, faults>>

\* A job whose event is already in the inbox is a duplicate, unless the claim
\* came with a checkpoint: then it is the same job being resumed.
Duplicate_Never(w) == FALSE \* variant
Duplicate_IgnoresCheckpoint(w) == job[w] \in inbox \* variant
Duplicate(w) ==
  job[w] \in inbox /\ (Kind[job[w]] = "recalculate" => resumed[w] = {})

\* Where a resumed run starts.
StartsWith_Nothing(w) == {} \* variant
StartsWith(w) == IF Kind[job[w]] = "recalculate" THEN resumed[w] ELSE {}

\* tryMarkInbox commits in a transaction of its own, before any work.
MarkInbox(w) ==
  /\ phase[w] = "mark"
  /\ inbox' = inbox \cup {job[w]}
  /\ IF Duplicate(w)
       THEN Goto(w, "return") /\ UNCHANGED done
       ELSE Goto(w, "work") /\ done' = [done EXCEPT ![w] = StartsWith(w)]
  /\ UNCHANGED <<jobState, holder, checkpoint, effects, switchOn,
                 job, resumed, faults>>

\* One group is rescheduled, one learner's schedule materialised or one
\* recipient notified, each committed on its own.
Work(w, t) ==
  /\ phase[w] = "work"
  /\ t \in Targets[job[w]] \ done[w]
  /\ effects' = [effects EXCEPT ![job[w]][t] = @ + 1]
  /\ done' = [done EXCEPT ![w] = @ \cup {t}]
  /\ Goto(w, IF Kind[job[w]] = "recalculate" THEN "save" ELSE "work")
  /\ UNCHANGED <<jobState, holder, checkpoint, inbox, switchOn,
                 job, resumed, faults>>

\* checkpointJob writes this run's list over whatever the row holds.
SaveCheckpoint(w) ==
  /\ phase[w] = "save"
  /\ checkpoint' = [checkpoint EXCEPT ![job[w]] = done[w]]
  /\ Goto(w, "work")
  /\ UNCHANGED <<jobState, holder, inbox, effects, switchOn,
                 job, resumed, done, faults>>

Returns(w) ==
  /\ \/ phase[w] = "return"
     \/ phase[w] = "work" /\ Targets[job[w]] \subseteq done[w]
  /\ Settle(w, {"succeeded"})
  /\ EndRun(w)
  /\ UNCHANGED <<holder, checkpoint, inbox, effects, switchOn, faults>>

HandlerStep(w) ==
  \/ ReadSwitch(w) \/ Defers(w) \/ MarkInbox(w) \/ SaveCheckpoint(w) \/ Returns(w)
  \/ \E t \in AllTargets : Work(w, t)

Next ==
  \/ \E w \in Workers : HandlerStep(w) \/ Throws(w) \/ Crash(w)
  \/ \E w \in Workers, j \in Jobs : Claim(w, j)
  \/ \E j \in Jobs : LeaseLapses(j) \/ Revive(j)
  \/ SetSwitch

Spec == Init /\ [][Next]_vars

\* Workers keep polling and leases expire.
Fairness ==
  /\ \A w \in Workers : WF_vars(HandlerStep(w))
  /\ \A j \in Jobs : SF_vars(\E w \in Workers : Claim(w, j))
  /\ \A j \in Jobs : WF_vars(LeaseLapses(j))

FairSpec == Spec /\ Fairness

-----------------------------------------------------------------------------
(* Properties. *)

Took(j) == \A t \in Targets[j] : effects[j][t] > 0

\* Whatever is retried, reclaimed, revived or run twice at once, nobody is
\* notified twice of one event and no learner is rescheduled twice for it.
AtMostOnce ==
  \A j \in Jobs : Kind[j] # "recalculate" =>
    \A t \in Targets[j] : effects[j][t] <= 1

\* A group that a checkpoint names is not rescheduled again for this event,
\* whatever cuts the run off, and no run takes it off the checkpoint.
CheckpointHonoured ==
  [][\A j \in Jobs \ Stalling : \A t \in checkpoint[j] :
       effects'[j][t] = effects[j][t] /\ t \in checkpoint'[j]]_vars

\* A recalculation that got as far as a checkpoint is finished before its job
\* succeeds: the inbox mark does not make the resumed run a duplicate.
ResumedWorkIsFinished ==
  \A j \in Jobs \ Stalling :
    jobState[j] = "succeeded" /\ checkpoint[j] # {} => Took(j)

\* Once the kill switch stays on a job is settled, however often it was
\* deferred before and whatever cut it off; without faults with its work done.
DeferredEventsRun ==
  <>[]switchOn => \A j \in Jobs :
    <>(/\ jobState[j] \in {"succeeded", "dead"}
       /\ faults = 0 => jobState[j] = "succeeded" /\ Took(j))

\* ADR-0006: delivery to consumers is at least once, the inbox row and the
\* work sharing a transaction, so a job only succeeds with its work done.
AtLeastOnce == \A j \in Jobs : jobState[j] = "succeeded" => Took(j)
=============================================================================
