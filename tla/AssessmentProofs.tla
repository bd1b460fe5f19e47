-------------------------- MODULE AssessmentProofs --------------------------
(***************************************************************************)
(* An assessment from its generation to its decisions.  What                *)
(* AssessmentGeneration does for every number of slots, workers, producers, *)
(* attempts and faults; then what Attempt does for any questions, any       *)
(* number of concurrent requests of the learner and of teachers, and any    *)
(* number of failures.                                                      *)
(***************************************************************************)
EXTENDS AssessmentGeneration, Attempt, TLAPS

-----------------------------------------------------------------------------
(* Generation *)

\* The unique index is enough: whatever races, no slot gets a second test.
THEOREM TestsAreUnique == GenSpec => []OneTestPerSlot
<1> DEFINE Inv == tests \in [Slots -> Nat] /\ slot \in [Actors -> Slots] /\ OneTestPerSlot
<1>1. GenInit => Inv
  <2> SUFFICES ASSUME GenInit PROVE Inv
    OBVIOUS
  <2>1. SomeSlot \in Slots
    BY GenerationAssumption DEF SomeSlot
  <2>2. QED
    BY <2>1 DEF GenInit, OneTestPerSlot
<1>2. Inv /\ [GenNext]_genVars => Inv'
  <2> SUFFICES ASSUME Inv, [GenNext]_genVars PROVE Inv'
    OBVIOUS
  <2> SomeSlot \in Slots
    BY GenerationAssumption DEF SomeSlot
  <2> USE DEF OneTestPerSlot
  <2>1. ASSUME NEW o \in Orgs, SetSwitch(o) PROVE Inv'
    BY <2>1 DEF SetSwitch, actorVars
  <2>2. ASSUME NEW s \in Slots,
               \/ SetDue(s)
               \/ RetryAssessmentGeneration(s)
               \/ \E c \in Causes \cup {"none"} : SetCause(s, c)
        PROVE  Inv'
    BY <2>2 DEF SetDue, RetryAssessmentGeneration, SetCause, actorVars
  <2>3. ASSUME NEW s \in Slots, TeacherGenerates(s) PROVE Inv'
    BY <2>3 DEF TeacherGenerates
  <2>4. ASSUME NEW s \in Slots, NEW w \in Workers, Claim(w, s) PROVE Inv'
    BY <2>4 DEF Claim
  <2>5. ASSUME NEW p \in Producers, ProducerStep(p) \/ ProducerThrows(p) PROVE Inv'
    BY <2>5 DEF ProducerStep, ProducerThrows, Scan, Enqueue, actorVars
  <2>6. ASSUME NEW a \in Actors, FindExisting(a) \/ Resolve(a) \/ Throws(a)
        PROVE  Inv'
    BY <2>6 DEF FindExisting, Resolve, Throws, Answers, GoIdle
  <2>7. ASSUME NEW a \in Actors, Publish(a) PROVE Inv'
    <3>1. slot' \in [Actors -> Slots]
      BY <2>7 DEF Publish, Answers, GoIdle
    <3>2. tests' \in [Slots -> Nat] /\ \A s \in Slots : tests'[s] <= 1
      BY <2>7 DEF Publish, Collides
    <3>3. QED
      BY <3>1, <3>2
  <2>8. ASSUME NEW w \in Workers,
               \/ ReadSwitch(w) \/ DeferJob(w) \/ CompleteJob(w) \/ ThrowsAround(w)
               \/ ReportFailure(w) \/ ReportIsLost(w) \/ FailJob(w) \/ Crash(w)
        PROVE  Inv'
    BY <2>8 DEF ReadSwitch, DeferJob, CompleteJob, ThrowsAround, ReportFailure,
                ReportIsLost, FailJob, Crash, GoIdle
  <2>9. CASE UNCHANGED genVars
    BY <2>9 DEF genVars, actorVars
  <2>10. QED
    BY <2>1, <2>2, <2>3, <2>4, <2>5, <2>6, <2>7, <2>8, <2>9
       DEF GenNext, WorkerStep, Actors
<1>3. QED
  BY <1>1, <1>2, PTL DEF GenSpec

LEMMA SomeSlotIsASlot == SomeSlot \in Slots
BY GenerationAssumption DEF SomeSlot

LEMMA WorkersAct == \A w \in Workers : w \in Actors /\ w # Teacher
BY GenerationAssumption DEF Actors

\* Types of the two halves of the state: the actors and the job rows.
ActorsTyped ==
  /\ phase \in [Actors -> Phases]
  /\ slot \in [Actors -> Slots]
  /\ attempt \in [Workers -> Nat]
  /\ why \in [Actors -> Reasons \cup {"none"}]
  /\ \A w \in Workers : phase[w] = "report" => why[w] \in Reasons

RowsTyped ==
  /\ cause \in [Slots -> Causes \cup {"none"}]
  /\ job \in [Slots -> JobStates]
  /\ attempts \in [Slots -> Nat]
  /\ events \in [Slots -> Seq(Reasons)]

LEMMA GoIdleTyped ==
  ASSUME ActorsTyped, NEW a \in Actors, GoIdle(a)
  PROVE  ActorsTyped'
<1>1. phase' \in [Actors -> Phases]
  BY DEF ActorsTyped, GoIdle, Phases
<1>1a. slot' \in [Actors -> Slots]
  BY SomeSlotIsASlot DEF ActorsTyped, GoIdle, Phases
<1>2. attempt' \in [Workers -> Nat]
  BY DEF ActorsTyped, GoIdle, Phases
<1>3. why' \in [Actors -> Reasons \cup {"none"}]
  BY DEF ActorsTyped, GoIdle, Phases
<1>4. \A w \in Workers : phase'[w] = "report" => why'[w] \in Reasons
  BY WorkersAct DEF ActorsTyped, GoIdle, Phases
<1>5. QED
  BY <1>1, <1>1a, <1>2, <1>3, <1>4 DEF ActorsTyped

LEMMA EntersTyped ==
  ASSUME ActorsTyped, NEW a \in Actors, NEW p \in Phases, Enters(a, p), p # "report",
         UNCHANGED <<slot, attempt, why>>
  PROVE  ActorsTyped'
BY WorkersAct DEF ActorsTyped, Enters, Phases

LEMMA ReportTyped ==
  ASSUME ActorsTyped, NEW a \in Actors, Enters(a, "report"), NEW c \in Reasons,
         why' = [why EXCEPT ![a] = c], UNCHANGED <<slot, attempt>>
  PROVE  ActorsTyped'
<1>1. phase' \in [Actors -> Phases]
  BY DEF ActorsTyped, Enters, Phases
<1>2. why' \in [Actors -> Reasons \cup {"none"}]
  BY DEF ActorsTyped
<1>3. \A w \in Workers : phase'[w] = "report" => why'[w] \in Reasons
  BY WorkersAct DEF ActorsTyped, Enters, Phases
<1>4. QED
  BY <1>1, <1>2, <1>3 DEF ActorsTyped

LEMMA FailedJobTyped ==
  ASSUME RowsTyped, NEW s \in Slots, NEW b, FailedJob(s, b), attempts' \in [Slots -> Nat],
         events' = events, cause' = cause
  PROVE  RowsTyped'
BY DEF RowsTyped, FailedJob, JobStates

LEMMA AfterDeferTyped ==
  ASSUME ActorsTyped, RowsTyped, NEW w \in Workers
  PROVE  /\ AttemptsAfterDefer(w) \in Nat
         /\ [attempts EXCEPT ![slot[w]] = AttemptsAfterDefer(w)] \in [Slots -> Nat]
<1>1. AttemptsAfterDefer(w) \in Nat
  BY WorkersAct DEF AttemptsAfterDefer, RowsTyped, ActorsTyped
<1>2. QED
  BY <1>1 DEF RowsTyped

\* Every step keeps the types: each moves its actor with GoIdle or Enters.
LEMMA TypedKept ==
  ASSUME ActorsTyped, RowsTyped, [GenNext]_genVars
  PROVE  ActorsTyped' /\ RowsTyped'
<1>1. ASSUME UNCHANGED genVars \/ \E o \in Orgs : SetSwitch(o)
      PROVE  ActorsTyped' /\ RowsTyped'
  <2>1. ActorsTyped'
    BY <1>1 DEF SetSwitch, genVars, ActorsTyped, actorVars
  <2>2. RowsTyped'
    BY <1>1 DEF SetSwitch, genVars, RowsTyped, jobVars
  <2>3. QED
    BY <2>1, <2>2
<1>2. ASSUME NEW s \in Slots, SetDue(s) \/ \E c \in Causes \cup {"none"} : SetCause(s, c)
      PROVE  ActorsTyped' /\ RowsTyped'
  <2>1. ActorsTyped'
    BY <1>2 DEF SetDue, SetCause, ActorsTyped, actorVars
  <2>2. CASE SetDue(s)
    BY <2>1, <2>2 DEF SetDue, RowsTyped, jobVars
  <2>3. ASSUME NEW c \in Causes \cup {"none"}, SetCause(s, c) PROVE RowsTyped'
    BY <2>3 DEF SetCause, RowsTyped, jobVars
  <2>4. QED
    BY <1>2, <2>1, <2>2, <2>3
<1>3. ASSUME NEW s \in Slots, RetryAssessmentGeneration(s)
      PROVE  ActorsTyped' /\ RowsTyped'
  BY <1>3 DEF RetryAssessmentGeneration, ActorsTyped, RowsTyped, actorVars, JobStates
<1>4. ASSUME NEW s \in Slots, TeacherGenerates(s) PROVE ActorsTyped' /\ RowsTyped'
  <2>1. ActorsTyped'
    BY <1>4, WorkersAct DEF TeacherGenerates, Enters, ActorsTyped, Phases
  <2>2. RowsTyped'
    BY <1>4 DEF TeacherGenerates, RowsTyped, jobVars
  <2>3. QED
    BY <2>1, <2>2
<1>5. ASSUME NEW s \in Slots, NEW w \in Workers, Claim(w, s)
      PROVE  ActorsTyped' /\ RowsTyped'
  <2>1. phase' \in [Actors -> Phases] /\ slot' \in [Actors -> Slots]
    BY <1>5, WorkersAct DEF Claim, Enters, ActorsTyped, Phases
  <2>2. attempt' \in [Workers -> Nat]
    BY <1>5 DEF Claim, ActorsTyped, RowsTyped
  <2>3. \A v \in Workers : phase'[v] = "report" => why'[v] \in Reasons
    BY <1>5, WorkersAct DEF Claim, Enters, ActorsTyped
  <2>4. ActorsTyped'
    BY <1>5, <2>1, <2>2, <2>3 DEF Claim, ActorsTyped
  <2>5. RowsTyped'
    BY <1>5 DEF Claim, RowsTyped, JobStates
  <2>6. QED
    BY <2>4, <2>5
<1>6. ASSUME NEW p \in Producers, ProducerStep(p) \/ ProducerThrows(p)
      PROVE  ActorsTyped' /\ RowsTyped'
  BY <1>6 DEF ProducerStep, ProducerThrows, Scan, Enqueue, ActorsTyped, RowsTyped, jobVars, actorVars, JobStates
<1>7. ASSUME NEW a \in Actors, FindExisting(a) \/ Publish(a)
      PROVE  ActorsTyped' /\ RowsTyped'
  <2>1. RowsTyped'
    BY <1>7 DEF FindExisting, Publish, RowsTyped, jobVars
  <2>2. CASE GoIdle(a)
    BY <2>1, <2>2, GoIdleTyped
  <2>3. CASE ~GoIdle(a)
    <3>1. PICK p \in {"complete", "resolve"} : Enters(a, p) /\ UNCHANGED <<slot, attempt, why>>
      BY <1>7, <2>3 DEF FindExisting, Publish, Answers
    <3>2. QED
      BY <2>1, <3>1, EntersTyped DEF Phases
  <2>4. QED
    BY <2>2, <2>3
<1>8. ASSUME NEW a \in Actors, Resolve(a) PROVE ActorsTyped' /\ RowsTyped'
  <2>1. RowsTyped'
    BY <1>8 DEF Resolve, RowsTyped, jobVars
  <2>2. CASE cause[slot[a]] = "none"
    BY <1>8, <2>1, <2>2, EntersTyped DEF Phases, Resolve
  <2>3. CASE cause[slot[a]] # "none" /\ a \in Workers
    <3>1. cause[slot[a]] \in Reasons
      BY <2>3 DEF RowsTyped, ActorsTyped, Reasons
    <3>2. QED
      BY <1>8, <2>1, <2>3, <3>1, ReportTyped DEF Resolve
  <2>4. CASE cause[slot[a]] # "none" /\ a \notin Workers
    BY <1>8, <2>1, <2>4, GoIdleTyped DEF Resolve
  <2>5. QED
    BY <2>2, <2>3, <2>4
<1>9. ASSUME NEW a \in Actors, Throws(a) PROVE ActorsTyped' /\ RowsTyped'
  <2>1. Transient \in Reasons /\ (a \in Workers => slot[a] \in Slots)
    BY WorkersAct DEF Reasons, ActorsTyped
  <2>2. CASE Enters(a, "report") /\ why' = [why EXCEPT ![a] = Transient] /\ UNCHANGED <<job, slot, attempt>>
    BY <1>9, <2>1, <2>2, ReportTyped DEF Throws, RowsTyped
  <2>3. CASE a \in Workers /\ FailedJob(slot[a], JobRetries(a)) /\ GoIdle(a)
    BY <1>9, <2>1, <2>3, GoIdleTyped, FailedJobTyped DEF Throws, RowsTyped
  <2>4. CASE GoIdle(a) /\ UNCHANGED job
    BY <1>9, <2>4, GoIdleTyped DEF Throws, RowsTyped
  <2>5. QED
    BY <1>9, <2>2, <2>3, <2>4 DEF Throws
<1>10. ASSUME NEW w \in Workers, ReadSwitch(w) PROVE ActorsTyped' /\ RowsTyped'
  <2>1. PICK p \in {"find", "defer"} : Enters(w, p)
    BY <1>10 DEF ReadSwitch
  <2>2. QED
    BY <1>10, <2>1, WorkersAct, EntersTyped DEF Phases, ReadSwitch, RowsTyped, jobVars
<1>16. ASSUME NEW w \in Workers, DeferJob(w) PROVE ActorsTyped' /\ RowsTyped'
  <2>1. ActorsTyped'
    BY <1>16, WorkersAct, GoIdleTyped DEF DeferJob
  <2>2. attempts' \in [Slots -> Nat]
    BY <1>16, AfterDeferTyped DEF DeferJob
  <2>3. QED
    BY <1>16, <2>1, <2>2 DEF DeferJob, RowsTyped, JobStates
<1>17. ASSUME NEW w \in Workers, CompleteJob(w) PROVE ActorsTyped' /\ RowsTyped'
  <2>1. ActorsTyped'
    BY <1>17, WorkersAct, GoIdleTyped DEF CompleteJob
  <2>2. QED
    BY <1>17, <2>1 DEF CompleteJob, RowsTyped, JobStates
<1>18. ASSUME NEW w \in Workers, ThrowsAround(w) PROVE ActorsTyped' /\ RowsTyped'
  <2>1. ActorsTyped'
    BY <1>18, WorkersAct, GoIdleTyped DEF ThrowsAround
  <2>2. attempts' \in [Slots -> Nat]
    <3>1. attempts' \in {attempts, [attempts EXCEPT ![slot[w]] = AttemptsAfterDefer(w)]}
      BY <1>18 DEF ThrowsAround
    <3>2. attempts \in [Slots -> Nat]
      BY DEF RowsTyped
    <3>3. QED
      BY <3>1, <3>2, AfterDeferTyped
  <2>3. slot[w] \in Slots
    BY WorkersAct DEF ActorsTyped
  <2>4. QED
    BY <1>18, <2>1, <2>2, <2>3, FailedJobTyped DEF ThrowsAround
<1>11. ASSUME NEW w \in Workers, ReportFailure(w) PROVE ActorsTyped' /\ RowsTyped'
  <2>1. why[w] \in Reasons
    BY <1>11 DEF ReportFailure, ActorsTyped
  <2>2. events' \in [Slots -> Seq(Reasons)]
    BY <1>11, <2>1, WorkersAct DEF ReportFailure, ActorsTyped, RowsTyped
  <2>3. QED
    BY <1>11, <2>2, WorkersAct, EntersTyped DEF Phases, ReportFailure, RowsTyped, jobVars
<1>12. ASSUME NEW w \in Workers, FailJob(w) PROVE ActorsTyped' /\ RowsTyped'
  <2>1. slot[w] \in Slots
    BY WorkersAct DEF ActorsTyped
  <2>2. QED
    BY <1>12, <2>1, WorkersAct, GoIdleTyped, FailedJobTyped DEF FailJob, RowsTyped
<1>13. ASSUME NEW w \in Workers, Crash(w) PROVE ActorsTyped' /\ RowsTyped'
  BY <1>13, WorkersAct, GoIdleTyped DEF Crash, RowsTyped, jobVars
<1>14. ASSUME NEW w \in Workers, ReportIsLost(w) PROVE ActorsTyped' /\ RowsTyped'
  BY <1>14, WorkersAct, EntersTyped DEF Phases, ReportIsLost, RowsTyped, jobVars
<1>15. QED
  BY <1>1, <1>2, <1>3, <1>4, <1>5, <1>6, <1>7, <1>8, <1>9, <1>10, <1>11, <1>12,
     <1>13, <1>14, <1>16, <1>17, <1>18 DEF GenNext, WorkerStep, Actors

\* The strengthening that makes FailureIsReported inductive: whoever is about
\* to fail a job has already reported it.
Announced ==
  /\ \A w \in Workers : phase[w] = "fail" /\ slot[w] \notin LostReports => events[slot[w]] # <<>>
  /\ FailureIsReported

LEMMA AnnouncedKept ==
  ASSUME ActorsTyped, RowsTyped, Announced, [GenNext]_genVars
  PROVE  Announced'
<1> USE DEF Announced, FailureIsReported
<1>1. ASSUME UNCHANGED genVars \/ \E o \in Orgs : SetSwitch(o)
      PROVE  Announced'
  BY <1>1 DEF SetSwitch, genVars, jobVars, actorVars
<1>2. ASSUME NEW s \in Slots, SetDue(s) \/ \E c \in Causes \cup {"none"} : SetCause(s, c)
      PROVE  Announced'
  BY <1>2 DEF SetDue, SetCause, jobVars, actorVars
<1>3. ASSUME NEW s \in Slots, RetryAssessmentGeneration(s) PROVE Announced'
  BY <1>3 DEF RetryAssessmentGeneration, actorVars, RowsTyped
<1>4. ASSUME NEW s \in Slots, TeacherGenerates(s) PROVE Announced'
  BY <1>4, WorkersAct DEF TeacherGenerates, Enters, jobVars, ActorsTyped
<1>5. ASSUME NEW s \in Slots, NEW w \in Workers, Claim(w, s) PROVE Announced'
  BY <1>5, WorkersAct DEF Claim, Enters, ActorsTyped, RowsTyped
<1>6. ASSUME NEW p \in Producers, ProducerStep(p) \/ ProducerThrows(p) PROVE Announced'
  BY <1>6 DEF ProducerStep, ProducerThrows, Scan, Enqueue, jobVars, actorVars, RowsTyped
<1>7. ASSUME NEW a \in Actors, FindExisting(a) \/ Publish(a) PROVE Announced'
  BY <1>7, WorkersAct
     DEF FindExisting, Publish, Answers, GoIdle, Enters, jobVars, ActorsTyped
<1>8. ASSUME NEW a \in Actors, Resolve(a) PROVE Announced'
  BY <1>8, WorkersAct DEF Resolve, GoIdle, Enters, jobVars, ActorsTyped
<1>9. ASSUME NEW a \in Actors, Throws(a) PROVE Announced'
  <2>1. a \in Workers => (JobRetries(a) <=> ~LastTry(a))
    BY GenerationAssumption DEF JobRetries, LastTry, ActorsTyped
  <2>2. \A s \in Slots : job'[s] = "failed" => job[s] = "failed"
    BY <1>9, <2>1 DEF Throws, FailedJob, RowsTyped
  <2>3. \A w \in Workers : phase'[w] = "fail" => phase[w] = "fail" /\ slot'[w] = slot[w]
    BY <1>9, WorkersAct DEF Throws, GoIdle, Enters, ActorsTyped
  <2>4. events' = events /\ silent' = silent
    BY <1>9 DEF Throws
  <2>5. QED
    BY <2>2, <2>3, <2>4
<1>10. ASSUME NEW w \in Workers, ReadSwitch(w) PROVE Announced'
  BY <1>10, WorkersAct DEF ReadSwitch, Enters, jobVars, ActorsTyped
<1>16. ASSUME NEW w \in Workers, DeferJob(w) \/ CompleteJob(w) PROVE Announced'
  BY <1>16, WorkersAct DEF DeferJob, CompleteJob, GoIdle, ActorsTyped, RowsTyped
<1>17. ASSUME NEW w \in Workers, ThrowsAround(w) PROVE Announced'
  <2>1. \A s \in Slots : job'[s] = "failed" /\ s \notin silent' =>
          job[s] = "failed" /\ s \notin silent
    BY <1>17 DEF ThrowsAround, FailedJob, RowsTyped
  <2>2. \A v \in Workers : phase'[v] = "fail" => phase[v] = "fail" /\ slot'[v] = slot[v]
    BY <1>17, WorkersAct DEF ThrowsAround, GoIdle, ActorsTyped
  <2>3. events' = events
    BY <1>17 DEF ThrowsAround
  <2>4. QED
    BY <2>1, <2>2, <2>3
<1>11. ASSUME NEW w \in Workers, ReportFailure(w) PROVE Announced'
  <2>1. why[w] \in Reasons /\ slot[w] \in Slots
    BY <1>11, WorkersAct DEF ReportFailure, ActorsTyped
  <2>2. Append(events[slot[w]], why[w]) # <<>>
    <3>1. events[slot[w]] \in Seq(Reasons)
      BY <2>1 DEF RowsTyped
    <3>2. Len(Append(events[slot[w]], why[w])) = Len(events[slot[w]]) + 1
      BY <2>1, <3>1
    <3>3. Len(events[slot[w]]) \in Nat /\ Len(<<>>) = 0
      BY <3>1
    <3>4. QED
      BY <3>2, <3>3
  <2>3. \A s \in Slots : events'[s] # events[s] => events'[s] # <<>>
    BY <1>11, <2>1, <2>2 DEF ReportFailure, RowsTyped
  <2>4. events'[slot[w]] # <<>>
    BY <1>11, <2>1, <2>2 DEF ReportFailure, Reports, RowsTyped
  <2>5. job' = job /\ silent' = silent /\ slot' = slot /\ phase' = [phase EXCEPT ![w] = "fail"]
    BY <1>11 DEF ReportFailure, Enters, jobVars
  <2>6. \A v \in Workers : phase'[v] = "fail" => v = w \/ phase[v] = "fail"
    BY <2>5, WorkersAct DEF ActorsTyped
  <2>7. \A v \in Workers : slot[v] \in Slots
    BY WorkersAct DEF ActorsTyped
  <2>8. QED
    BY <2>3, <2>4, <2>5, <2>6, <2>7
<1>12. ASSUME NEW w \in Workers, FailJob(w) PROVE Announced'
  <2>1. /\ slot[w] \in Slots
        /\ slot[w] \notin LostReports => events[slot[w]] # <<>>
    BY <1>12, WorkersAct DEF FailJob, ActorsTyped
  <2>2. \A s \in Slots : job'[s] = "failed" => s = slot[w] \/ job[s] = "failed"
    BY <1>12 DEF FailJob, FailedJob, RowsTyped
  <2>3. \A v \in Workers : phase'[v] = "fail" => phase[v] = "fail" /\ slot'[v] = slot[v]
    BY <1>12, WorkersAct DEF FailJob, GoIdle, ActorsTyped
  <2>4. QED
    BY <1>12, <2>1, <2>2, <2>3 DEF FailJob
<1>13. ASSUME NEW w \in Workers, Crash(w) PROVE Announced'
  BY <1>13, WorkersAct DEF Crash, GoIdle, jobVars, ActorsTyped
<1>14. ASSUME NEW w \in Workers, ReportIsLost(w) PROVE Announced'
  <2>1. \A v \in Workers : phase'[v] = "fail" => v = w \/ phase[v] = "fail"
    BY <1>14, WorkersAct DEF ReportIsLost, Enters, ActorsTyped
  <2>2. QED
    BY <1>14, <2>1 DEF ReportIsLost, jobVars
<1>15. QED
  BY <1>1, <1>2, <1>3, <1>4, <1>5, <1>6, <1>7, <1>8, <1>9, <1>10, <1>11, <1>12,
     <1>13, <1>14, <1>16, <1>17 DEF GenNext, WorkerStep, Actors

\* A job whose generator refuses or throws is never given up in silence:
\* reportFailure's guard and failJob decide by the same copy of attempts, so its
\* last failure is the reported one, wherever the reporting transaction itself
\* cannot fail.  What throws around the generator is on record in silent.
THEOREM FailuresAreReported == GenSpec => []FailureIsReported
<1> DEFINE Inv == ActorsTyped /\ RowsTyped /\ Announced
<1>1. GenInit => Inv
  <2> SUFFICES ASSUME GenInit PROVE Inv
    OBVIOUS
  <2>1. ActorsTyped
    BY SomeSlotIsASlot, WorkersAct DEF GenInit, ActorsTyped, Phases
  <2>2. RowsTyped
    BY DEF GenInit, RowsTyped, JobStates
  <2>3. Announced
    BY WorkersAct DEF GenInit, Announced, FailureIsReported
  <2>4. QED
    BY <2>1, <2>2, <2>3
<1>2. Inv /\ [GenNext]_genVars => Inv'
  BY TypedKept, AnnouncedKept
<1>3. Inv => FailureIsReported
  BY DEF Announced
<1>4. QED
  BY <1>1, <1>2, <1>3, PTL DEF GenSpec

-----------------------------------------------------------------------------
(* Attempts: the inductive invariant *)

\* Nothing is decided, and no teacher has anything to do, before grading.
Fresh ==
  status \in {"none", "in_progress", "submitted"} =>
    /\ \A q \in Questions :
         exception[q] = "none" /\ final[q] = 0 /\ \A v \in Versions : grade[q][v] = "none"
    /\ \A t \in Teachers : pc[t] = "idle"

\* The compare-and-set lets one request grade.
OneGrader ==
  \A d \in Devices : pc[d] \in {"loading", "grading"} =>
    /\ status = "submitted"
    /\ \A e \in Devices : pc[e] \in {"loading", "grading"} => d = e

\* Versions have no gaps, and the final one exists.
Chain ==
  \A q \in Questions :
    /\ \A v, w \in Versions : grade[q][v] # "none" /\ w < v => grade[q][w] # "none"
    /\ final[q] > 0 => grade[q][final[q]] # "none"

\* A ruling in its transaction holds the next free version, and its answer.
Locked ==
  \A t \in Teachers :
    /\ pc[t] \in {"judging", "versioned", "counted"} => ruling[t].grade # "none"
    /\ pc[t] \in {"versioned", "counted"} =>
         /\ ruling[t].version \in Versions
         /\ \A w \in Versions : w < ruling[t].version => grade[ruling[t].question][w] # "none"
    /\ pc[t] = "counted" =>
         /\ VersionFree(t)
         /\ \A u \in Teachers : pc[u] = "counted" /\ ruling[u].question = ruling[t].question => u = t

\* What has been graded is decided or has an exception; what was resolved is
\* decided.
Accounted ==
  \A q \in Questions :
    /\ status \in {"review_required", "finalized"} => final[q] > 0 \/ exception[q] = "open"
    /\ exception[q] = "resolved" => final[q] > 0
    /\ exception[q] = "resolved" => \E v \in Versions :
         grade[q][v] # "none" /\ v >= (IF q \in Unreadable THEN 1 ELSE 2)
    /\ status \in {"review_required", "finalized"} /\ q \notin Unreadable => grade[q][1] # "none"

\* What a ruling counted is what there is, except for answers it saw open and
\* answers on which two teachers have ruled.
Tallied ==
  \A t \in Teachers : pc[t] = "counted" =>
    /\ exception[ruling[t].question] # "none"
    /\ ruling[t].total[ruling[t].question] = Points(ruling[t].grade)
    /\ \A p \in Questions \ (ruling[t].open \cup {ruling[t].question}) :
         /\ exception[p] # "open"
         /\ JudgedTwice(p) \/ ruling[t].total[p] = Points(grade[p][final[p]])

\* A teacher rules on a question that has or had an exception.
OnExceptions ==
  \A t \in Teachers : pc[t] \in {"judging", "versioned", "counted"} =>
    exception[ruling[t].question] # "none"

IndInv == TypeOK /\ Fresh /\ OneGrader /\ Chain /\ Locked
FinalInv == Accounted /\ OnExceptions /\ Tallied /\ FinalizedAddsUp

\* What a submission read is what is stored.
SheetKept ==
  \A d \in Devices : pc[d] = "grading" =>
    \A q \in Questions \ late : sheet[d][q] = answer[q]

\* What is about to be stored is current, and what is stored is current or about
\* to be replaced: every decision is followed by a recomputation of its own.
Current ==
  ~missed =>
    /\ \A r \in Requests : pc[r] = "storing" => read[r] = Evidence
    /\ mastery = Evidence \/ Recomputing

-----------------------------------------------------------------------------
(* Types *)

\* The values that stand for "nothing held" are well typed.
LEMMA Defaults ==
  /\ AnyQuestion \in Questions
  /\ NoDraft \in Drafts /\ NoSheet \in [Questions -> AnswerRow]
  /\ NoScores \in [Questions -> 0..2] /\ NoRuling \in Rulings /\ NoItem \in Items
<1>1. AnyQuestion \in Questions
  BY AttemptAssumption DEF AnyQuestion
<1>2. NoScores \in [Questions -> 0..2] /\ NoSheet \in [Questions -> AnswerRow]
  BY DEF NoScores, NoSheet, AnswerRow
<1>3. NoDraft \in Drafts
  BY <1>1, AttemptAssumption DEF NoDraft, Drafts, AnswerRow
<1>4. NoRuling \in Rulings
  BY <1>1, <1>2, AttemptAssumption DEF NoRuling, Rulings, GradeRow
<1>5. NoItem \in Items
  BY <1>1, AttemptAssumption DEF NoItem, Items
<1>6. QED
  BY <1>1, <1>2, <1>3, <1>4, <1>5

\* Verdicts are decisions and points are scores.
LEMMA VerdictTyped ==
  ASSUME NEW q, NEW a \in AnswerRow
  PROVE  Verdict(q, a) \in GradeRow \ {"none"}
  BY AttemptAssumption DEF Verdict, AnswerRow, GradeRow

LEMMA PointsTyped == ASSUME NEW g PROVE Points(g) \in 0..2
  BY DEF Points

\* Reviews stay well typed.
LEMMA ReviewsTyped ==
  ASSUME TypeOK, NEW wrong, NEW right
  PROVE  ReviewsAfter(wrong, right) \in [Items -> {"none", "planned", "due", "done"}]
  BY DEF ReviewsAfter, TypeOK

\* A request moves to one of its states.
LEMMA GotoTyped ==
  ASSUME TypeOK, NEW r, NEW place \in DeviceStates \cup TeacherStates, Goto(r, place)
  PROVE  pc' \in [Requests -> DeviceStates \cup TeacherStates]
  BY DEF Goto, TypeOK

\* Saving keeps the types of the answers.
LEMMA UpsertTyped ==
  ASSUME TypeOK, NEW s \in Drafts, Upsert(s)
  PROVE  /\ answer' \in [Questions -> AnswerRow]
         /\ savedSeq' \in [Questions -> 0..MaxSeq]
         /\ late' \subseteq Questions
<1>1. s.question \in Questions /\ s.answer \in AnswerRow /\ s.seq \in 0..MaxSeq
  BY DEF Drafts
<1>2. CASE answer[s.question] = "none" \/ savedSeq[s.question] < s.seq
  <2>1. /\ answer' = [answer EXCEPT ![s.question] = s.answer]
        /\ savedSeq' = [savedSeq EXCEPT ![s.question] = s.seq]
        /\ late' \in {late, late \cup {s.question}}
    BY <1>2 DEF Upsert
  <2>2. answer' \in [Questions -> AnswerRow] /\ savedSeq' \in [Questions -> 0..MaxSeq]
    BY <1>1, <2>1 DEF TypeOK
  <2>3. QED
    BY <1>1, <2>1, <2>2 DEF TypeOK
<1>3. CASE ~(answer[s.question] = "none" \/ savedSeq[s.question] < s.seq)
  BY <1>3 DEF Upsert, TypeOK
<1>4. QED
  BY <1>2, <1>3

\* What counts as evidence are decisions.
LEMMA EvidenceTyped == ASSUME TypeOK PROVE Evidence \subseteq Decisions
<1> SUFFICES ASSUME NEW q \in Questions, final[q] > 0 PROVE <<q, final[q]>> \in Decisions
  BY DEF Evidence
<1>1. final[q] \in 0..MaxVersion
  BY DEF TypeOK
<1>2. final[q] \in Versions
  BY <1>1, AttemptAssumption DEF Versions
<1>3. QED
  BY <1>2 DEF Decisions

\* A submission that has been read is graded into well-typed rows.
LEMMA GradeTyped ==
  ASSUME TypeOK, NEW d \in Devices, GradeAttempt(d)
  PROVE  /\ answer' \in [Questions -> AnswerRow]
         /\ grade' \in [Questions -> [Versions -> GradeRow]]
         /\ final' \in [Questions -> 0..MaxVersion]
         /\ exception' \in [Questions -> {"none", "open", "resolved"}]
         /\ total' \in [Questions -> 0..2]
         /\ status' \in {"review_required", "finalized"}
         /\ sheet' \in [Devices -> [Questions -> AnswerRow]]
<1>1. answer' \in [Questions -> AnswerRow]
  BY DEF GradeAttempt, TypeOK, AnswerRow
<1>2. grade' \in [Questions -> [Versions -> GradeRow]]
  <2>1. ASSUME NEW q \in Questions
        PROVE  (IF q \in Unreadable THEN grade[q]
                ELSE [grade[q] EXCEPT ![1] = Verdict(q, sheet[d][q])]) \in [Versions -> GradeRow]
    <3>1. sheet[d][q] \in AnswerRow /\ grade[q] \in [Versions -> GradeRow]
      BY DEF TypeOK
    <3>2. Verdict(q, sheet[d][q]) \in GradeRow
      BY <3>1, VerdictTyped
    <3>3. QED
      BY <3>1, <3>2
  <2>2. QED
    BY <2>1 DEF GradeAttempt
<1>3. final' \in [Questions -> 0..MaxVersion]
  BY AttemptAssumption DEF GradeAttempt, TypeOK
<1>4. exception' \in [Questions -> {"none", "open", "resolved"}]
  BY DEF GradeAttempt, TypeOK
<1>5. total' \in [Questions -> 0..2]
  BY PointsTyped DEF GradeAttempt
<1>6. status' \in {"review_required", "finalized"}
  BY DEF GradeAttempt, FinalStatus
<1>7. sheet' \in [Devices -> [Questions -> AnswerRow]]
  BY Defaults DEF GradeAttempt, TypeOK
<1>8. QED
  BY <1>1, <1>2, <1>3, <1>4, <1>5, <1>6, <1>7

\* A ruling in its transaction stays well typed, and so do the rows it commits.
LEMMA CountTyped ==
  ASSUME TypeOK, NEW t \in Teachers, CountOpen(t)
  PROVE  ruling' \in [Teachers -> Rulings]
<1> DEFINE scores == [p \in Questions |->
          IF p = ruling[t].question THEN Points(ruling[t].grade)
          ELSE IF final[p] > 0 THEN Points(grade[p][final[p]]) ELSE 0]
           left == {p \in Questions \ {ruling[t].question} : exception[p] = "open"}
<1>1. scores \in [Questions -> 0..2] /\ left \in SUBSET Questions
  BY PointsTyped
<1>2. ruling' = [ruling EXCEPT ![t].open = left, ![t].total = scores]
  BY DEF CountOpen
<1> HIDE DEF scores, left
<1>3. [[ruling[t] EXCEPT !.open = left] EXCEPT !.total = scores] \in Rulings
  <2>1. ruling[t] \in Rulings
    BY DEF TypeOK
  <2>2. [ruling[t] EXCEPT !.open = left] \in Rulings
    BY <1>1, <2>1 DEF Rulings
  <2>3. QED
    BY <1>1, <2>2 DEF Rulings
<1>4. ruling' = [ruling EXCEPT ![t] = [[ruling[t] EXCEPT !.open = left] EXCEPT !.total = scores]]
  BY <1>2 DEF TypeOK
<1>5. QED
  BY <1>3, <1>4 DEF TypeOK

LEMMA ResolveTyped ==
  ASSUME TypeOK, NEW t \in Teachers, ResolveException(t)
  PROVE  /\ grade' \in [Questions -> [Versions -> GradeRow]]
         /\ final' \in [Questions -> 0..MaxVersion]
         /\ exception' \in [Questions -> {"none", "open", "resolved"}]
         /\ total' \in [Questions -> 0..2]
         /\ status' \in {"review_required", "finalized"}
         /\ ruling' \in [Teachers -> Rulings]
<1>1. /\ ruling[t].question \in Questions /\ ruling[t].version \in 0..MaxVersion
      /\ ruling[t].grade \in GradeRow /\ ruling[t].total \in [Questions -> 0..2]
  BY DEF TypeOK, Rulings
<1>2. /\ grade' \in [Questions -> [Versions -> GradeRow]]
      /\ final' \in [Questions -> 0..MaxVersion]
  BY <1>1 DEF ResolveException, TypeOK
<1>3. exception' \in [Questions -> {"none", "open", "resolved"}]
  BY <1>1 DEF ResolveException, TypeOK
<1>4. total' \in [Questions -> 0..2] /\ status' \in {"review_required", "finalized"}
  BY <1>1 DEF ResolveException, FinalStatus
<1>5. ruling' \in [Teachers -> Rulings]
  BY Defaults DEF ResolveException, TypeOK
<1>6. QED
  BY <1>2, <1>3, <1>4, <1>5

\* The states of an attempt are well typed.
LEMMA InitTyped == Init => TypeOK
<1> SUFFICES ASSUME Init PROVE TypeOK
  OBVIOUS
<1>1. /\ answer \in [Questions -> AnswerRow] /\ sheet \in [Devices -> [Questions -> AnswerRow]]
      /\ draft \in [Devices -> Drafts] /\ ruling \in [Teachers -> Rulings]
      /\ reviewing \in [Devices -> Items]
  BY Defaults DEF Init
<1>2. /\ savedSeq \in [Questions -> 0..MaxSeq] /\ final \in [Questions -> 0..MaxVersion]
      /\ total \in [Questions -> 0..2]
  BY AttemptAssumption DEF Init, NoScores
<1>3. grade \in [Questions -> [Versions -> GradeRow]]
  BY DEF Init, GradeRow
<1>4. /\ exception \in [Questions -> {"none", "open", "resolved"}]
      /\ review \in [Items -> {"none", "planned", "due", "done"}]
      /\ pc \in [Requests -> DeviceStates \cup TeacherStates]
      /\ read \in [Requests -> SUBSET Decisions]
  BY DEF Init, DeviceStates
<1>5. /\ status = "none" /\ late \subseteq Questions
      /\ mastery \subseteq Decisions /\ plans \in Nat
      /\ days \in 0..MaxDays /\ lost \in 0..MaxLost
  BY AttemptAssumption DEF Init
<1>6. expired \in BOOLEAN /\ stranded \in BOOLEAN /\ missed \in BOOLEAN
  BY DEF Init
<1>7. QED
  BY <1>1, <1>2, <1>3, <1>4, <1>5, <1>6 DEF TypeOK

LEMMA NextTyped == TypeOK /\ [Next]_vars => TypeOK'
<1> SUFFICES ASSUME TypeOK, [Next]_vars PROVE TypeOK'
  OBVIOUS
<1> USE Defaults
<1>1. CASE StartAttempt \/ TimeIsUp
  BY <1>1 DEF StartAttempt, TimeIsUp, TypeOK, decided, derived, losses, local
<1>2. ASSUME NEW d \in Devices, Submit(d) PROVE TypeOK'
  <2>1. pc' \in [Requests -> DeviceStates \cup TeacherStates]
    BY <1>2, GotoTyped DEF Submit, DeviceStates
  <2>2. QED
    BY <1>2, <2>1 DEF Submit, TypeOK, decided, derived, losses, local
<1>3. ASSUME NEW d \in Devices, NEW q \in Questions, NEW a \in Given, NEW n \in 1..MaxSeq,
             AdmitSave(d, q, a, n)
      PROVE  TypeOK'
  <2>1. pc' \in [Requests -> DeviceStates \cup TeacherStates]
    BY <1>3, GotoTyped DEF AdmitSave, DeviceStates
  <2>2. [question |-> q, answer |-> a, seq |-> n] \in Drafts
    BY AttemptAssumption DEF Drafts, AnswerRow
  <2>3. draft' \in [Devices -> Drafts]
    BY <1>3, <2>2 DEF AdmitSave, TypeOK
  <2>4. QED
    BY <1>3, <2>1, <2>3 DEF AdmitSave, TypeOK, record, decided, derived, losses
<1>4. ASSUME NEW d \in Devices, NEW i \in Items, OpenReview(d, i) PROVE TypeOK'
  <2>1. pc' \in [Requests -> DeviceStates \cup TeacherStates]
    BY <1>4, GotoTyped DEF OpenReview, DeviceStates
  <2>2. QED
    BY <1>4, <2>1 DEF OpenReview, TypeOK, record, decided, derived, losses
<1>5. ASSUME NEW d \in Devices, SaveResponse(d) PROVE TypeOK'
  <2>1. pc' \in [Requests -> DeviceStates \cup TeacherStates]
    BY <1>5, GotoTyped DEF SaveResponse, DeviceStates
  <2>2. draft[d] \in Drafts
    BY DEF TypeOK
  <2>3. /\ answer' \in [Questions -> AnswerRow] /\ savedSeq' \in [Questions -> 0..MaxSeq]
        /\ late' \subseteq Questions
    BY <1>5, <2>2, UpsertTyped DEF SaveResponse
  <2>4. QED
    BY <1>5, <2>1, <2>3 DEF SaveResponse, TypeOK, decided, derived, losses
<1>6. ASSUME NEW d \in Devices, LoadAnswers(d) PROVE TypeOK'
  <2>1. pc' \in [Requests -> DeviceStates \cup TeacherStates]
    BY <1>6, GotoTyped DEF LoadAnswers, DeviceStates
  <2>2. QED
    BY <1>6, <2>1 DEF LoadAnswers, TypeOK, record, decided, derived, losses
<1>7. ASSUME NEW d \in Devices, GradeAttempt(d) PROVE TypeOK'
  <2>1. pc' \in [Requests -> DeviceStates \cup TeacherStates]
    BY <1>7, GotoTyped DEF GradeAttempt, DeviceStates
  <2>2. review' \in [Items -> {"none", "planned", "due", "done"}]
    BY <1>7, ReviewsTyped DEF GradeAttempt
  <2>3. UNCHANGED <<expired, savedSeq, late, mastery, plans, days, lost, stranded, draft, reviewing,
                    ruling, read>>
    BY <1>7 DEF GradeAttempt
  <2>4. missed' \in BOOLEAN
    BY <1>7 DEF GradeAttempt, Overtakes, TypeOK
  <2>5. QED
    BY <1>7, <2>1, <2>2, <2>3, <2>4, GradeTyped DEF TypeOK
<1>8. ASSUME NEW r \in Requests, ReadEvidence(r) PROVE TypeOK'
  <2>1. pc' \in [Requests -> DeviceStates \cup TeacherStates]
    BY <1>8, GotoTyped DEF ReadEvidence, DeviceStates
  <2>2. read' \in [Requests -> SUBSET Decisions]
    BY <1>8, EvidenceTyped DEF ReadEvidence, TypeOK
  <2>3. QED
    BY <1>8, <2>1, <2>2 DEF ReadEvidence, TypeOK, record, decided, derived, losses
<1>9. ASSUME NEW r \in Requests, StoreMastery(r) PROVE TypeOK'
  <2>1. pc' \in [Requests -> DeviceStates \cup TeacherStates]
    BY <1>9, GotoTyped DEF StoreMastery, AfterStoring, DeviceStates
  <2>2. read' \in [Requests -> SUBSET Decisions] /\ mastery' \subseteq Decisions
    BY <1>9 DEF StoreMastery, AfterStoring, TypeOK
  <2>3. sheet' \in [Devices -> [Questions -> AnswerRow]]
    BY <1>9 DEF StoreMastery, AfterStoring, TypeOK
  <2>4. QED
    BY <1>9, <2>1, <2>2, <2>3 DEF StoreMastery, AfterStoring, TypeOK, record, decided, losses
<1>10. ASSUME NEW d \in Devices, EvaluateConfirmationOutcome(d) PROVE TypeOK'
  <2>1. pc' \in [Requests -> DeviceStates \cup TeacherStates]
    BY <1>10, GotoTyped DEF EvaluateConfirmationOutcome, DeviceStates
  <2>2. plans' \in Nat
    BY <1>10 DEF EvaluateConfirmationOutcome, TypeOK
  <2>3. QED
    BY <1>10, <2>1, <2>2 DEF EvaluateConfirmationOutcome, TypeOK, record, decided, losses
<1>11. ASSUME NEW d \in Devices, AnswerReview(d) PROVE TypeOK'
  <2>1. pc' \in [Requests -> DeviceStates \cup TeacherStates]
    BY <1>11, GotoTyped DEF AnswerReview, DeviceStates
  <2>2. review' \in [Items -> {"none", "planned", "due", "done"}]
    BY <1>11 DEF AnswerReview, TypeOK
  <2>3. QED
    BY <1>11, <2>1, <2>2 DEF AnswerReview, TypeOK, record, decided, losses
<1>12. ASSUME NEW d \in Devices, NEW e \in Devices, SaveBreaksGrading(d, e) PROVE TypeOK'
  <2>1. pc' \in [Requests -> DeviceStates \cup TeacherStates]
    BY <1>12 DEF SaveBreaksGrading, TypeOK, DeviceStates
  <2>2. draft[e] \in Drafts
    BY DEF TypeOK
  <2>3. /\ answer' \in [Questions -> AnswerRow] /\ savedSeq' \in [Questions -> 0..MaxSeq]
        /\ late' \subseteq Questions
    BY <1>12, <2>2, UpsertTyped DEF SaveBreaksGrading
  <2>4. QED
    BY <1>12, <2>1, <2>3 DEF SaveBreaksGrading, TypeOK, decided, derived
<1>13. ASSUME NEW t \in Teachers, NEW q \in Questions, NEW g \in Ruled, CheckException(t, q, g)
       PROVE  TypeOK'
  <2>1. pc' \in [Requests -> DeviceStates \cup TeacherStates]
    BY <1>13, GotoTyped DEF CheckException, TeacherStates
  <2>2. [NoRuling EXCEPT !.question = q, !.grade = g] \in Rulings
    <3>1. g \in GradeRow
      BY AttemptAssumption DEF GradeRow
    <3>2. QED
      BY <3>1 DEF Rulings
  <2>3. ruling' \in [Teachers -> Rulings]
    BY <1>13, <2>2 DEF CheckException, TypeOK
  <2>4. QED
    BY <1>13, <2>1, <2>3 DEF CheckException, TypeOK, record, decided, derived, losses
<1>14. ASSUME NEW t \in Teachers, ReadVersion(t) PROVE TypeOK'
  <2>1. pc' \in [Requests -> DeviceStates \cup TeacherStates]
    BY <1>14, GotoTyped DEF ReadVersion, TeacherStates
  <2>2. PICK n \in Versions : ruling' = [ruling EXCEPT ![t].version = n]
    BY <1>14 DEF ReadVersion
  <2>3. ruling' \in [Teachers -> Rulings]
    <3>1. ruling[t] \in Rulings /\ n \in 0..MaxVersion
      BY DEF TypeOK, Versions
    <3>2. [ruling[t] EXCEPT !.version = n] \in Rulings
      BY <3>1 DEF Rulings
    <3>3. QED
      BY <2>2, <3>2 DEF TypeOK
  <2>4. QED
    BY <1>14, <2>1, <2>3 DEF ReadVersion, TypeOK, record, decided, derived, losses
<1>15. ASSUME NEW t \in Teachers, CountOpen(t) PROVE TypeOK'
  <2>1. pc' \in [Requests -> DeviceStates \cup TeacherStates]
    BY <1>15, GotoTyped DEF CountOpen, TeacherStates
  <2>2. UNCHANGED <<record, decided, derived, losses, draft, sheet, reviewing, read>>
    BY <1>15 DEF CountOpen
  <2>3. QED
    BY <1>15, <2>1, <2>2, CountTyped DEF TypeOK, record, decided, derived, losses
<1>16. ASSUME NEW t \in Teachers, VersionTaken(t) PROVE TypeOK'
  <2>1. pc' \in [Requests -> DeviceStates \cup TeacherStates]
    BY <1>16, GotoTyped DEF VersionTaken, TeacherStates
  <2>2. QED
    BY <1>16, <2>1 DEF VersionTaken, TypeOK, record, decided, derived, losses
<1>17. ASSUME NEW t \in Teachers, ResolveException(t) PROVE TypeOK'
  <2>1. pc' \in [Requests -> DeviceStates \cup TeacherStates]
    BY <1>17, GotoTyped DEF ResolveException, TeacherStates
  <2>2. review' \in [Items -> {"none", "planned", "due", "done"}]
    BY <1>17, ReviewsTyped DEF ResolveException
  <2>3. UNCHANGED <<expired, answer, savedSeq, late, mastery, plans, days, lost, stranded, draft,
                    sheet, reviewing, read>>
    BY <1>17 DEF ResolveException
  <2>4. missed' \in BOOLEAN
    BY <1>17 DEF ResolveException, Overtakes, TypeOK
  <2>5. QED
    BY <1>17, <2>1, <2>2, <2>3, <2>4, ResolveTyped DEF TypeOK
<1>18. ASSUME NEW some \in SUBSET {i \in Items : review[i] = "planned"}, ReviewsFallDue(some)
       PROVE  TypeOK'
  <2>1. review' \in [Items -> {"none", "planned", "due", "done"}]
    BY <1>18 DEF ReviewsFallDue, TypeOK
  <2>2. days' \in 0..MaxDays
    BY <1>18, AttemptAssumption DEF ReviewsFallDue, TypeOK
  <2>3. UNCHANGED <<record, decided, mastery, plans, losses, local, pc>>
    BY <1>18 DEF ReviewsFallDue
  <2>4. QED
    BY <2>1, <2>2, <2>3 DEF TypeOK, record, decided, losses, local
<1>19. ASSUME NEW r \in Requests, Dies(r) PROVE TypeOK'
  <2>1. pc' \in [Requests -> DeviceStates \cup TeacherStates]
    BY <1>19, GotoTyped DEF Dies, DeviceStates
  <2>2. stranded' \in BOOLEAN /\ missed' \in BOOLEAN
    BY <1>19 DEF Dies, TypeOK
  <2>3. /\ draft' \in [Devices -> Drafts] /\ sheet' \in [Devices -> [Questions -> AnswerRow]]
        /\ reviewing' \in [Devices -> Items] /\ ruling' \in [Teachers -> Rulings]
        /\ read' \in [Requests -> SUBSET Decisions]
    BY <1>19 DEF Dies, TypeOK
  <2>4. lost' \in 0..MaxLost
    BY <1>19, AttemptAssumption DEF Dies, TypeOK
  <2>5. QED
    BY <1>19, <2>1, <2>2, <2>3, <2>4 DEF Dies, TypeOK, record, decided, derived
<1>20. CASE UNCHANGED vars
  BY <1>20 DEF vars, TypeOK, record, decided, derived, losses, local
<1>21. QED
  BY <1>1, <1>2, <1>3, <1>4, <1>5, <1>6, <1>7, <1>8, <1>9, <1>10, <1>11, <1>12, <1>13,
     <1>14, <1>15, <1>16, <1>17, <1>18, <1>19, <1>20
     DEF Next, DeviceStep, TeacherStep, Requests

\* The states of an attempt are well typed.
THEOREM TypeCorrect == Spec => []TypeOK
<1>1. QED
  BY InitTyped, NextTyped, PTL DEF Spec

-----------------------------------------------------------------------------
(* Decisions are kept *)

\* What most steps do to the parts the invariant is about: nothing, except that
\* requests come out of grading or of a ruling.
Quiet ==
  /\ UNCHANGED <<status, decided>>
  /\ \A t \in Teachers :
       \/ pc'[t] = pc[t] /\ ruling'[t] = ruling[t]
       \/ pc[t] # "idle" /\ pc'[t] \in {"idle", "recomputing", "storing"}
  /\ \A d \in Devices : pc'[d] \in {"loading", "grading"} => pc[d] \in {"loading", "grading"}

LEMMA QuietKeeps ==
  ASSUME IndInv, Quiet
  PROVE  Fresh' /\ OneGrader' /\ Chain' /\ Locked'
<1> USE DEF IndInv
<1>1. UNCHANGED <<status, grade, final, exception>>
  BY DEF Quiet, decided
<1>2. Fresh'
  BY <1>1 DEF Fresh, Quiet
<1>3. OneGrader'
  BY <1>1 DEF OneGrader, Quiet
<1>4. Chain'
  BY <1>1 DEF Chain
<1>5. ASSUME NEW t \in Teachers, pc'[t] \in {"judging", "versioned", "counted"}
      PROVE  pc'[t] = pc[t] /\ ruling'[t] = ruling[t]
  BY <1>5 DEF Quiet
<1>6. Locked'
  BY <1>1, <1>5 DEF Locked, VersionFree
<1>7. QED
  BY <1>2, <1>3, <1>4, <1>6

LEMMA QuietSteps ==
  ASSUME TypeOK
  PROVE  /\ TimeIsUp => Quiet
         /\ \A d \in Devices : SaveResponse(d) \/ LoadAnswers(d)
              \/ EvaluateConfirmationOutcome(d) \/ AnswerReview(d) => Quiet
         /\ \A d \in Devices, q \in Questions, a \in Given, n \in 1..MaxSeq :
              AdmitSave(d, q, a, n) => Quiet
         /\ \A d \in Devices, i \in Items : OpenReview(d, i) => Quiet
         /\ \A d, e \in Devices : SaveBreaksGrading(d, e) => Quiet
         /\ \A r \in Requests : ReadEvidence(r) \/ StoreMastery(r) \/ Dies(r) => Quiet
         /\ \A t \in Teachers : VersionTaken(t) => Quiet
         /\ \A some \in SUBSET Items : ReviewsFallDue(some) => Quiet
         /\ UNCHANGED vars => Quiet
<1> USE AttemptAssumption DEF Quiet, Requests, Goto
<1>1. pc \in [Requests -> DeviceStates \cup TeacherStates] /\ ruling \in [Teachers -> Rulings]
  BY DEF TypeOK
<1>2. TimeIsUp => Quiet
  BY DEF TimeIsUp, local
<1>3. ASSUME NEW d \in Devices,
             SaveResponse(d) \/ LoadAnswers(d) \/ EvaluateConfirmationOutcome(d) \/ AnswerReview(d)
      PROVE  Quiet
  BY <1>1, <1>3 DEF SaveResponse, LoadAnswers, EvaluateConfirmationOutcome, AnswerReview, record
<1>4. ASSUME NEW d \in Devices, NEW q \in Questions, NEW a \in Given, NEW n \in 1..MaxSeq,
             AdmitSave(d, q, a, n)
      PROVE  Quiet
  BY <1>1, <1>4 DEF AdmitSave, record
<1>5. ASSUME NEW d \in Devices, NEW i \in Items, OpenReview(d, i) PROVE Quiet
  BY <1>1, <1>5 DEF OpenReview, record
<1>6. ASSUME NEW d \in Devices, NEW e \in Devices, SaveBreaksGrading(d, e) PROVE Quiet
  BY <1>1, <1>6 DEF SaveBreaksGrading
<1>7. ASSUME NEW r \in Requests, ReadEvidence(r) \/ StoreMastery(r) \/ Dies(r) PROVE Quiet
  <2>1. UNCHANGED <<status, decided>>
    BY <1>7 DEF ReadEvidence, StoreMastery, AfterStoring, Dies, record
  <2>2. \A u \in Requests \ {r} : pc'[u] = pc[u]
    BY <1>1, <1>7 DEF ReadEvidence, StoreMastery, AfterStoring, Dies
  <2>3. pc[r] # "idle" /\ pc'[r] \in {"idle", "storing", "evaluating"}
    BY <1>1, <1>7 DEF ReadEvidence, StoreMastery, AfterStoring, Dies
  <2>4. r \in Teachers => pc'[r] # "evaluating"
    BY <1>1, <1>7 DEF ReadEvidence, StoreMastery, AfterStoring, Dies, Evaluates
  <2>5. \A t \in Teachers \ {r} : ruling'[t] = ruling[t]
    BY <1>1, <1>7 DEF ReadEvidence, StoreMastery, AfterStoring, Dies
  <2>6. QED
    BY <2>1, <2>2, <2>3, <2>4, <2>5
<1>8. ASSUME NEW t \in Teachers, VersionTaken(t) PROVE Quiet
  BY <1>1, <1>8 DEF VersionTaken, record
<1>9. ASSUME NEW some \in SUBSET Items, ReviewsFallDue(some) PROVE Quiet
  BY <1>9 DEF ReviewsFallDue, record, local
<1>10. UNCHANGED vars => Quiet
  BY DEF vars, record, local
<1>11. QED
  BY <1>2, <1>3, <1>4, <1>5, <1>6, <1>7, <1>8, <1>9, <1>10

LEMMA InitInv == Init => IndInv
<1> SUFFICES ASSUME Init PROVE IndInv
  OBVIOUS
<1>1. TypeOK
  BY InitTyped
<1>2. Fresh /\ OneGrader /\ Chain /\ Locked
  <2>1. \A r \in Requests : pc[r] = "idle"
    BY DEF Init
  <2>2. Fresh
    BY <2>1 DEF Init, Fresh, NoScores, Requests
  <2>3. OneGrader /\ Locked
    BY <2>1 DEF OneGrader, Locked, Requests
  <2>4. Chain
    BY DEF Init, Chain, NoScores
  <2>5. QED
    BY <2>2, <2>3, <2>4
<1>3. QED
  BY <1>1, <1>2 DEF IndInv

\* The attempt begins, and is submitted by one request.
LEMMA BeginKeeps ==
  ASSUME IndInv, StartAttempt \/ \E d \in Devices : Submit(d)
  PROVE  Fresh' /\ OneGrader' /\ Chain' /\ Locked'
<1> USE AttemptAssumption DEF IndInv
<1>1. CASE StartAttempt
  <2>1. UNCHANGED <<grade, final, exception, pc, ruling>> /\ status = "none" /\ status' = "in_progress"
    BY <1>1 DEF StartAttempt, decided, local
  <2>2. QED
    BY <2>1 DEF Fresh, OneGrader, Chain, Locked, VersionFree
<1>2. ASSUME NEW d \in Devices, Submit(d) PROVE Fresh' /\ OneGrader' /\ Chain' /\ Locked'
  <2>1. UNCHANGED <<grade, final, exception, ruling>>
    BY <1>2 DEF Submit, decided, local
  <2>2. pc \in [Requests -> DeviceStates \cup TeacherStates]
    BY DEF TypeOK
  <2>3. \A t \in Teachers : pc'[t] = pc[t]
    BY <1>2, <2>2 DEF Submit, Goto, Requests
  <2>4. Chain' /\ Locked'
    BY <2>1, <2>3 DEF Chain, Locked, VersionFree
  <2>5. CASE status = "in_progress"
    <3>1. status' = "submitted" /\ pc' = [pc EXCEPT ![d] = "loading"]
      BY <1>2, <2>5 DEF Submit, Goto
    <3>2. Fresh'
      BY <2>1, <2>3, <2>5 DEF Fresh
    <3>3. \A e \in Devices : pc[e] \notin {"loading", "grading"}
      BY <2>5 DEF OneGrader
    <3>4. OneGrader'
      BY <2>2, <3>1, <3>3 DEF OneGrader, Requests
    <3>5. QED
      BY <2>4, <3>2, <3>4
  <2>6. CASE status # "in_progress"
    <3>1. UNCHANGED status /\ pc' = [pc EXCEPT ![d] = "idle"]
      BY <1>2, <2>6 DEF Submit, Goto
    <3>2. Fresh' /\ OneGrader'
      BY <2>1, <2>2, <2>3, <3>1 DEF Fresh, OneGrader, Requests
    <3>3. QED
      BY <2>4, <3>2
  <2>7. QED
    BY <2>5, <2>6
<1>3. QED
  BY <1>1, <1>2

\* Grading finds nothing decided and nobody ruling.
LEMMA GradeKeeps ==
  ASSUME IndInv, NEW d \in Devices, GradeAttempt(d)
  PROVE  /\ Fresh' /\ OneGrader' /\ Chain' /\ Locked'
         /\ \A q \in Questions : final[q] = 0 /\ \A v \in Versions : grade[q][v] = "none"
<1> USE AttemptAssumption DEF IndInv
<1>1. pc[d] = "grading" /\ status = "submitted" /\ pc \in [Requests -> DeviceStates \cup TeacherStates]
  BY DEF GradeAttempt, OneGrader, TypeOK
<1>2. /\ \A q \in Questions :
           exception[q] = "none" /\ final[q] = 0 /\ \A v \in Versions : grade[q][v] = "none"
      /\ \A t \in Teachers : pc[t] = "idle"
  BY <1>1 DEF Fresh
<1>3. status' \in {"review_required", "finalized"}
  BY DEF GradeAttempt, FinalStatus
<1>4. \A r \in Requests \ {d} : pc'[r] = pc[r]
  BY <1>1 DEF GradeAttempt, Goto
<1>5. pc'[d] \in {"idle", "recomputing"}
  BY <1>1 DEF GradeAttempt, Goto, Requests
<1>6. Fresh'
  BY <1>3 DEF Fresh
<1>7. OneGrader'
  BY <1>1, <1>4, <1>5 DEF OneGrader, Requests
<1>8. Locked'
  BY <1>2, <1>4 DEF Locked, Requests
<1>9. ASSUME NEW q \in Questions
      PROVE  /\ \A v \in Versions : v # 1 => grade'[q][v] = "none"
             /\ final'[q] > 0 => final'[q] = 1 /\ grade'[q][1] # "none"
  <2>1. grade \in [Questions -> [Versions -> GradeRow]] /\ 1 \in Versions
    BY DEF TypeOK, Versions
  <2>2. \A v \in Versions : v # 1 => grade'[q][v] = "none"
    BY <1>2, <2>1 DEF GradeAttempt
  <2>3. ASSUME final'[q] > 0 PROVE final'[q] = 1 /\ grade'[q][1] # "none"
    <3>1. q \in Confirmed(sheet[d])
      BY <1>2, <2>3 DEF GradeAttempt
    <3>2. sheet[d][q] \in AnswerRow
      BY DEF TypeOK
    <3>3. Verdict(q, sheet[d][q]) # "none"
      BY <3>2, VerdictTyped
    <3>4. q \notin Unreadable
      BY <3>1 DEF Confirmed
    <3>5. QED
      BY <2>1, <3>1, <3>3, <3>4 DEF GradeAttempt
  <2>4. QED
    BY <2>2, <2>3
<1>10. Chain'
  BY <1>9 DEF Chain, Versions
<1>11. QED
  BY <1>2, <1>6, <1>7, <1>8, <1>10

\* A teacher looks at an exception, reads the next version and counts.
LEMMA RulingKeeps ==
  ASSUME IndInv, NEW t \in Teachers,
         \/ \E q \in Questions, g \in Ruled : CheckException(t, q, g)
         \/ ReadVersion(t) \/ CountOpen(t)
  PROVE  Fresh' /\ OneGrader' /\ Chain' /\ Locked'
<1> USE AttemptAssumption DEF IndInv
<1>1. /\ pc \in [Requests -> DeviceStates \cup TeacherStates] /\ t \in Requests
      /\ ruling \in [Teachers -> Rulings]
  BY DEF TypeOK, Requests
<1>2. UNCHANGED <<status, grade, final, exception>>
  BY DEF CheckException, ReadVersion, CountOpen, record, decided
<1>3. /\ \A r \in Requests \ {t} : pc'[r] = pc[r]
      /\ \A u \in Teachers \ {t} : ruling'[u] = ruling[u]
  BY <1>1 DEF CheckException, ReadVersion, CountOpen, Goto
<1>4. status \notin {"none", "in_progress", "submitted"}
  <2>1. ASSUME NEW q \in Questions, NEW g \in Ruled, CheckException(t, q, g)
        PROVE  exception[q] # "none"
    BY <2>1 DEF CheckException
  <2>2. CASE ReadVersion(t) \/ CountOpen(t)
    BY <2>2 DEF ReadVersion, CountOpen, Fresh
  <2>3. QED
    BY <2>1, <2>2 DEF Fresh
<1>5. Fresh' /\ OneGrader' /\ Chain'
  BY <1>2, <1>3, <1>4 DEF Fresh, OneGrader, Chain, Requests
<1>6. ASSUME NEW q \in Questions, NEW g \in Ruled, CheckException(t, q, g) PROVE Locked'
  <2>1. pc'[t] = "judging" /\ ruling'[t].grade = g
    BY <1>1, <1>6 DEF CheckException, Goto, NoRuling
  <2>2. QED
    BY <1>2, <1>3, <2>1 DEF Locked, VersionFree, Requests
<1>7. CASE ReadVersion(t)
  <2>1. PICK n \in Versions :
          /\ IsNextVersion(ruling[t].question, n)
          /\ ruling' = [ruling EXCEPT ![t].version = n]
    BY <1>7 DEF ReadVersion
  <2>2. pc[t] = "judging" /\ pc'[t] = "versioned"
    BY <1>1, <1>7 DEF ReadVersion, Goto
  <2>3. ruling'[t] = [ruling[t] EXCEPT !.version = n] /\ ruling[t] \in Rulings
    BY <1>1, <2>1
  <2>4. /\ ruling'[t].version = n /\ ruling'[t].question = ruling[t].question
        /\ ruling'[t].grade = ruling[t].grade
    BY <2>3 DEF Rulings
  <2>5. \A w \in Versions : w < n => grade[ruling[t].question][w] # "none"
    BY <2>1 DEF IsNextVersion
  <2>6. QED
    BY <1>2, <1>3, <1>5, <2>2, <2>4, <2>5 DEF Locked, VersionFree, Requests
<1>8. CASE CountOpen(t)
  <2>1. /\ ruling'[t].version = ruling[t].version /\ ruling'[t].question = ruling[t].question
        /\ ruling'[t].grade = ruling[t].grade
    BY <1>1, <1>8 DEF CountOpen, Rulings
  <2>2. pc[t] = "versioned" /\ pc'[t] = "counted" /\ VersionFree(t)
    BY <1>1, <1>8 DEF CountOpen, Goto
  <2>3. \A u \in Teachers \ {t} : pc[u] = "counted" => ruling[u].question # ruling[t].question
    BY <1>8 DEF CountOpen, Blocked
  <2>4. QED
    BY <1>2, <1>3, <1>5, <2>1, <2>2, <2>3 DEF Locked, VersionFree, Requests
<1>9. QED
  BY <1>5, <1>6, <1>7, <1>8

\* A committed ruling extends the chain of its answer by the version it holds.
LEMMA ResolveKeeps ==
  ASSUME IndInv, NEW t \in Teachers, ResolveException(t)
  PROVE  /\ Fresh' /\ OneGrader' /\ Chain' /\ Locked'
         /\ ruling[t].question \in Questions /\ ruling[t].version \in Versions
         /\ grade[ruling[t].question][ruling[t].version] = "none"
         /\ final[ruling[t].question] <= ruling[t].version
<1> USE AttemptAssumption DEF IndInv
<1> DEFINE q == ruling[t].question
           n == ruling[t].version
           g == ruling[t].grade
<1>1. /\ pc \in [Requests -> DeviceStates \cup TeacherStates] /\ t \in Requests
      /\ ruling \in [Teachers -> Rulings] /\ q \in Questions
      /\ grade \in [Questions -> [Versions -> GradeRow]]
      /\ final \in [Questions -> 0..MaxVersion]
  BY DEF TypeOK, Requests, Rulings
<1>2. pc[t] = "counted"
  BY DEF ResolveException
<1>3. /\ n \in Versions /\ g # "none" /\ grade[q][n] = "none"
      /\ \A w \in Versions : w < n => grade[q][w] # "none"
      /\ \A u \in Teachers \ {t} : pc[u] = "counted" => ruling[u].question # q
  BY <1>2 DEF Locked, VersionFree
<1>4. /\ grade' = [grade EXCEPT ![q][n] = g] /\ final' = [final EXCEPT ![q] = n]
      /\ ruling' = [ruling EXCEPT ![t] = NoRuling] /\ pc' = [pc EXCEPT ![t] = "recomputing"]
      /\ status' \in {"review_required", "finalized"}
  BY DEF ResolveException, Goto, FinalStatus
<1> HIDE DEF q, n, g
<1>5. /\ grade'[q][n] = g /\ final'[q] = n
      /\ \A p \in Questions, v \in Versions : p # q \/ v # n => grade'[p][v] = grade[p][v]
      /\ \A p \in Questions : p # q => final'[p] = final[p]
  BY <1>1, <1>3, <1>4
<1>6. final[q] <= n
  <2> SUFFICES ASSUME n < final[q] PROVE FALSE
    BY <1>1, <1>3 DEF Versions
  <2>1. final[q] \in Versions
    BY <1>1, <1>3 DEF Versions
  <2>2. grade[q][final[q]] # "none"
    BY <1>1, <2>1 DEF Chain, Versions
  <2>3. QED
    BY <1>1, <1>3, <2>1, <2>2 DEF Chain
<1>7. Fresh'
  BY <1>4 DEF Fresh
<1>8. OneGrader'
  <2>1. status # "submitted"
    BY <1>2 DEF Fresh
  <2>2. \A d \in Devices : pc'[d] = pc[d]
    BY <1>1, <1>4 DEF Requests
  <2>3. QED
    BY <2>1, <2>2 DEF OneGrader
<1>9. Chain'
  <2> SUFFICES ASSUME NEW p \in Questions
               PROVE  /\ \A v, w \in Versions : grade'[p][v] # "none" /\ w < v => grade'[p][w] # "none"
                      /\ final'[p] > 0 => grade'[p][final'[p]] # "none"
    BY DEF Chain
  <2>1. CASE p = q
    <3>1. ASSUME NEW v \in Versions, NEW w \in Versions, grade'[q][v] # "none", w < v
          PROVE  grade'[q][w] # "none"
      <4>1. CASE v = n
        <5>1. grade[q][w] # "none" /\ w # n
          BY <1>3, <3>1, <4>1 DEF Versions
        <5>2. QED
          BY <1>1, <1>5, <5>1
      <4>2. CASE v # n
        <5>1. grade[q][v] # "none"
          BY <1>1, <1>5, <3>1, <4>2
        <5>2. grade[q][w] # "none"
          BY <1>1, <3>1, <5>1 DEF Chain
        <5>3. QED
          BY <1>1, <1>3, <1>5, <3>1, <5>2
      <4>3. QED
        BY <4>1, <4>2
    <3>2. QED
      BY <1>3, <1>5, <2>1, <3>1
  <2>2. CASE p # q
    <3>1. \A v \in Versions : grade'[p][v] = grade[p][v]
      BY <1>5, <2>2
    <3>2. final'[p] = final[p] /\ (final[p] > 0 => final[p] \in Versions)
      BY <1>1, <1>5, <2>2 DEF Versions
    <3>3. QED
      BY <3>1, <3>2 DEF Chain
  <2>3. QED
    BY <2>1, <2>2
<1>10. Locked'
  <2> SUFFICES ASSUME NEW u \in Teachers, pc'[u] \in {"judging", "versioned", "counted"}
               PROVE  /\ ruling'[u].grade # "none"
                      /\ pc'[u] \in {"versioned", "counted"} =>
                           /\ ruling'[u].version \in Versions
                           /\ \A w \in Versions : w < ruling'[u].version =>
                                grade'[ruling'[u].question][w] # "none"
                      /\ pc'[u] = "counted" =>
                           /\ grade'[ruling'[u].question][ruling'[u].version] = "none"
                           /\ \A x \in Teachers :
                                pc'[x] = "counted" /\ ruling'[x].question = ruling'[u].question => x = u
    BY DEF Locked, VersionFree
  <2>1. u # t /\ pc'[u] = pc[u] /\ ruling'[u] = ruling[u] /\ ruling[u].question \in Questions
    BY <1>1, <1>4 DEF Requests, Rulings
  <2>2. \A x \in Teachers : pc'[x] = "counted" => pc[x] = "counted" /\ ruling'[x] = ruling[x]
    BY <1>1, <1>4 DEF Requests
  <2>3. \A w \in Versions : grade[ruling[u].question][w] # "none" => grade'[ruling[u].question][w] # "none"
    BY <1>3, <1>5, <2>1
  <2>4. pc[u] = "counted" => \A w \in Versions : grade'[ruling[u].question][w] = grade[ruling[u].question][w]
    BY <1>3, <1>5, <2>1
  <2>5. QED
    BY <2>1, <2>2, <2>3, <2>4 DEF Locked, VersionFree
<1>11. QED
  BY <1>1, <1>3, <1>6, <1>7, <1>8, <1>9, <1>10 DEF q, n

\* Every step keeps the invariant.
LEMMA NextInv == IndInv /\ [Next]_vars => IndInv'
<1> SUFFICES ASSUME IndInv, [Next]_vars PROVE IndInv'
  OBVIOUS
<1>1. TypeOK /\ TypeOK'
  BY NextTyped DEF IndInv
<1>2. CASE Quiet
  BY <1>1, <1>2, QuietKeeps DEF IndInv
<1>3. CASE StartAttempt \/ \E d \in Devices : Submit(d)
  BY <1>1, <1>3, BeginKeeps DEF IndInv
<1>4. ASSUME NEW d \in Devices, GradeAttempt(d) PROVE IndInv'
  BY <1>1, <1>4, GradeKeeps DEF IndInv
<1>5. ASSUME NEW t \in Teachers,
             \/ \E q \in Questions, g \in Ruled : CheckException(t, q, g)
             \/ ReadVersion(t) \/ CountOpen(t)
      PROVE  IndInv'
  BY <1>1, <1>5, RulingKeeps DEF IndInv
<1>6. ASSUME NEW t \in Teachers, ResolveException(t) PROVE IndInv'
  BY <1>1, <1>6, ResolveKeeps DEF IndInv
<1>7. QED
  BY <1>1, <1>2, <1>3, <1>4, <1>5, <1>6, QuietSteps DEF Next, DeviceStep, TeacherStep, Requests

\* The invariant of the decisions holds in every reachable state.
THEOREM DecisionsInvariant == Spec => []IndInv
<1>1. QED
  BY InitInv, NextInv, PTL DEF Spec

\* A step keeps the decisions there are and does not go back to an older one.
KeepsDecisions ==
  \A q \in Questions :
    /\ \A v \in Versions : grade[q][v] # "none" => grade'[q][v] = grade[q][v]
    /\ final'[q] >= final[q]

LEMMA NextKeepsDecisions == IndInv /\ [Next]_vars => KeepsDecisions
<1> SUFFICES ASSUME IndInv, [Next]_vars PROVE KeepsDecisions
  OBVIOUS
<1>1. TypeOK /\ TypeOK'
  BY NextTyped DEF IndInv
<1>2. \A q \in Questions : final[q] \in Nat /\ final'[q] \in Nat
  BY <1>1 DEF TypeOK
<1>3. CASE UNCHANGED <<grade, final>>
  BY <1>2, <1>3 DEF KeepsDecisions
<1>4. ASSUME NEW d \in Devices, GradeAttempt(d) PROVE KeepsDecisions
  BY <1>2, <1>4, GradeKeeps DEF KeepsDecisions
<1>5. ASSUME NEW t \in Teachers, ResolveException(t) PROVE KeepsDecisions
  <2>1. /\ grade' = [grade EXCEPT ![ruling[t].question][ruling[t].version] = ruling[t].grade]
        /\ final' = [final EXCEPT ![ruling[t].question] = ruling[t].version]
    BY <1>5 DEF ResolveException
  <2>2. /\ grade \in [Questions -> [Versions -> GradeRow]]
        /\ final \in [Questions -> 0..MaxVersion]
    BY <1>1 DEF TypeOK
  <2>3. QED
    BY <1>2, <1>5, <2>1, <2>2, ResolveKeeps DEF KeepsDecisions
<1>6. CASE Quiet
  BY <1>3, <1>6 DEF Quiet, decided
<1>7. CASE StartAttempt \/ \E d \in Devices : Submit(d)
  BY <1>3, <1>7 DEF StartAttempt, Submit, decided
<1>8. ASSUME NEW t \in Teachers,
             \/ \E q \in Questions, g \in Ruled : CheckException(t, q, g)
             \/ ReadVersion(t) \/ CountOpen(t)
      PROVE  KeepsDecisions
  BY <1>3, <1>8 DEF CheckException, ReadVersion, CountOpen, decided
<1>9. QED
  BY <1>1, <1>4, <1>5, <1>6, <1>7, <1>8, QuietSteps DEF Next, DeviceStep, TeacherStep, Requests

\* No ruling overwrites another or is superseded by an older one.
THEOREM DecisionsKept == Spec => DecisionsAreKept
<1>1. IndInv /\ [Next]_vars => [KeepsDecisions]_vars
  BY NextKeepsDecisions
<1>2. Spec => [][KeepsDecisions]_vars
  BY <1>1, DecisionsInvariant, PTL DEF Spec
<1>3. QED
  BY <1>2 DEF DecisionsAreKept, KeepsDecisions

-----------------------------------------------------------------------------
(* Planned reviews and the mastery *)

\* A step completes no planned review but the one that is being answered.
KeepsPlanned ==
  \A i \in Items :
    review[i] = "planned" /\ review'[i] = "done" =>
      \E d \in Devices : pc[d] = "reviewing" /\ reviewing[d] = i

LEMMA NextKeepsPlanned == TypeOK /\ [Next]_vars => KeepsPlanned
<1> SUFFICES ASSUME TypeOK, [Next]_vars PROVE KeepsPlanned
  OBVIOUS
<1>1. CASE UNCHANGED review
  BY <1>1 DEF KeepsPlanned
<1>2. ASSUME NEW wrong, NEW right, review' = ReviewsAfter(wrong, right) PROVE KeepsPlanned
  BY <1>2 DEF KeepsPlanned, ReviewsAfter
<1>3. ASSUME NEW d \in Devices, AnswerReview(d) PROVE KeepsPlanned
  BY <1>3 DEF AnswerReview, KeepsPlanned, TypeOK
<1>4. ASSUME NEW some, ReviewsFallDue(some) PROVE KeepsPlanned
  BY <1>4 DEF ReviewsFallDue, KeepsPlanned
<1>5. ASSUME NEW d \in Devices, GradeAttempt(d) PROVE KeepsPlanned
  BY <1>2, <1>5 DEF GradeAttempt
<1>6. ASSUME NEW t \in Teachers, ResolveException(t) PROVE KeepsPlanned
  BY <1>2, <1>6 DEF ResolveException
<1>7. CASE StartAttempt \/ TimeIsUp \/ UNCHANGED vars
  BY <1>1, <1>7 DEF StartAttempt, TimeIsUp, vars, derived
<1>8. ASSUME NEW d \in Devices,
             \/ Submit(d) \/ SaveResponse(d) \/ LoadAnswers(d) \/ EvaluateConfirmationOutcome(d)
             \/ \E q \in Questions, a \in Given, n \in 1..MaxSeq : AdmitSave(d, q, a, n)
             \/ \E i \in Items : OpenReview(d, i)
             \/ \E e \in Devices : SaveBreaksGrading(d, e)
      PROVE  KeepsPlanned
  BY <1>1, <1>8 DEF Submit, SaveResponse, LoadAnswers, EvaluateConfirmationOutcome, AdmitSave,
                    OpenReview, SaveBreaksGrading, derived
<1>9. ASSUME NEW r, ReadEvidence(r) \/ StoreMastery(r) \/ Dies(r) PROVE KeepsPlanned
  BY <1>1, <1>9 DEF ReadEvidence, StoreMastery, AfterStoring, Dies, derived
<1>10. ASSUME NEW t \in Teachers,
              \/ ReadVersion(t) \/ CountOpen(t) \/ VersionTaken(t)
              \/ \E q \in Questions, g \in Ruled : CheckException(t, q, g)
       PROVE  KeepsPlanned
  BY <1>1, <1>10 DEF ReadVersion, CountOpen, VersionTaken, CheckException, derived
<1>11. QED
  BY <1>3, <1>4, <1>5, <1>6, <1>7, <1>8, <1>9, <1>10 DEF Next, DeviceStep, TeacherStep

\* Right answers and rulings leave the reviews of later days alone.
THEOREM PlannedReviewsKept == Spec => PlannedReviewsStay
<1>1. TypeOK /\ [Next]_vars => [KeepsPlanned]_vars
  BY NextKeepsPlanned
<1>2. Spec => [][KeepsPlanned]_vars
  BY <1>1, TypeCorrect, PTL DEF Spec
<1>3. QED
  BY <1>2 DEF PlannedReviewsStay, KeepsPlanned

LEMMA InitCurrent == Init => Current
<1> SUFFICES ASSUME Init PROVE Current
  OBVIOUS
<1>1. Evidence = {} /\ mastery = {} /\ \A r \in Requests : pc[r] = "idle"
  BY DEF Init, Evidence, NoScores
<1>2. QED
  BY <1>1 DEF Current

\* What a step that has nothing to do with the mastery leaves alone.
Aside ==
  /\ UNCHANGED <<final, mastery, missed>>
  /\ \A r \in Requests :
       /\ pc'[r] = "recomputing" <=> pc[r] = "recomputing"
       /\ pc'[r] = "storing" <=> pc[r] = "storing"
       /\ pc[r] = "storing" => read'[r] = read[r]

LEMMA AsideKeeps == Current /\ Aside => Current'
  BY DEF Current, Aside, Evidence, Recomputing

LEMMA AsideSteps ==
  ASSUME TypeOK
  PROVE  /\ StartAttempt \/ TimeIsUp \/ UNCHANGED vars => Aside
         /\ \A d \in Devices :
              \/ Submit(d) \/ SaveResponse(d) \/ LoadAnswers(d)
              \/ EvaluateConfirmationOutcome(d) \/ AnswerReview(d)
              => Aside
         /\ \A d \in Devices, q \in Questions, a \in Given, n \in 1..MaxSeq :
              AdmitSave(d, q, a, n) => Aside
         /\ \A d \in Devices, i \in Items : OpenReview(d, i) => Aside
         /\ \A d, e \in Devices : SaveBreaksGrading(d, e) => Aside
         /\ \A t \in Teachers : ReadVersion(t) \/ CountOpen(t) \/ VersionTaken(t) => Aside
         /\ \A t \in Teachers, q \in Questions, g \in Ruled : CheckException(t, q, g) => Aside
         /\ \A some : ReviewsFallDue(some) => Aside
<1> USE DEF Aside, Goto, Requests
<1>1. pc \in [Requests -> DeviceStates \cup TeacherStates]
  BY DEF TypeOK
<1>2. StartAttempt \/ TimeIsUp \/ UNCHANGED vars => Aside
  BY DEF StartAttempt, TimeIsUp, vars, decided, derived, losses, local
<1>3. ASSUME NEW d \in Devices, Submit(d) \/ SaveResponse(d) \/ LoadAnswers(d) PROVE Aside
  BY <1>1, <1>3 DEF Submit, SaveResponse, LoadAnswers, decided, derived, losses, local
<1>4. ASSUME NEW d \in Devices, EvaluateConfirmationOutcome(d) \/ AnswerReview(d) PROVE Aside
  BY <1>1, <1>4 DEF EvaluateConfirmationOutcome, AnswerReview, decided, losses
<1>5. ASSUME NEW d \in Devices, NEW q \in Questions, NEW a \in Given, NEW n \in 1..MaxSeq,
             AdmitSave(d, q, a, n)
      PROVE  Aside
  BY <1>1, <1>5 DEF AdmitSave, decided, derived, losses
<1>6. ASSUME NEW d \in Devices, NEW i \in Items, OpenReview(d, i) PROVE Aside
  BY <1>1, <1>6 DEF OpenReview, decided, derived, losses
<1>7. ASSUME NEW d \in Devices, NEW e \in Devices, SaveBreaksGrading(d, e) PROVE Aside
  BY <1>1, <1>7 DEF SaveBreaksGrading, decided, derived
<1>8. ASSUME NEW t \in Teachers, ReadVersion(t) \/ CountOpen(t) \/ VersionTaken(t) PROVE Aside
  BY <1>1, <1>8 DEF ReadVersion, CountOpen, VersionTaken, decided, derived, losses
<1>9. ASSUME NEW t \in Teachers, NEW q \in Questions, NEW g \in Ruled, CheckException(t, q, g)
      PROVE  Aside
  BY <1>1, <1>9 DEF CheckException, decided, derived, losses
<1>10. ASSUME NEW some, ReviewsFallDue(some) PROVE Aside
  BY <1>10 DEF ReviewsFallDue, decided, losses, local
<1>11. QED
  BY <1>2, <1>3, <1>4, <1>5, <1>6, <1>7, <1>8, <1>9, <1>10

\* A decision is followed by a recomputation of its own.
LEMMA DecisionKeepsCurrent ==
  ASSUME TypeOK, Current, NEW r \in Requests,
         (r \in Devices /\ GradeAttempt(r)) \/ (r \in Teachers /\ ResolveException(r))
  PROVE  Current'
<1>1. pc \in [Requests -> DeviceStates \cup TeacherStates]
  BY DEF TypeOK
<1>2. SUFFICES ASSUME ~missed' PROVE Current'
  BY DEF Current
<1>3. ~missed /\ \A s \in Requests : pc[s] # "storing"
  BY <1>2 DEF GradeAttempt, ResolveException, Overtakes
<1>4. /\ pc[r] \in {"grading", "counted"} /\ pc'[r] \in {"idle", "recomputing"}
      /\ \A s \in Requests \ {r} : pc'[s] = pc[s]
  BY <1>1 DEF GradeAttempt, ResolveException, Goto
<1>5. \A s \in Requests : pc'[s] # "storing"
  BY <1>3, <1>4
<1>6. CASE pc'[r] = "recomputing"
  BY <1>5, <1>6 DEF Current, Recomputing
<1>7. CASE pc'[r] = "idle"
  <2>1. GradeAttempt(r) /\ Confirmed(sheet[r]) = {}
    BY <1>1, <1>7 DEF GradeAttempt, ResolveException, Goto
  <2>2. final' = [q \in Questions |-> final[q]] /\ mastery' = mastery
    BY <2>1 DEF GradeAttempt
  <2>3. Evidence' = Evidence
    BY <2>2 DEF Evidence, TypeOK
  <2>4. Recomputing => Recomputing'
    BY <1>3, <1>4 DEF Recomputing
  <2>5. QED
    BY <1>3, <1>5, <2>2, <2>3, <2>4 DEF Current
<1>8. QED
  BY <1>4, <1>6, <1>7

LEMMA NextCurrent == TypeOK /\ Current /\ [Next]_vars => Current'
<1> SUFFICES ASSUME TypeOK, Current, [Next]_vars PROVE Current'
  OBVIOUS
<1>1. pc \in [Requests -> DeviceStates \cup TeacherStates] /\ read \in [Requests -> SUBSET Decisions]
  BY DEF TypeOK
<1>2. ASSUME Aside PROVE Current'
  BY <1>2, AsideKeeps
<1>3. ASSUME NEW r \in Requests, ReadEvidence(r) PROVE Current'
  <2>1. /\ pc' = [pc EXCEPT ![r] = "storing"] /\ read' = [read EXCEPT ![r] = Evidence]
        /\ UNCHANGED <<final, mastery, missed>>
    BY <1>3 DEF ReadEvidence, Goto, decided, derived, losses
  <2>2. Evidence' = Evidence /\ Recomputing'
    BY <1>1, <2>1 DEF Evidence, Recomputing
  <2>3. QED
    BY <1>1, <2>1, <2>2 DEF Current
<1>4. ASSUME NEW r \in Requests, StoreMastery(r) PROVE Current'
  <2>1. /\ pc[r] = "storing" /\ mastery' = read[r] /\ read' = [read EXCEPT ![r] = {}]
        /\ UNCHANGED <<final, missed>>
    BY <1>4 DEF StoreMastery, AfterStoring, decided, losses
  <2>2. pc'[r] # "storing" /\ \A s \in Requests \ {r} : pc'[s] = pc[s]
    BY <1>1, <1>4 DEF StoreMastery, AfterStoring, Goto
  <2>3. Evidence' = Evidence
    BY <2>1 DEF Evidence
  <2>4. QED
    BY <1>1, <2>1, <2>2, <2>3 DEF Current
<1>5. ASSUME NEW r \in Requests, Dies(r) PROVE Current'
  <2>1. /\ UNCHANGED <<final, mastery>> /\ pc' = [pc EXCEPT ![r] = "idle"]
        /\ read' = [read EXCEPT ![r] = {}]
    BY <1>5 DEF Dies, Goto, decided, derived
  <2>2. missed' = (missed \/ pc[r] \in {"recomputing", "storing"})
    BY <1>5 DEF Dies
  <2>3. CASE missed'
    BY <2>3 DEF Current
  <2>4. CASE ~missed'
    <3>1. ~missed /\ pc[r] \notin {"recomputing", "storing"}
      BY <2>2, <2>4
    <3>2. Aside
      BY <1>1, <2>1, <2>4, <3>1, <1>5 DEF Aside, Dies, TypeOK
    <3>3. QED
      BY <3>2, AsideKeeps
  <2>5. QED
    BY <2>3, <2>4
<1>6. ASSUME NEW d \in Devices, GradeAttempt(d) PROVE Current'
  BY <1>6, DecisionKeepsCurrent DEF Requests
<1>7. ASSUME NEW t \in Teachers, ResolveException(t) PROVE Current'
  BY <1>7, DecisionKeepsCurrent DEF Requests
<1>8. QED
  BY <1>2, <1>3, <1>4, <1>5, <1>6, <1>7, AsideSteps
     DEF Next, DeviceStep, TeacherStep, Requests

\* Whatever overlaps, the mastery is that of the final decisions when no
\* recomputation is under way, unless one died or was overtaken.
THEOREM MasteryIsCurrent == Spec => []MasteryFollows
<1>1. Current => MasteryFollows
  BY DEF Current, MasteryFollows
<1>2. QED
  BY <1>1, InitCurrent, NextCurrent, TypeCorrect, PTL DEF Spec

-----------------------------------------------------------------------------
(* A finalized attempt adds up *)

\* The steps that touch neither a decision nor a ruling.
LEMMA QuietKeepsFinal ==
  ASSUME FinalInv, Quiet
  PROVE  FinalInv'
<1>1. UNCHANGED <<status, grade, final, exception, total>>
  BY DEF Quiet, decided
<1>2. Accounted' /\ FinalizedAddsUp'
  BY <1>1 DEF FinalInv, Accounted, FinalizedAddsUp, JudgedTwice
<1>3. ASSUME NEW t \in Teachers, pc'[t] \in {"judging", "versioned", "counted"}
      PROVE  pc'[t] = pc[t] /\ ruling'[t] = ruling[t]
  BY <1>3 DEF Quiet
<1>4. OnExceptions'
  BY <1>1, <1>3 DEF FinalInv, OnExceptions
<1>5. Tallied'
  BY <1>1, <1>3 DEF FinalInv, Tallied, JudgedTwice
<1>6. QED
  BY <1>2, <1>4, <1>5 DEF FinalInv

\* Beginning and submitting decide nothing.
LEMMA BeginKeepsFinal ==
  ASSUME IndInv, FinalInv, StartAttempt \/ \E d \in Devices : Submit(d)
  PROVE  FinalInv'
<1>1. UNCHANGED <<grade, final, exception, total, ruling>>
  BY DEF StartAttempt, Submit, decided, local
<1>2. \A t \in Teachers : pc'[t] = pc[t]
  <2>1. pc \in [Requests -> DeviceStates \cup TeacherStates]
    BY DEF IndInv, TypeOK
  <2>2. QED
    BY <2>1, AttemptAssumption DEF StartAttempt, Submit, Goto, Requests
<1>3. status' = status \/ status' \in {"in_progress", "submitted"}
  BY DEF StartAttempt, Submit
<1>4. Accounted' /\ FinalizedAddsUp'
  BY <1>1, <1>3 DEF FinalInv, Accounted, FinalizedAddsUp, JudgedTwice
<1>5. OnExceptions'
  BY <1>1, <1>2 DEF FinalInv, OnExceptions
<1>6. Tallied'
  BY <1>1, <1>2 DEF FinalInv, Tallied, JudgedTwice
<1>7. QED
  BY <1>4, <1>5, <1>6 DEF FinalInv

\* Grading decides or leaves an exception, and adds up what it decides.
LEMMA GradeKeepsFinal ==
  ASSUME IndInv, FinalInv, NEW d \in Devices, GradeAttempt(d)
  PROVE  FinalInv'
<1> DEFINE sure == Confirmed(sheet[d])
<1>1. pc[d] = "grading" /\ status = "submitted" /\ pc \in [Requests -> DeviceStates \cup TeacherStates]
  BY DEF GradeAttempt, OneGrader, IndInv, TypeOK
<1>2. /\ \A q \in Questions : exception[q] = "none" /\ final[q] = 0
      /\ \A t \in Teachers : pc[t] = "idle"
  BY <1>1 DEF IndInv, Fresh
<1>3. \A t \in Teachers : pc'[t] = "idle"
  BY <1>1, <1>2, AttemptAssumption DEF GradeAttempt, Goto, Requests
<1>4. \A q \in Questions :
        /\ q \in sure => final'[q] = 1 /\ exception'[q] = "none"
        /\ q \notin sure => exception'[q] = "open"
  BY <1>2 DEF GradeAttempt
<1>5. ASSUME NEW q \in Questions, q \notin Unreadable
      PROVE  grade'[q][1] = Verdict(q, sheet[d][q]) /\ grade'[q][1] # "none"
  <2>1. grade[q] \in [Versions -> GradeRow] /\ 1 \in Versions /\ sheet[d][q] \in AnswerRow
    BY AttemptAssumption DEF IndInv, TypeOK, Versions
  <2>2. grade'[q][1] = Verdict(q, sheet[d][q])
    BY <1>5, <2>1 DEF GradeAttempt
  <2>3. QED
    BY <2>1, <2>2, VerdictTyped
<1>6. ASSUME NEW q \in Questions, q \in sure
      PROVE  total'[q] = Points(grade'[q][final'[q]])
  <2>1. q \notin Unreadable
    BY <1>6 DEF Confirmed
  <2>2. total'[q] = Points(Verdict(q, sheet[d][q]))
    BY <1>6 DEF GradeAttempt
  <2>3. QED
    BY <1>4, <1>5, <1>6, <2>1, <2>2
<1>7. status' = "finalized" => \A q \in Questions : q \in sure
  BY DEF GradeAttempt, FinalStatus
<1>8. FinalizedAddsUp'
  BY <1>4, <1>6, <1>7 DEF FinalizedAddsUp
<1>9. Accounted' /\ OnExceptions' /\ Tallied'
  BY <1>3, <1>4, <1>5 DEF Accounted, OnExceptions, Tallied
<1>10. QED
  BY <1>8, <1>9 DEF FinalInv

\* A ruling begins on an open exception, and counts what there is.
LEMMA RulingKeepsFinal ==
  ASSUME IndInv, FinalInv, NEW t \in Teachers,
         \/ \E q \in Questions, g \in Ruled : CheckException(t, q, g)
         \/ ReadVersion(t) \/ CountOpen(t)
  PROVE  FinalInv'
<1>1. /\ pc \in [Requests -> DeviceStates \cup TeacherStates] /\ t \in Requests
      /\ ruling \in [Teachers -> Rulings] /\ ruling[t] \in Rulings
      /\ final \in [Questions -> 0..MaxVersion]
  BY DEF IndInv, TypeOK, Requests
<1>2. UNCHANGED <<status, grade, final, exception, total>>
  BY DEF CheckException, ReadVersion, CountOpen, record, decided
<1>3. /\ \A u \in Teachers \ {t} : pc'[u] = pc[u] /\ ruling'[u] = ruling[u]
  BY <1>1 DEF CheckException, ReadVersion, CountOpen, Goto, Requests
<1>4. Accounted' /\ FinalizedAddsUp'
  BY <1>2 DEF FinalInv, Accounted, FinalizedAddsUp, JudgedTwice
<1>5. ASSUME NEW q \in Questions, NEW g \in Ruled, CheckException(t, q, g) PROVE OnExceptions' /\ Tallied'
  <2>1. pc'[t] = "judging" /\ ruling'[t].question = q /\ exception[q] = "open"
    BY <1>1, <1>5 DEF CheckException, Goto, NoRuling
  <2>2. QED
    BY <1>2, <1>3, <2>1 DEF FinalInv, OnExceptions, Tallied, JudgedTwice
<1>6. CASE ReadVersion(t)
  <2>1. pc[t] = "judging" /\ pc'[t] = "versioned" /\ ruling'[t].question = ruling[t].question
    BY <1>1, <1>6 DEF ReadVersion, Goto, Rulings
  <2>2. QED
    BY <1>2, <1>3, <1>4, <2>1 DEF FinalInv, OnExceptions, Tallied, JudgedTwice
<1>7. CASE CountOpen(t)
  <2> DEFINE q == ruling[t].question
             left == {p \in Questions \ {q} : exception[p] = "open"}
             scores == [p \in Questions |->
                IF p = q THEN Points(ruling[t].grade)
                ELSE IF final[p] > 0 THEN Points(grade[p][final[p]]) ELSE 0]
  <2>1. pc[t] = "versioned" /\ pc'[t] = "counted" /\ q \in Questions
    BY <1>1, <1>7 DEF CountOpen, Goto, Rulings
  <2>2. /\ ruling'[t].question = q /\ ruling'[t].grade = ruling[t].grade
        /\ ruling'[t].open = left /\ ruling'[t].total = scores
    BY <1>1, <1>7 DEF CountOpen, Rulings
  <2>3. exception[q] # "none"
    BY <2>1 DEF FinalInv, OnExceptions
  <2>4. OnExceptions'
    BY <1>2, <1>3, <2>1, <2>2, <2>3 DEF FinalInv, OnExceptions
  <2>5. \A p \in Questions : final[p] > 0 \/ exception[p] = "open"
    <3>1. status \in {"review_required", "finalized"}
      BY <2>1 DEF IndInv, TypeOK, Fresh
    <3>2. QED
      BY <3>1 DEF FinalInv, Accounted
  <2>6. \A p \in Questions \ (left \cup {q}) :
          exception[p] # "open" /\ scores[p] = Points(grade[p][final[p]])
    BY <2>5
  <2>7. scores[q] = Points(ruling[t].grade)
    BY <2>1
  <2> HIDE DEF q, left, scores
  <2>8. Tallied'
    BY <1>2, <1>3, <2>1, <2>2, <2>3, <2>6, <2>7 DEF FinalInv, Tallied, JudgedTwice
  <2>9. QED
    BY <1>4, <2>4, <2>8 DEF FinalInv
<1>8. QED
  BY <1>4, <1>5, <1>6, <1>7 DEF FinalInv

\* A ruling that commits finalizes the attempt only if every other answer is
\* decided, and the rulings that counted before it either saw its exception
\* open or know that the answer has been judged twice.
LEMMA ResolveKeepsFinal ==
  ASSUME IndInv, FinalInv, NEW t \in Teachers, ResolveException(t)
  PROVE  FinalInv'
<1> DEFINE q == ruling[t].question
           n == ruling[t].version
           g == ruling[t].grade
           first == IF q \in Unreadable THEN 1 ELSE 2
<1>1. /\ pc \in [Requests -> DeviceStates \cup TeacherStates] /\ t \in Requests
      /\ ruling \in [Teachers -> Rulings] /\ q \in Questions
      /\ grade \in [Questions -> [Versions -> GradeRow]]
      /\ exception \in [Questions -> {"none", "open", "resolved"}]
      /\ final \in [Questions -> 0..MaxVersion]
      /\ total' = ruling[t].total /\ status' = FinalStatus(ruling[t].open)
      /\ pc[t] = "counted"
  BY DEF IndInv, TypeOK, Requests, Rulings, ResolveException
<1>2. n \in Versions /\ grade[q][n] = "none" /\ g # "none"
  BY <1>1, ResolveKeeps DEF IndInv, Locked
<1>3. /\ grade' = [grade EXCEPT ![q][n] = g] /\ final' = [final EXCEPT ![q] = n]
      /\ exception' = [exception EXCEPT ![q] = "resolved"]
      /\ ruling' = [ruling EXCEPT ![t] = NoRuling] /\ pc' = [pc EXCEPT ![t] = "recomputing"]
  BY DEF ResolveException, Goto
<1>4. status \in {"review_required", "finalized"}
  BY <1>1 DEF IndInv, TypeOK, Fresh
<1>5. \A p \in Questions : final[p] > 0 \/ exception[p] = "open"
  BY <1>4 DEF FinalInv, Accounted
<1>6. /\ exception[q] # "none" /\ ruling[t].total[q] = Points(g)
      /\ \A p \in Questions \ (ruling[t].open \cup {q}) :
           /\ exception[p] # "open"
           /\ JudgedTwice(p) \/ ruling[t].total[p] = Points(grade[p][final[p]])
  BY <1>1 DEF FinalInv, Tallied
<1> HIDE DEF q, n, g
<1>7. /\ grade'[q][n] = g /\ final'[q] = n /\ exception'[q] = "resolved"
      /\ \A v \in Versions : v # n => grade'[q][v] = grade[q][v]
      /\ \A p \in Questions : p # q =>
           final'[p] = final[p] /\ exception'[p] = exception[p] /\ grade'[p] = grade[p]
  BY <1>1, <1>2, <1>3
<1>8. n \in Nat /\ n > 0 /\ first \in {1, 2}
  BY <1>2 DEF Versions
<1>9. \A p \in Questions : JudgedTwice(p) => JudgedTwice(p)'
  BY <1>2, <1>7 DEF JudgedTwice
<1>10. exception[q] = "resolved" => n > first
  <2> SUFFICES ASSUME exception[q] = "resolved" PROVE n > first
    OBVIOUS
  <2>1. PICK v \in Versions : grade[q][v] # "none" /\ v >= first
    BY <1>1 DEF FinalInv, Accounted
  <2>2. n >= v
    BY <1>1, <1>2, <2>1 DEF IndInv, Chain, Versions
  <2>3. n # v
    BY <1>2, <2>1
  <2>4. QED
    BY <1>8, <2>1, <2>2, <2>3 DEF Versions
<1>11. \A p \in Questions : p = q /\ exception[p] = "resolved" => JudgedTwice(p)'
  BY <1>2, <1>7, <1>8, <1>10 DEF JudgedTwice
<1>12. q \notin Unreadable => grade[q][1] # "none"
  BY <1>1, <1>4 DEF FinalInv, Accounted
<1>13. n >= first
  BY <1>2, <1>8, <1>12
<1>14. Accounted'
  <2> SUFFICES ASSUME NEW p \in Questions
               PROVE  /\ final'[p] > 0 \/ exception'[p] = "open"
                      /\ exception'[p] = "resolved" => final'[p] > 0
                      /\ exception'[p] = "resolved" => \E v \in Versions :
                           grade'[p][v] # "none" /\ v >= (IF p \in Unreadable THEN 1 ELSE 2)
                      /\ p \notin Unreadable => grade'[p][1] # "none"
    BY DEF Accounted
  <2>1. CASE p = q
    <3>1. q \notin Unreadable => grade'[q][1] # "none"
      BY <1>2, <1>7, <1>12, AttemptAssumption DEF Versions
    <3>2. grade'[q][n] # "none" /\ n >= (IF q \in Unreadable THEN 1 ELSE 2)
      BY <1>2, <1>7, <1>13
    <3>3. QED
      BY <1>2, <1>7, <1>8, <2>1, <3>1, <3>2
  <2>2. CASE p # q
    BY <1>4, <1>5, <1>7, <2>2 DEF FinalInv, Accounted
  <2>3. QED
    BY <2>1, <2>2
<1>15. FinalizedAddsUp'
  <2> SUFFICES ASSUME status' = "finalized", NEW p \in Questions
               PROVE  /\ exception'[p] # "open" /\ final'[p] > 0
                      /\ ~JudgedTwice(p)' => total'[p] = Points(grade'[p][final'[p]])
    BY DEF FinalizedAddsUp
  <2>1. ruling[t].open = {}
    BY <1>1 DEF FinalStatus
  <2>2. CASE p = q
    BY <1>1, <1>6, <1>7, <1>8, <2>2
  <2>3. CASE p # q
    BY <1>1, <1>5, <1>6, <1>7, <1>9, <2>1, <2>3
  <2>4. QED
    BY <2>2, <2>3
<1>16. OnExceptions' /\ Tallied'
  <2>1. ASSUME NEW u \in Teachers, pc'[u] \in {"judging", "versioned", "counted"}
        PROVE  /\ u # t /\ pc'[u] = pc[u] /\ ruling'[u] = ruling[u]
               /\ ruling[u].question \in Questions
    BY <1>1, <1>3, <2>1 DEF Requests, Rulings
  <2>2. OnExceptions'
    BY <1>7, <2>1 DEF FinalInv, OnExceptions
  <2>3. ASSUME NEW u \in Teachers, pc'[u] = "counted"
        PROVE  /\ exception'[ruling[u].question] # "none"
               /\ ruling[u].total[ruling[u].question] = Points(ruling[u].grade)
               /\ \A p \in Questions \ (ruling[u].open \cup {ruling[u].question}) :
                    /\ exception'[p] # "open"
                    /\ JudgedTwice(p)' \/ ruling[u].total[p] = Points(grade'[p][final'[p]])
    <3>1. pc[u] = "counted" /\ ruling[u].question \in Questions
      BY <2>1, <2>3
    <3>2. /\ exception[ruling[u].question] # "none"
          /\ ruling[u].total[ruling[u].question] = Points(ruling[u].grade)
          /\ \A p \in Questions \ (ruling[u].open \cup {ruling[u].question}) :
               /\ exception[p] # "open"
               /\ JudgedTwice(p) \/ ruling[u].total[p] = Points(grade[p][final[p]])
      BY <3>1 DEF FinalInv, Tallied
    <3>3. ASSUME NEW p \in Questions \ (ruling[u].open \cup {ruling[u].question})
          PROVE  /\ exception'[p] # "open"
                 /\ JudgedTwice(p)' \/ ruling[u].total[p] = Points(grade'[p][final'[p]])
      <4>1. CASE p = q
        BY <1>1, <1>6, <1>7, <1>11, <3>2, <4>1
      <4>2. CASE p # q
        BY <1>7, <1>9, <3>2, <4>2
      <4>3. QED
        BY <4>1, <4>2
    <3>4. QED
      BY <1>7, <3>1, <3>2, <3>3
  <2>4. Tallied'
    BY <2>1, <2>3 DEF Tallied
  <2>5. QED
    BY <2>2, <2>4
<1>17. QED
  BY <1>14, <1>15, <1>16 DEF FinalInv

LEMMA NextFinal == IndInv /\ FinalInv /\ [Next]_vars => FinalInv'
<1> SUFFICES ASSUME IndInv, FinalInv, [Next]_vars PROVE FinalInv'
  OBVIOUS
<1>1. TypeOK
  BY DEF IndInv
<1>2. CASE Quiet
  BY <1>2, QuietKeepsFinal
<1>3. CASE StartAttempt \/ \E d \in Devices : Submit(d)
  BY <1>3, BeginKeepsFinal
<1>4. ASSUME NEW d \in Devices, GradeAttempt(d) PROVE FinalInv'
  BY <1>4, GradeKeepsFinal
<1>5. ASSUME NEW t \in Teachers,
             \/ \E q \in Questions, g \in Ruled : CheckException(t, q, g)
             \/ ReadVersion(t) \/ CountOpen(t)
      PROVE  FinalInv'
  BY <1>5, RulingKeepsFinal
<1>6. ASSUME NEW t \in Teachers, ResolveException(t) PROVE FinalInv'
  BY <1>6, ResolveKeepsFinal
<1>7. QED
  BY <1>1, <1>2, <1>3, <1>4, <1>5, <1>6, QuietSteps DEF Next, DeviceStep, TeacherStep, Requests

LEMMA InitFinal == Init => FinalInv
<1> SUFFICES ASSUME Init PROVE FinalInv
  OBVIOUS
<1>1. \A t \in Teachers : pc[t] = "idle"
  BY DEF Init, Requests
<1>2. status = "none" /\ \A q \in Questions : exception[q] = "none"
  BY DEF Init
<1>3. QED
  BY <1>1, <1>2 DEF FinalInv, Accounted, OnExceptions, Tallied, FinalizedAddsUp

\* However rulings overlap, a finalized attempt has a final decision on every
\* answer and no open exception, and its total adds those decisions up.
THEOREM FinalizedCorrect == Spec => []FinalizedAddsUp
<1>1. FinalInv => FinalizedAddsUp
  BY DEF FinalInv
<1>2. QED
  BY <1>1, InitFinal, NextFinal, DecisionsInvariant, PTL DEF Spec

-----------------------------------------------------------------------------
(* Grading is about the answers on record *)

\* Saving changes no answer but the one that it marks late.
LEMMA UpsertKeeps ==
  ASSUME TypeOK, NEW s \in Drafts, Upsert(s), status # "in_progress"
  PROVE  late \subseteq late' /\ \A q \in Questions \ late' : answer'[q] = answer[q]
<1>1. s.question \in Questions
  BY DEF Drafts
<1>2. QED
  BY <1>1 DEF Upsert, TypeOK

\* The steps after which the answers, the sheets that are being graded and the
\* decisions are what they were, but for answers that are marked late.
Apart ==
  /\ UNCHANGED grade
  /\ status' \in {"review_required", "finalized"} => status \in {"review_required", "finalized"}
  /\ \A d \in Devices : pc'[d] = "grading" => pc[d] = "grading" /\ sheet'[d] = sheet[d]
  /\ status # "in_progress" =>
       late \subseteq late' /\ \A q \in Questions \ late' : answer'[q] = answer[q]

AsSubmitted == SheetKept /\ GradedAsSubmitted

LEMMA ApartKeeps ==
  ASSUME IndInv, AsSubmitted, Apart
  PROVE  AsSubmitted'
<1>1. SheetKept'
  BY DEF AsSubmitted, SheetKept, Apart, IndInv, OneGrader
<1>2. GradedAsSubmitted'
  BY DEF AsSubmitted, GradedAsSubmitted, Apart, Verdict
<1>3. QED
  BY <1>1, <1>2 DEF AsSubmitted

LEMMA NextAsSubmitted == IndInv /\ FinalInv /\ AsSubmitted /\ [Next]_vars => AsSubmitted'
<1> SUFFICES ASSUME IndInv, FinalInv, AsSubmitted, [Next]_vars PROVE AsSubmitted'
  OBVIOUS
<1>1. /\ TypeOK /\ pc \in [Requests -> DeviceStates \cup TeacherStates]
      /\ sheet \in [Devices -> [Questions -> AnswerRow]]
  BY DEF IndInv, TypeOK
<1> USE AttemptAssumption
<1>2. CASE StartAttempt \/ TimeIsUp \/ UNCHANGED vars
  BY <1>2, ApartKeeps DEF StartAttempt, TimeIsUp, vars, record, decided, local, Apart
<1>3. ASSUME NEW d \in Devices,
             \/ Submit(d) \/ EvaluateConfirmationOutcome(d) \/ AnswerReview(d)
             \/ \E q \in Questions, a \in Given, n \in 1..MaxSeq : AdmitSave(d, q, a, n)
             \/ \E i \in Items : OpenReview(d, i)
      PROVE  AsSubmitted'
  BY <1>1, <1>3, ApartKeeps DEF Submit, EvaluateConfirmationOutcome, AnswerReview, AdmitSave,
                               OpenReview, record, decided, local, Apart, Goto, Requests
<1>4. ASSUME NEW d \in Devices, SaveResponse(d) PROVE AsSubmitted'
  <2>1. draft[d] \in Drafts
    BY <1>1 DEF TypeOK
  <2>2. status # "in_progress" =>
          late \subseteq late' /\ \A q \in Questions \ late' : answer'[q] = answer[q]
    BY <1>1, <1>4, <2>1, UpsertKeeps DEF SaveResponse
  <2>3. QED
    BY <1>1, <1>4, <2>2, ApartKeeps DEF SaveResponse, decided, Apart, Goto, Requests
<1>5. ASSUME NEW d \in Devices, NEW e \in Devices, SaveBreaksGrading(d, e) PROVE AsSubmitted'
  <2>1. draft[e] \in Drafts
    BY <1>1 DEF TypeOK
  <2>2. status # "in_progress" =>
          late \subseteq late' /\ \A q \in Questions \ late' : answer'[q] = answer[q]
    BY <1>1, <1>5, <2>1, UpsertKeeps DEF SaveBreaksGrading
  <2>3. QED
    BY <1>1, <1>5, <2>2, ApartKeeps DEF SaveBreaksGrading, decided, Apart, Requests
<1>6. ASSUME NEW d \in Devices, LoadAnswers(d) PROVE AsSubmitted'
  <2>1. /\ UNCHANGED <<status, answer, late, grade>> /\ sheet'[d] = answer
        /\ \A e \in Devices \ {d} : pc'[e] = pc[e] /\ sheet'[e] = sheet[e]
    BY <1>1, <1>6 DEF LoadAnswers, record, decided, Goto, Requests
  <2>2. QED
    BY <2>1 DEF AsSubmitted, SheetKept, GradedAsSubmitted, Verdict
<1>7. ASSUME NEW d \in Devices, GradeAttempt(d) PROVE AsSubmitted'
  <2>1. pc[d] = "grading" /\ UNCHANGED late
    BY <1>7 DEF GradeAttempt
  <2>2. \A e \in Devices : pc'[e] # "grading"
    BY <1>1, <1>7, <2>1 DEF GradeAttempt, Goto, Requests, IndInv, OneGrader
  <2>3. ASSUME NEW q \in Questions \ (Unreadable \cup late)
        PROVE  grade'[q][1] = Verdict(q, answer'[q])
    <3>1. sheet[d][q] = answer[q]
      BY <2>1 DEF AsSubmitted, SheetKept
    <3>2. grade[q] \in [Versions -> GradeRow] /\ 1 \in Versions
      BY <1>1 DEF TypeOK, Versions
    <3>3. grade'[q][1] = Verdict(q, sheet[d][q])
      BY <1>7, <3>2 DEF GradeAttempt
    <3>4. answer'[q] = answer[q] \/ (answer[q] = "none" /\ answer'[q] = "blank")
      BY <1>7 DEF GradeAttempt
    <3>5. QED
      BY <3>1, <3>3, <3>4 DEF Verdict
  <2>4. QED
    BY <2>1, <2>2, <2>3 DEF AsSubmitted, SheetKept, GradedAsSubmitted
<1>8. ASSUME NEW r \in Requests, ReadEvidence(r) \/ StoreMastery(r) \/ Dies(r) PROVE AsSubmitted'
  <2>1. UNCHANGED <<status, answer, late, grade>>
    BY <1>8 DEF ReadEvidence, StoreMastery, AfterStoring, Dies, record, decided
  <2>2. \A d \in Devices : pc'[d] = "grading" => d # r /\ pc'[d] = pc[d]
    BY <1>1, <1>8 DEF ReadEvidence, StoreMastery, AfterStoring, Dies, Goto, Requests
  <2>3. \A d \in Devices : d # r => sheet'[d] = sheet[d]
    BY <1>1, <1>8 DEF ReadEvidence, StoreMastery, AfterStoring, Dies
  <2>4. QED
    BY <2>1, <2>2, <2>3, ApartKeeps DEF Apart
<1>9. ASSUME NEW t \in Teachers,
             \/ ReadVersion(t) \/ CountOpen(t) \/ VersionTaken(t)
             \/ \E q \in Questions, g \in Ruled : CheckException(t, q, g)
      PROVE  AsSubmitted'
  BY <1>1, <1>9, ApartKeeps DEF ReadVersion, CountOpen, VersionTaken, CheckException, record,
                               decided, Apart, Goto, Requests
<1>10. ASSUME NEW t \in Teachers, ResolveException(t) PROVE AsSubmitted'
  <2>1. UNCHANGED <<answer, late, sheet>> /\ \A d \in Devices : pc'[d] = pc[d]
    BY <1>1, <1>10 DEF ResolveException, Goto, Requests
  <2>2. status \in {"review_required", "finalized"}
    BY <1>10 DEF ResolveException, IndInv, TypeOK, Fresh
  <2>3. ASSUME NEW q \in Questions \ Unreadable
        PROVE  grade'[q][1] = grade[q][1]
    <3>1. grade[q][1] # "none" /\ 1 \in Versions
      BY <2>2 DEF FinalInv, Accounted, Versions
    <3>2. /\ grade[ruling[t].question][ruling[t].version] = "none"
          /\ grade' = [grade EXCEPT ![ruling[t].question][ruling[t].version] = ruling[t].grade]
          /\ grade \in [Questions -> [Versions -> GradeRow]]
      BY <1>1, <1>10, ResolveKeeps DEF ResolveException, TypeOK
    <3>3. QED
      BY <3>1, <3>2
  <2>4. QED
    BY <2>1, <2>2, <2>3 DEF AsSubmitted, SheetKept, GradedAsSubmitted, Verdict
<1>11. ASSUME NEW some, ReviewsFallDue(some) PROVE AsSubmitted'
  BY <1>11, ApartKeeps DEF ReviewsFallDue, record, decided, local, Apart
<1>12. QED
  BY <1>2, <1>3, <1>4, <1>5, <1>6, <1>7, <1>8, <1>9, <1>10, <1>11
     DEF Next, DeviceStep, TeacherStep, Requests

\* Whatever was being saved while it was submitted, what is graded is what is
\* stored, unless a save is marked late.
THEOREM SubmittedIsGraded == Spec => []GradedAsSubmitted
<1>1. Init => AsSubmitted
  BY DEF Init, AsSubmitted, SheetKept, GradedAsSubmitted, Requests
<1>2. AsSubmitted => GradedAsSubmitted
  BY DEF AsSubmitted
<1>3. IndInv /\ FinalInv /\ AsSubmitted /\ [Next]_vars => (IndInv /\ FinalInv /\ AsSubmitted)'
  BY NextInv, NextFinal, NextAsSubmitted
<1>4. QED
  BY <1>1, <1>2, <1>3, InitInv, InitFinal, PTL DEF Spec

-----------------------------------------------------------------------------
(* Submissions are processed                                               *)

\* A submitted attempt is being graded.
BeingGraded ==
  status = "submitted" /\ ~stranded => \E d \in Devices : pc[d] \in {"loading", "grading"}

\* The scores that a request gave are those of the attempt, and it is about to
\* compare them with the pass mark.
Scored(d) == [q \in Questions |-> Points(Verdict(q, sheet[d][q]))]
AfterGrading == {"recomputing", "storing", "evaluating"}
Pending(d) ==
  /\ pc[d] \in AfterGrading
  /\ Confirmed(sheet[d]) = Questions
  /\ total = Scored(d)

Unexcepted == status = "finalized" /\ lost = 0 /\ \A q \in Questions : exception[q] = "none"
Concluded ==
  Unexcepted /\ Sum(total) < PassMark => plans > 0 \/ \E d \in Devices : Pending(d)

Processed == BeingGraded /\ Concluded

\* Most steps leave alone what is pending.
LEMMA LeftPending ==
  ASSUME Concluded, status' = "finalized" => status = "finalized", UNCHANGED <<exception, total>>,
         lost' = 0 => lost = 0, UNCHANGED plans,
         \A d \in Devices : pc[d] \in AfterGrading =>
            pc'[d] \in AfterGrading /\ sheet'[d] = sheet[d]
  PROVE  Concluded'
<1>1. Unexcepted' => Unexcepted
  BY DEF Unexcepted
<1>2. ASSUME NEW d \in Devices, Pending(d) PROVE Pending(d)'
  <2>1. pc'[d] \in AfterGrading /\ sheet'[d] = sheet[d] /\ total' = total
    BY <1>2 DEF Pending
  <2>2. Confirmed(sheet[d])' = Confirmed(sheet[d])
    BY <2>1 DEF Confirmed, Verdict
  <2>3. Scored(d)' = Scored(d)
    BY <2>1 DEF Scored, Points, Verdict
  <2> QED BY <1>2, <2>1, <2>2, <2>3 DEF Pending
<1>3. (Sum(total) < PassMark)' => Sum(total) < PassMark
  OBVIOUS
<1> QED BY <1>1, <1>2, <1>3 DEF Concluded

\* While the attempt is being graded nothing is concluded.
LEMMA NotYetConcluded == ASSUME status' # "finalized" PROVE Concluded'
BY DEF Concluded, Unexcepted

LEMMA InitProcessed == Init => Processed
BY DEF Init, Processed, BeingGraded, Concluded, Unexcepted

\* Requests of the learner outside grading, and saves.
LEMMA LearnerKeepsProcessed ==
  ASSUME IndInv, Processed, NEW d \in Devices,
         \/ Submit(d) \/ SaveResponse(d) \/ LoadAnswers(d) \/ AnswerReview(d)
         \/ \E q \in Questions, a \in Given, n \in 1..MaxSeq : AdmitSave(d, q, a, n)
         \/ \E i \in Items : OpenReview(d, i)
  PROVE  Processed'
<1>0. pc \in [Requests -> DeviceStates \cup TeacherStates] /\ d \in Requests
  BY DEF IndInv, TypeOK, Requests
<1>a. sheet \in [Devices -> [Questions -> AnswerRow]]
  BY DEF IndInv, TypeOK
<1>1. /\ UNCHANGED <<exception, total, plans, lost, stranded>>
      /\ \A e \in Devices \ {d} : pc'[e] = pc[e] /\ sheet'[e] = sheet[e]
      /\ pc[d] \notin AfterGrading
  BY <1>0, <1>a DEF Submit, SaveResponse, LoadAnswers, AnswerReview, AdmitSave, OpenReview, Goto, AfterGrading,
         decided, derived, losses, record, local, Requests
<1>2. status' = "finalized" => status = "finalized"
  BY DEF Submit, SaveResponse, LoadAnswers, AnswerReview, AdmitSave, OpenReview, record
<1>3. Concluded'
  BY <1>1, <1>2, LeftPending DEF Processed
<1>4. BeingGraded'
  <2>1. CASE Submit(d)
    BY <1>0, <1>1, <2>1 DEF Submit, Goto, Processed, BeingGraded
  <2>2. CASE LoadAnswers(d)
    BY <1>0, <1>1, <2>2 DEF LoadAnswers, Goto, Processed, BeingGraded
  <2>3. CASE ~Submit(d) /\ ~LoadAnswers(d)
    <3>1. status' = status /\ pc[d] \notin {"loading", "grading"}
      BY <2>3 DEF SaveResponse, AnswerReview, AdmitSave, OpenReview, record
    <3> QED BY <1>1, <3>1 DEF Processed, BeingGraded
  <2> QED BY <2>1, <2>2, <2>3
<1> QED BY <1>3, <1>4 DEF Processed

\* Grading hands its scores to the comparison, and the comparison plans.
LEMMA GradingKeepsProcessed ==
  ASSUME IndInv, Processed, NEW d \in Devices,
         GradeAttempt(d) \/ EvaluateConfirmationOutcome(d) \/ \E e \in Devices : SaveBreaksGrading(d, e)
  PROVE  Processed'
<1>0. /\ pc \in [Requests -> DeviceStates \cup TeacherStates] /\ d \in Requests
      /\ sheet \in [Devices -> [Questions -> AnswerRow]] /\ plans \in Nat
  BY DEF IndInv, TypeOK, Requests
<1>1. CASE GradeAttempt(d)
  <2> DEFINE sure == Confirmed(sheet[d])
  <2>1. pc[d] = "grading" /\ status = "submitted" /\ \A q \in Questions : exception[q] = "none"
    BY <1>1 DEF GradeAttempt, IndInv, OneGrader, Fresh
  <2>2. /\ status' = FinalStatus(Questions \ sure)
        /\ exception' = [q \in Questions |-> IF q \in sure THEN exception[q] ELSE "open"]
        /\ total' = [q \in Questions |->
                IF q \in sure THEN Points(Verdict(q, sheet[d][q])) ELSE 0]
        /\ sheet' = IF sure = {} THEN [sheet EXCEPT ![d] = NoSheet] ELSE sheet
        /\ Goto(d, IF sure = {} THEN "idle" ELSE "recomputing")
    BY <1>1 DEF GradeAttempt
  <2>3. status' # "submitted"
    BY <2>2 DEF FinalStatus
  <2>4. CASE sure = Questions
    <3>1. sheet' = sheet /\ pc'[d] = "recomputing" /\ total' = Scored(d)
      BY <1>0, <2>2, <2>4, AttemptAssumption DEF Goto, Scored
    <3>2. Confirmed(sheet[d])' = Questions
      BY <2>4, <3>1 DEF Confirmed, Verdict
    <3>3. Scored(d)' = Scored(d)
      BY <3>1 DEF Scored, Points, Verdict
    <3>4. Pending(d)'
      BY <3>1, <3>2, <3>3 DEF Pending, AfterGrading
    <3> QED BY <2>3, <3>4 DEF Processed, BeingGraded, Concluded
  <2>5. CASE sure # Questions
    <3>1. Questions \ sure # {}
      BY <2>5 DEF Confirmed
    <3>2. status' # "finalized"
      BY <2>2, <3>1 DEF FinalStatus
    <3> QED BY <2>3, <3>2, NotYetConcluded DEF Processed, BeingGraded
  <2> QED BY <2>4, <2>5
<1>2. CASE EvaluateConfirmationOutcome(d)
  <2>1. /\ pc[d] = "evaluating"
        /\ UNCHANGED <<status, exception, total, lost, stranded>>
        /\ plans' = IF Sum(Scored(d)) < PassMark /\ plans = 0 THEN plans + 1 ELSE plans
        /\ \A e \in Devices \ {d} : pc'[e] = pc[e] /\ sheet'[e] = sheet[e]
    BY <1>0, <1>2 DEF EvaluateConfirmationOutcome, Scored, record, decided, losses, Goto, Requests
  <2>2. BeingGraded'
    BY <2>1 DEF Processed, BeingGraded
  <2>3. CASE plans' > 0
    BY <2>2, <2>3 DEF Processed, Concluded
  <2>4. CASE ~(plans' > 0)
    <3>1. plans = 0 /\ plans' = 0 /\ ~(Sum(Scored(d)) < PassMark)
      BY <1>0, <2>1, <2>4
    <3>2. (Unexcepted /\ Sum(total) < PassMark)' => Unexcepted /\ Sum(total) < PassMark
      BY <2>1 DEF Unexcepted
    <3>3. ASSUME NEW e \in Devices, Pending(e), Sum(total) < PassMark
          PROVE  Pending(e)'
      <4>1. e # d
        BY <3>1, <3>3 DEF Pending
      <4>2. pc'[e] = pc[e] /\ sheet'[e] = sheet[e] /\ total' = total
        BY <2>1, <4>1
      <4>3. Confirmed(sheet[e])' = Confirmed(sheet[e]) /\ Scored(e)' = Scored(e)
        BY <4>2 DEF Confirmed, Verdict, Scored, Points
      <4> QED BY <3>3, <4>2, <4>3 DEF Pending
    <3> QED BY <2>2, <3>1, <3>2, <3>3 DEF Processed, Concluded
  <2> QED BY <2>3, <2>4
<1>3. CASE \E e \in Devices : SaveBreaksGrading(d, e)
  <2>1. status = "submitted" /\ status' = status /\ stranded' = TRUE
    BY <1>3 DEF SaveBreaksGrading, IndInv, OneGrader
  <2> QED BY <2>1, NotYetConcluded DEF Processed, BeingGraded
<1> QED BY <1>1, <1>2, <1>3

\* Recomputing the mastery goes on to the comparison; a request that dies is noticed.
LEMMA RecomputingKeepsProcessed ==
  ASSUME IndInv, Processed, NEW r \in Requests, ReadEvidence(r) \/ StoreMastery(r) \/ Dies(r)
  PROVE  Processed'
<1>0. /\ pc \in [Requests -> DeviceStates \cup TeacherStates]
      /\ sheet \in [Devices -> [Questions -> AnswerRow]] /\ lost \in Nat
  BY AttemptAssumption DEF IndInv, TypeOK
<1>1. CASE ReadEvidence(r) \/ StoreMastery(r)
  <2>1. /\ UNCHANGED <<status, exception, total, plans, lost, stranded>>
        /\ \A e \in Requests \ {r} : pc'[e] = pc[e]
        /\ \A e \in Devices \ {r} : sheet'[e] = sheet[e]
        /\ pc[r] \in {"recomputing", "storing"}
    BY <1>0, <1>1 DEF ReadEvidence, StoreMastery, AfterStoring, record, decided, derived, losses, Goto
  <2>2. BeingGraded'
    BY <2>1 DEF Processed, BeingGraded, Requests
  <2>3. ASSUME NEW d \in Devices, Pending(d)
        PROVE  Pending(d)'
    <3>1. pc'[d] \in AfterGrading /\ sheet'[d] = sheet[d]
      <4>1. CASE d # r
        BY <2>1, <2>3, <4>1 DEF Pending, Requests
      <4>2. CASE d = r /\ ReadEvidence(r)
        BY <1>0, <4>2 DEF ReadEvidence, Goto, AfterGrading
      <4>3. CASE d = r /\ StoreMastery(r)
        BY <1>0, <2>3, <4>3 DEF StoreMastery, AfterStoring, Goto, AfterGrading, Evaluates, Pending
      <4> QED BY <1>1, <4>1, <4>2, <4>3
    <3>2. Confirmed(sheet[d])' = Confirmed(sheet[d]) /\ Scored(d)' = Scored(d)
      BY <3>1 DEF Confirmed, Verdict, Scored, Points
    <3> QED BY <2>1, <2>3, <3>1, <3>2 DEF Pending
  <2>4. (Unexcepted /\ Sum(total) < PassMark)' => Unexcepted /\ Sum(total) < PassMark
    BY <2>1 DEF Unexcepted
  <2> QED BY <2>1, <2>2, <2>3, <2>4 DEF Processed, Concluded
<1>2. CASE Dies(r)
  <2>1. /\ lost' # 0 /\ UNCHANGED status
        /\ stranded' = (stranded \/ pc[r] \in {"loading", "grading"})
        /\ \A e \in Requests \ {r} : pc'[e] = pc[e]
    BY <1>0, <1>2 DEF Dies, record, Goto
  <2> QED BY <2>1 DEF Processed, BeingGraded, Concluded, Unexcepted, Requests
<1> QED BY <1>1, <1>2

\* Rulings are on exceptions, so a conclusion without exceptions is not touched.
LEMMA RulingKeepsProcessed ==
  ASSUME IndInv, FinalInv, Processed, NEW t \in Teachers,
         \/ ReadVersion(t) \/ CountOpen(t) \/ VersionTaken(t) \/ ResolveException(t)
         \/ \E q \in Questions, g \in Ruled : CheckException(t, q, g)
  PROVE  Processed'
<1>0. /\ pc \in [Requests -> DeviceStates \cup TeacherStates]
      /\ ruling \in [Teachers -> Rulings]
      /\ exception \in [Questions -> {"none", "open", "resolved"}]
  BY DEF IndInv, TypeOK
<1>1. /\ UNCHANGED <<plans, lost, stranded, sheet>>
      /\ \A d \in Devices : pc'[d] = pc[d]
  BY <1>0, AttemptAssumption DEF ReadVersion, CountOpen, VersionTaken, ResolveException, CheckException,
         derived, losses, Goto, Requests
<1>2. CASE ResolveException(t)
  <2>1. ruling[t].question \in Questions
    BY <1>0 DEF Rulings
  <2>2. exception'[ruling[t].question] = "resolved" /\ status' # "submitted"
    BY <1>0, <1>2, <2>1 DEF ResolveException, FinalStatus
  <2> QED BY <2>1, <2>2 DEF Processed, BeingGraded, Concluded, Unexcepted
<1>3. CASE ~ResolveException(t)
  <2>1. UNCHANGED <<status, exception, total>>
    BY <1>3 DEF ReadVersion, CountOpen, VersionTaken, CheckException, record, decided
  <2>2. Concluded'
    BY <1>1, <2>1, LeftPending DEF Processed
  <2> QED BY <1>1, <2>1, <2>2 DEF Processed, BeingGraded
<1> QED BY <1>2, <1>3

LEMMA NextProcessed == IndInv /\ FinalInv /\ Processed /\ [Next]_vars => Processed'
<1> SUFFICES ASSUME IndInv, FinalInv, Processed, [Next]_vars PROVE Processed'
  OBVIOUS
<1>1. CASE StartAttempt
  BY <1>1, NotYetConcluded DEF StartAttempt, Processed, BeingGraded
<1>2. CASE TimeIsUp \/ UNCHANGED vars \/ \E some : ReviewsFallDue(some)
  <2>1. UNCHANGED <<status, exception, total, plans, lost, stranded, sheet, pc>>
    BY <1>2 DEF TimeIsUp, ReviewsFallDue, vars, record, decided, derived, losses, local
  <2>2. Concluded'
    BY <2>1, LeftPending DEF Processed
  <2> QED BY <2>1, <2>2 DEF Processed, BeingGraded
<1> QED BY <1>1, <1>2, LearnerKeepsProcessed, GradingKeepsProcessed, RecomputingKeepsProcessed,
           RulingKeepsProcessed
        DEF Next, DeviceStep, TeacherStep, Requests

\* A submitted attempt is being graded, and one finalized below the pass mark
\* without exceptions has its retry plan or is getting it, unless the request
\* that had to do it died.
THEOREM SubmissionsProcessed == Spec => []SubmissionsAreProcessed
<1>1. Processed => SubmissionsAreProcessed
  BY DEF Processed, BeingGraded, Concluded, Unexcepted, Pending, AfterGrading, SubmissionsAreProcessed
<1>2. IndInv /\ FinalInv /\ Processed /\ [Next]_vars => (IndInv /\ FinalInv /\ Processed)'
  BY NextInv, NextFinal, NextProcessed
<1> QED BY <1>1, <1>2, InitInv, InitFinal, InitProcessed, PTL DEF Spec
=============================================================================
