--------------------------- MODULE JobQueueProofs ---------------------------
(***************************************************************************)
(* Theorems about JobQueue for any number of jobs, workers and faults.      *)
(***************************************************************************)
EXTENDS JobQueue, TLAPS

\* What the workers execute, and what they hold of it, is well typed.
RunsTyped ==
  /\ phase \in [Workers -> [Jobs -> [Copies -> Phases]]]
  /\ seen \in [Workers -> [Jobs -> [Copies -> Nat]]]
  /\ lost \in [Workers -> [Jobs -> SUBSET Copies]]

\* Moving one copy of one job keeps them so.
LEMMA AdvanceTyped ==
  ASSUME RunsTyped, NEW w \in Workers, NEW j \in Jobs, NEW c \in Copies,
         NEW p \in Phases, Advance(w, j, c, p)
  PROVE  RunsTyped'
<1>1. phase' \in [Workers -> [Jobs -> [Copies -> Phases]]]
  BY DEF RunsTyped, Advance
<1>2. seen' \in [Workers -> [Jobs -> [Copies -> Nat]]]
  BY DEF RunsTyped, Advance
<1>3. lost' \in [Workers -> [Jobs -> SUBSET Copies]]
  BY DEF RunsTyped, Advance
<1>4. QED
  BY <1>1, <1>2, <1>3 DEF RunsTyped

\* So does forgetting everything a process was executing.
LEMMA ForgetsTyped ==
  ASSUME RunsTyped, NEW w \in Workers, Forgets(w)
  PROVE  RunsTyped'
<1>1. /\ NoPhases \in [Jobs -> [Copies -> Phases]]
      /\ NoneSeen \in [Jobs -> [Copies -> Nat]]
      /\ NoneLost \in [Jobs -> SUBSET Copies]
  BY DEF NoPhases, NoneSeen, NoneLost, Phases
<1>2. QED
  BY <1>1 DEF Forgets, RunsTyped

\* A copy put before the others.
LEMMA NewestTyped ==
  ASSUME NEW S, NEW f \in [Copies -> S], NEW x \in S
  PROVE  Newest(f, x) \in [Copies -> S]
BY JobQueueAssumption DEF Newest, Copies

\* And so does taking new copies.
LEMMA NewCopiesTyped ==
  ASSUME RunsTyped, attempts \in [Jobs -> Nat], NEW w \in Workers,
         NEW p \in Phases, NewCopies(w, p)
  PROVE  RunsTyped'
<1>1. phase' \in [Workers -> [Jobs -> [Copies -> Phases]]]
  <2>1. \A j \in Jobs : Newest(phase[w][j], p) \in [Copies -> Phases]
    BY NewestTyped DEF RunsTyped
  <2>2. QED
    BY <2>1 DEF NewCopies, RunsTyped
<1>2. seen' \in [Workers -> [Jobs -> [Copies -> Nat]]]
  <2>1. \A j \in Jobs : Newest(seen[w][j], ClaimedAttempts(j)) \in [Copies -> Nat]
    BY NewestTyped DEF RunsTyped, ClaimedAttempts
  <2>2. QED
    BY <2>1 DEF NewCopies, RunsTyped
<1>3. lost' \in [Workers -> [Jobs -> SUBSET Copies]]
  BY DEF NewCopies, RunsTyped
<1>4. QED
  BY <1>1, <1>2, <1>3 DEF RunsTyped

\* Every state of the queue and the workers is well typed; in particular
\* deferring never takes attempts below zero (deferJob's greatest(.., 0)).
THEOREM TypeCorrect == Spec => []TypeOK
<1>1. Init => TypeOK
  BY JobQueueAssumption
  DEF Init, TypeOK, JobStatus, PCs, Phases, Switches, NoPhases, NoneSeen, NoneLost
<1>2. TypeOK /\ [Next]_vars => TypeOK'
  <2> SUFFICES ASSUME TypeOK, [Next]_vars PROVE TypeOK'
    OBVIOUS
  <2> DEFINE RowsTyped ==
        /\ status \in [Jobs -> JobStatus] /\ attempts \in [Jobs -> Nat]
        /\ owner \in [Jobs -> Workers \cup {NoWorker}]
        /\ leaseLive \in [Jobs -> BOOLEAN] /\ due \in [Jobs -> BOOLEAN]
  <2> DEFINE LoopsTyped ==
        /\ pc \in [Workers -> PCs] /\ stopping \in SUBSET Workers
        /\ gateShut \in SUBSET Workers
        /\ locked \in [Workers -> SUBSET Jobs] /\ picked \in [Workers -> SUBSET Jobs]
        /\ switch \in Switches /\ faults \in Nat
  <2>0. /\ RowsTyped /\ LoopsTyped /\ RunsTyped
        /\ RowsTyped' /\ LoopsTyped' /\ RunsTyped' => TypeOK'
    BY DEF TypeOK, RunsTyped
  <2> USE <2>0, JobQueueAssumption DEF jobVars, claimVars, workerVars
  <2>a. UNCHANGED runVars => RunsTyped'
    BY DEF runVars, RunsTyped
  <2>1. ASSUME NEW j \in Jobs, EnqueueJob(j) PROVE TypeOK'
    BY <2>1, <2>a DEF EnqueueJob, JobStatus
  <2>2. ASSUME NEW j \in Jobs, BecomesDue(j) PROVE TypeOK'
    BY <2>2, <2>a DEF BecomesDue, Fault
  <2>3. ASSUME NEW j \in Jobs, LeaseLapses(j) PROVE TypeOK'
    BY <2>3, <2>a DEF LeaseLapses, Fault
  <2>4. ASSUME NEW j \in Jobs, RequeueDeadLetter(j) PROVE TypeOK'
    BY <2>4, <2>a DEF RequeueDeadLetter, Revive, Fault, JobStatus
  <2>5. ASSUME NEW j \in Jobs, RetryAssessmentGeneration(j) PROVE TypeOK'
    BY <2>5, <2>a DEF RetryAssessmentGeneration, Revive, Fault, JobStatus
  <2>6. ASSUME NEW w \in Workers, LoopTop(w) PROVE TypeOK'
    <3>1. RunsTyped'
      BY <2>6, <2>a, ForgetsTyped DEF LoopTop
    <3>2. QED
      BY <2>6, <3>1 DEF LoopTop, PCs
  <2>7. ASSUME NEW w \in Workers, ReadSwitches(w) PROVE TypeOK'
    BY <2>7, <2>a DEF ReadSwitches, PCs
  <2>8. ASSUME NEW w \in Workers, ClaimSelect(w) PROVE TypeOK'
    BY <2>8, <2>a DEF ClaimSelect, PCs
  <2>9. ASSUME NEW w \in Workers, ClaimCommit(w) PROVE TypeOK'
    <3>1. RunsTyped'
      BY <2>9, NewCopiesTyped DEF ClaimCommit, Phases
    <3>2. QED
      BY <2>9, <3>1 DEF ClaimCommit, MarkRunning, PCs, JobStatus
  <2>10. ASSUME NEW w \in Workers, ClaimThrows(w) PROVE TypeOK'
    <3>1. RunsTyped'
      BY <2>10, <2>a, NewCopiesTyped DEF ClaimThrows, Phases
    <3>2. RowsTyped'
      <4>1. ASSUME MarkRunning(w) PROVE RowsTyped'
        BY <4>1 DEF MarkRunning, JobStatus
      <4>2. ASSUME UNCHANGED jobVars PROVE RowsTyped'
        BY <4>2
      <4>3. QED
        BY <2>10, <4>1, <4>2 DEF ClaimThrows
    <3>3. LoopsTyped'
      BY <2>10 DEF ClaimThrows, MarkRunning, EndRound, Fault, PCs
    <3>4. QED
      BY <3>1, <3>2, <3>3
  <2>11. ASSUME NEW w \in Workers, RoundEnds(w) PROVE TypeOK'
    BY <2>11, <2>a DEF RoundEnds, EndRound, PCs
  <2>12. ASSUME NEW w \in Workers, Restart(w) PROVE TypeOK'
    BY <2>12, <2>a DEF Restart, PCs
  <2>13. ASSUME NEW w \in Workers, Crash(w) PROVE TypeOK'
    <3>1. RunsTyped'
      BY <2>13, ForgetsTyped DEF Crash
    <3>2. QED
      BY <2>13, <3>1 DEF Crash, Fault, PCs
  <2>14. ASSUME NEW w \in Workers, RequestShutdown(w) PROVE TypeOK'
    BY <2>14, <2>a DEF RequestShutdown, Fault
  <2>15. ASSUME NEW w \in Workers, NEW j \in Jobs, NEW c \in Copies,
                HandlerStarts(w, j, c) \/ HandlerEnds(w, j, c) \/ ReplyIsLost(w, j, c)
         PROVE  TypeOK'
    <3>1. PICK p \in Phases : Advance(w, j, c, p)
      BY <2>15 DEF HandlerStarts, HandlerEnds, ReplyIsLost, Phases
    <3>2. QED
      BY <2>15, <3>1, AdvanceTyped DEF HandlerStarts, HandlerEnds, ReplyIsLost
  <2>16. ASSUME NEW w \in Workers, NEW j \in Jobs, NEW c \in Copies,
                ResultWrite(w, j, c)
         PROVE  RowsTyped'
    <3>1. CASE CompleteJob(w, j, c)
      BY <2>16, <3>1 DEF ResultWrite, CompleteJob, JobStatus
    <3>2. CASE DeferJob(w, j, c)
      <4>1. UndoAttempt(attempts[j]) \in Nat
        BY DEF UndoAttempt
      <4>2. attempts' \in [Jobs -> Nat]
        BY <3>2, <4>1 DEF DeferJob
      <4>3. status' \in [Jobs -> JobStatus] /\ due' \in [Jobs -> BOOLEAN]
        BY <3>2 DEF DeferJob, JobStatus
      <4>4. QED
        BY <2>16, <4>2, <4>3 DEF ResultWrite
    <3>3. CASE FailRetryable(w, j, c)
      BY <2>16, <3>3 DEF ResultWrite, FailRetryable, JobStatus
    <3>4. CASE FailFinal(w, j, c)
      BY <2>16, <3>4 DEF ResultWrite, FailFinal, JobStatus
    <3>5. QED
      BY <2>16, <3>1, <3>2, <3>3, <3>4 DEF ResultWrite
  <2>17. ASSUME NEW w \in Workers, NEW j \in Jobs, NEW c \in Copies,
                ResultRecorded(w, j, c)
         PROVE  TypeOK'
    <3>1. RunsTyped'
      BY <2>17, AdvanceTyped DEF ResultRecorded, Phases
    <3>2. RowsTyped'
      BY <2>16, <2>17 DEF ResultRecorded
    <3>3. QED
      BY <2>17, <3>1, <3>2 DEF ResultRecorded, ResultWrite
  <2>18. ASSUME NEW w \in Workers, NEW j \in Jobs, NEW c \in Copies,
                NEW p \in Phases, Throws(w, j, c, p)
         PROVE  /\ RunsTyped'
                /\ pc' \in [Workers -> PCs] /\ picked' \in [Workers -> SUBSET Jobs]
    <3>1. RunsTyped'
      BY <2>18, AdvanceTyped DEF Throws, Phases
    <3>2. QED
      BY <2>18, <3>1 DEF Throws, EndRound, PCs
  <2>19. ASSUME NEW w \in Workers, NEW j \in Jobs, NEW c \in Copies,
                ResultWriteThrows(w, j, c)
         PROVE  TypeOK'
    <3>1. PICK p \in Phases : Throws(w, j, c, p)
      BY <2>19 DEF ResultWriteThrows, Phases
    <3>2. QED
      BY <2>18, <2>19, <3>1 DEF ResultWriteThrows, Fault
  <2>20. ASSUME NEW w \in Workers, NEW j \in Jobs, NEW c \in Copies,
                ResultUnheard(w, j, c)
         PROVE  TypeOK'
    <3>1. RowsTyped'
      BY <2>16, <2>20 DEF ResultUnheard
    <3>2. RunsTyped' /\ pc' \in [Workers -> PCs] /\ picked' \in [Workers -> SUBSET Jobs]
      BY <2>18, <2>20 DEF ResultUnheard, Phases
    <3>3. QED
      BY <2>20, <3>1, <3>2 DEF ResultUnheard, ResultWrite, Fault
  <2>21. ASSUME NEW w \in Workers, NEW j \in Jobs, NEW c \in Copies,
                CheckpointJob(w, j, c)
         PROVE  TypeOK'
    <3>1. leaseLive' \in [Jobs -> BOOLEAN]
      BY <2>21 DEF CheckpointJob
    <3>2. QED
      BY <2>21, <2>a, <3>1 DEF CheckpointJob
  <2>22. ASSUME NEW w \in Workers, NEW j \in Jobs, NEW c \in Copies,
                RenewFails(w, j, c)
         PROVE  TypeOK'
    BY <2>22 DEF RenewFails, RunsTyped
  <2>23. ASSUME NEW s \in Switches, SetSwitch(s) PROVE TypeOK'
    BY <2>23, <2>a DEF SetSwitch, Fault
  <2>24. CASE UNCHANGED vars
    BY <2>24, <2>a DEF vars
  <2>25. QED
    BY <2>1, <2>2, <2>3, <2>4, <2>5, <2>6, <2>7, <2>8, <2>9, <2>10, <2>11,
       <2>12, <2>13, <2>14, <2>15, <2>17, <2>19, <2>20, <2>21, <2>22, <2>23, <2>24
    DEF Next, WorkerStep, JobStep
<1>3. QED
  BY <1>1, <1>2, PTL DEF Spec

-----------------------------------------------------------------------------
(* Open claims. *)

\* A row a claim may mark running.
Takeable(j) == due[j] /\ (Waiting(j) \/ Recoverable(j))

\* What the selection keeps was claimable when it was locked.
LEMMA SelectionIsClaimable ==
  ASSUME NEW w \in Workers, NEW C, NEW S,
         IsCandidateSet(w, C), IsSelection(C, S)
  PROVE  S \subseteq C /\ \A j \in C : j \in Jobs /\ Claimable(w, j)
BY DEF IsCandidateSet, IsSelection

\* A step that opens no claim and leaves locked rows takeable keeps every open
\* claim current: statements outside a claim wait for its row locks.
LEMMA OpenClaimsKept ==
  ASSUME OpenClaimsAreCurrent, TypeOK', UNCHANGED locked,
         \A w \in Workers : pc'[w] = "commit" => pc[w] = "commit" /\ picked'[w] = picked[w],
         \A j \in Jobs : Takeable(j) /\ ~RowFree(j) => Takeable(j)'
  PROVE  OpenClaimsAreCurrent'
<1> SUFFICES ASSUME NEW w \in Workers, pc'[w] = "commit",
                    NEW j \in Jobs, j \in picked'[w]
             PROVE  /\ j \in locked'[w]
                    /\ \A v \in Workers \ {w} : j \notin locked'[v]
                    /\ Takeable(j)'
  BY DEF OpenClaimsAreCurrent, Takeable, Waiting, Recoverable, TypeOK
<1>1. Takeable(j) /\ j \in locked[w] /\ \A v \in Workers \ {w} : j \notin locked[v]
  BY DEF OpenClaimsAreCurrent, Takeable
<1>2. ~RowFree(j)
  BY <1>1 DEF RowFree
<1>3. QED
  BY <1>1, <1>2

\* The same for the writes that leave no claim open or closed.
LEMMA OpenClaimsStep ==
  ASSUME TypeOK, TypeOK', OpenClaimsAreCurrent, [Next]_vars
  PROVE  OpenClaimsAreCurrent'
<1> USE DEF Takeable, Waiting, Recoverable
<1>1. ASSUME NEW j \in Jobs, EnqueueJob(j) PROVE OpenClaimsAreCurrent'
  BY <1>1, OpenClaimsKept DEF EnqueueJob, claimVars, workerVars, TypeOK
<1>2. ASSUME NEW j \in Jobs, BecomesDue(j) PROVE OpenClaimsAreCurrent'
  BY <1>2, OpenClaimsKept DEF BecomesDue, claimVars, workerVars, TypeOK
<1>3. ASSUME NEW j \in Jobs, LeaseLapses(j) PROVE OpenClaimsAreCurrent'
  BY <1>3, OpenClaimsKept DEF LeaseLapses, claimVars, workerVars, TypeOK
<1>4. ASSUME NEW j \in Jobs, RequeueDeadLetter(j) PROVE OpenClaimsAreCurrent'
  BY <1>4, OpenClaimsKept
  DEF RequeueDeadLetter, Revive, claimVars, workerVars, TypeOK
<1>5. ASSUME NEW j \in Jobs, RetryAssessmentGeneration(j) PROVE OpenClaimsAreCurrent'
  BY <1>5, OpenClaimsKept
  DEF RetryAssessmentGeneration, FailedGeneration, Revive, claimVars, workerVars, TypeOK
<1>6. ASSUME NEW w \in Workers, LoopTop(w) PROVE OpenClaimsAreCurrent'
  BY <1>6, OpenClaimsKept DEF LoopTop, jobVars, claimVars, workerVars, TypeOK
<1>7. ASSUME NEW w \in Workers, ReadSwitches(w) PROVE OpenClaimsAreCurrent'
  BY <1>7, OpenClaimsKept DEF ReadSwitches, jobVars, TypeOK
<1>8. ASSUME NEW w \in Workers, ClaimSelect(w) PROVE OpenClaimsAreCurrent'
  <2>1. PICK C \in SUBSET Jobs, S \in SUBSET Jobs :
          /\ IsCandidateSet(w, C) /\ IsSelection(C, S)
          /\ locked' = [locked EXCEPT ![w] = C]
          /\ picked' = [picked EXCEPT ![w] = S]
          /\ \A u \in Workers \ {w} : pc'[u] = pc[u]
    BY <1>8 DEF ClaimSelect, TypeOK
  <2>2. \A j \in C : j \in Jobs /\ Takeable(j) /\ \A v \in Workers : j \notin locked[v]
    BY <2>1, SelectionIsClaimable DEF Claimable, RowFree
  <2> SUFFICES ASSUME NEW u \in Workers, pc'[u] = "commit",
                      NEW j \in Jobs, j \in picked'[u]
               PROVE  /\ j \in locked'[u]
                      /\ \A v \in Workers \ {u} : j \notin locked'[v]
                      /\ Takeable(j)'
    BY DEF OpenClaimsAreCurrent, TypeOK
  <2>3. CASE u = w
    BY <2>1, <2>2, <2>3, <1>8 DEF ClaimSelect, jobVars, TypeOK
  <2>4. CASE u # w
    <3>1. pc[u] = "commit" /\ j \in picked[u]
      BY <2>1, <2>4, <1>8 DEF ClaimSelect, TypeOK
    <3>2. j \in locked[u] /\ Takeable(j) /\ \A v \in Workers \ {u} : j \notin locked[v]
      BY <3>1 DEF OpenClaimsAreCurrent
    <3>3. j \notin C
      BY <2>2, <3>2
    <3>4. QED
      BY <2>1, <2>4, <3>2, <3>3, <1>8 DEF ClaimSelect, jobVars, TypeOK
  <2>5. QED
    BY <2>3, <2>4
<1>9. ASSUME NEW w \in Workers, ClaimCommit(w) PROVE OpenClaimsAreCurrent'
  <2> SUFFICES ASSUME NEW u \in Workers, pc'[u] = "commit",
                      NEW j \in Jobs, j \in picked'[u]
               PROVE  /\ j \in locked'[u]
                      /\ \A v \in Workers \ {u} : j \notin locked'[v]
                      /\ Takeable(j)'
    BY DEF OpenClaimsAreCurrent, TypeOK
  <2>1. u # w /\ pc[u] = "commit" /\ j \in picked[u] /\ pc[w] = "commit"
    BY <1>9 DEF ClaimCommit, TypeOK
  <2>2. j \in locked[u] /\ Takeable(j) /\ \A v \in Workers \ {u} : j \notin locked[v]
    BY <2>1 DEF OpenClaimsAreCurrent
  <2>3. j \notin picked[w]
    BY <2>1, <2>2 DEF OpenClaimsAreCurrent
  <2>4. QED
    BY <2>1, <2>2, <2>3, <1>9 DEF ClaimCommit, MarkRunning, TypeOK
<1>21. ASSUME NEW w \in Workers, ClaimThrows(w) PROVE OpenClaimsAreCurrent'
  <2> SUFFICES ASSUME NEW u \in Workers, pc'[u] = "commit",
                      NEW j \in Jobs, j \in picked'[u]
               PROVE  /\ j \in locked'[u]
                      /\ \A v \in Workers \ {u} : j \notin locked'[v]
                      /\ Takeable(j)'
    BY DEF OpenClaimsAreCurrent, TypeOK
  <2>1. u # w /\ pc[u] = "commit" /\ j \in picked[u] /\ pc[w] = "commit"
    BY <1>21 DEF ClaimThrows, EndRound, TypeOK
  <2>2. j \in locked[u] /\ Takeable(j) /\ \A v \in Workers \ {u} : j \notin locked[v]
    BY <2>1 DEF OpenClaimsAreCurrent
  <2>3. j \notin picked[w]
    BY <2>1, <2>2 DEF OpenClaimsAreCurrent
  <2>4. locked' = [locked EXCEPT ![w] = {}]
    BY <1>21 DEF ClaimThrows, MarkRunning
  <2>5. Takeable(j)'
    BY <2>2, <2>3, <1>21 DEF ClaimThrows, MarkRunning, jobVars, TypeOK
  <2>6. QED
    BY <2>1, <2>2, <2>4, <2>5 DEF TypeOK
<1>10. ASSUME NEW w \in Workers, RoundEnds(w) PROVE OpenClaimsAreCurrent'
  BY <1>10, OpenClaimsKept DEF RoundEnds, EndRound, jobVars, TypeOK
<1>11. ASSUME NEW w \in Workers, Restart(w) PROVE OpenClaimsAreCurrent'
  BY <1>11, OpenClaimsKept DEF Restart, jobVars, claimVars, TypeOK
<1>12. ASSUME NEW w \in Workers, Crash(w) PROVE OpenClaimsAreCurrent'
  <2> SUFFICES ASSUME NEW u \in Workers, pc'[u] = "commit",
                      NEW j \in Jobs, j \in picked'[u]
               PROVE  /\ j \in locked'[u]
                      /\ \A v \in Workers \ {u} : j \notin locked'[v]
                      /\ Takeable(j)'
    BY DEF OpenClaimsAreCurrent, TypeOK
  <2>1. u # w /\ pc[u] = "commit" /\ j \in picked[u]
    BY <1>12 DEF Crash, TypeOK
  <2>2. j \in locked[u] /\ Takeable(j) /\ \A v \in Workers \ {u} : j \notin locked[v]
    BY <2>1 DEF OpenClaimsAreCurrent
  <2>3. QED
    BY <2>1, <2>2, <1>12 DEF Crash, jobVars, TypeOK
<1>13. ASSUME NEW w \in Workers, RequestShutdown(w) PROVE OpenClaimsAreCurrent'
  BY <1>13, OpenClaimsKept DEF RequestShutdown, jobVars, claimVars, TypeOK
<1>14. ASSUME NEW w \in Workers, NEW j \in Jobs, NEW c \in Copies, ResultWrite(w, j, c),
              \A v \in Workers : pc'[v] = "commit" => pc[v] = "commit" /\ picked'[v] = picked[v]
       PROVE  OpenClaimsAreCurrent'
  <2>1. UNCHANGED <<locked, leaseLive>> /\ RowFree(j)
    BY <1>14 DEF ResultWrite
  <2>2. \A k \in Jobs : k # j => status'[k] = status[k] /\ due'[k] = due[k]
    BY <1>14 DEF ResultWrite, CompleteJob, DeferJob, FailRetryable, FailFinal, TypeOK
  <2>3. QED
    BY <1>14, <2>1, <2>2, OpenClaimsKept
<1>15. ASSUME NEW w \in Workers, NEW j \in Jobs, NEW c \in Copies, JobStep(w, j, c)
       PROVE  OpenClaimsAreCurrent'
  <2>1. CASE HandlerStarts(w, j, c) \/ HandlerEnds(w, j, c) \/ ReplyIsLost(w, j, c)
    BY <2>1, OpenClaimsKept
    DEF HandlerStarts, HandlerEnds, ReplyIsLost, jobVars, claimVars, workerVars, TypeOK
  <2>2. CASE ResultRecorded(w, j, c)
    BY <2>2, <1>14 DEF ResultRecorded
  <2>3. QED
    BY <1>15, <2>1, <2>2 DEF JobStep
<1>16. ASSUME NEW w \in Workers, NEW j \in Jobs, NEW c \in Copies,
              CheckpointJob(w, j, c) \/ RenewFails(w, j, c)
       PROVE  OpenClaimsAreCurrent'
  BY <1>16, OpenClaimsKept
  DEF CheckpointJob, RenewFails, jobVars, claimVars, workerVars, TypeOK
<1>17. ASSUME NEW w \in Workers, NEW j \in Jobs, NEW c \in Copies,
              ResultWriteThrows(w, j, c) \/ ResultUnheard(w, j, c)
       PROVE  OpenClaimsAreCurrent'
  <2>1. \A v \in Workers : pc'[v] = "commit" => pc[v] = "commit" /\ picked'[v] = picked[v]
    BY <1>17 DEF ResultWriteThrows, ResultUnheard, Throws, EndRound, TypeOK
  <2>2. CASE ResultUnheard(w, j, c)
    BY <2>1, <2>2, <1>14 DEF ResultUnheard
  <2>3. CASE ResultWriteThrows(w, j, c)
    BY <2>1, <2>3, OpenClaimsKept DEF ResultWriteThrows, jobVars
  <2>4. QED
    BY <1>17, <2>2, <2>3
<1>18. ASSUME NEW s \in Switches, SetSwitch(s) PROVE OpenClaimsAreCurrent'
  BY <1>18, OpenClaimsKept DEF SetSwitch, jobVars, claimVars, workerVars, TypeOK
<1>19. CASE UNCHANGED vars
  BY <1>19, OpenClaimsKept DEF vars, jobVars, claimVars, workerVars, TypeOK
<1>20. QED
  BY <1>1, <1>2, <1>3, <1>4, <1>5, <1>6, <1>7, <1>8, <1>9, <1>10, <1>11, <1>12,
     <1>13, <1>15, <1>16, <1>17, <1>18, <1>19, <1>21
  DEF Next, WorkerStep

\* A claim only marks rows running that nobody else has locked and that are
\* still claimable: nothing changes under an open claim.
THEOREM ClaimsAreCurrent == Spec => []OpenClaimsAreCurrent
<1>1. Init => OpenClaimsAreCurrent
  BY DEF Init, OpenClaimsAreCurrent
<1>2. TypeOK /\ TypeOK' /\ OpenClaimsAreCurrent /\ [Next]_vars => OpenClaimsAreCurrent'
  BY OpenClaimsStep
<1>3. QED
  BY <1>1, <1>2, TypeCorrect, PTL DEF Spec

-----------------------------------------------------------------------------
(* Leases that outlive their holder's work. *)

\* What an execution that is not over knows of its row: it is running under a
\* lease that its keeper has not lost, or it is as the execution's own result
\* left it, of which its worker has not heard yet.
RowHeld(w, j, c) ==
  /\ owner[j] = w
  /\ IF phase[w][j][c] \in {"unheard", "repeating"}
     THEN status[j] = "succeeded" \/ (status[j] = "retry_scheduled" /\ ~due[j])
     ELSE status[j] = "running" /\ leaseLive[j] /\ c \notin lost[w][j]

\* The strengthening of ExclusiveExecution: whoever executes a job holds its row.
HeldRows ==
  /\ \A w \in Workers, j \in Jobs \ Lapsing, c \in Copies :
       ~Over(w, j, c) => RowHeld(w, j, c)
  /\ ExclusiveExecution

\* A step that starts no execution and keeps what the others hold keeps HeldRows.
LEMMA HeldRowsKept ==
  ASSUME HeldRows,
         \A w \in Workers, j \in Jobs \ Lapsing, c \in Copies :
           ~Over(w, j, c)' => ~Over(w, j, c) /\ RowHeld(w, j, c)'
  PROVE  HeldRows'
BY DEF HeldRows, ExclusiveExecution

\* What a step on one copy leaves as it is.
LEMMA OtherCopies ==
  ASSUME TypeOK, NEW w \in Workers, NEW j \in Jobs, NEW c \in Copies, NEW p,
         Advance(w, j, c, p)
  PROVE  /\ phase'[w][j][c] = p
         /\ p # "idle" => lost'[w][j] = lost[w][j]
         /\ \A v \in Workers, k \in Jobs, d \in Copies :
              <<v, k, d>> # <<w, j, c>> =>
                /\ phase'[v][k][d] = phase[v][k][d]
                /\ d \in lost'[v][k] <=> d \in lost[v][k]
BY DEF Advance, TypeOK

\* So a step on one copy keeps HeldRows if it leaves the other rows alone, and
\* the copy it moves is over, or was not before and holds its row still.
LEMMA HeldRowsAdvance ==
  ASSUME TypeOK, HeldRows, NEW w \in Workers, NEW j \in Jobs, NEW c \in Copies, NEW p,
         Advance(w, j, c, p),
         UNCHANGED <<owner, leaseLive>>,
         \A k \in Jobs : k # j => status'[k] = status[k] /\ due'[k] = due[k],
         j \notin Lapsing => ~Over(w, j, c) \/ UNCHANGED <<status, due>>,
         j \notin Lapsing =>
           Over(w, j, c)' \/ (~Over(w, j, c) /\ RowHeld(w, j, c)')
  PROVE  HeldRows'
<1> SUFFICES ASSUME NEW v \in Workers, NEW k \in Jobs \ Lapsing, NEW d \in Copies,
                    ~Over(v, k, d)'
             PROVE  ~Over(v, k, d) /\ RowHeld(v, k, d)'
  BY HeldRowsKept
<1>1. CASE <<v, k, d>> = <<w, j, c>>
  BY <1>1
<1>2. CASE <<v, k, d>> # <<w, j, c>>
  <2>1. /\ phase'[v][k][d] = phase[v][k][d]
        /\ d \in lost'[v][k] <=> d \in lost[v][k]
    BY <1>2, OtherCopies
  <2>2. ~Over(v, k, d)
    BY <2>1 DEF Over
  <2>3. RowHeld(v, k, d)
    BY <2>2 DEF HeldRows
  <2>4. k = j => UNCHANGED <<status, due>>
    BY <1>2, <2>2 DEF HeldRows, ExclusiveExecution
  <2>5. status'[k] = status[k] /\ due'[k] = due[k]
    BY <2>4
  <2>6. QED
    BY <2>1, <2>2, <2>3, <2>5 DEF RowHeld
<1>3. QED
  BY <1>1, <1>2

\* A claim takes only rows that nobody executes.
LEMMA ClaimedRowsFree ==
  ASSUME OpenClaimsAreCurrent, HeldRows, NEW w \in Workers, pc[w] = "commit",
         NEW j \in picked[w], j \in Jobs \ Lapsing,
         NEW v \in Workers, NEW c \in Copies
  PROVE  Over(v, j, c)
<1>1. due[j] /\ (Waiting(j) \/ Recoverable(j))
  BY DEF OpenClaimsAreCurrent
<1>2. QED
  BY <1>1 DEF HeldRows, RowHeld, Waiting, Recoverable

\* Taking new copies: the older ones move behind the first.
LEMMA OlderCopies ==
  ASSUME TypeOK, NEW w \in Workers, NEW p, NewCopies(w, p),
         NEW v \in Workers, NEW j \in Jobs, NEW c \in Copies
  PROVE  /\ v # w \/ j \notin picked[w] =>
              phase'[v][j][c] = phase[v][j][c] /\ lost'[v][j] = lost[v][j]
         /\ v = w /\ j \in picked[w] /\ c = 1 =>
              phase'[v][j][c] = p /\ c \notin lost'[v][j]
         /\ v = w /\ j \in picked[w] /\ c # 1 =>
              /\ c - 1 \in Copies
              /\ phase'[v][j][c] = phase[v][j][c - 1]
              /\ c \in lost'[v][j] <=> c - 1 \in lost[v][j]
BY JobQueueAssumption DEF NewCopies, Newest, TypeOK, Copies

LEMMA HeldRowsClaim ==
  ASSUME TypeOK, OpenClaimsAreCurrent, HeldRows, NEW w \in Workers,
         pc[w] = "commit", MarkRunning(w), NEW p \in {"claimed", "idle"},
         NewCopies(w, p)
  PROVE  HeldRows'
<1>1. ASSUME NEW v \in Workers, NEW j \in Jobs \ Lapsing, NEW c \in Copies,
             ~Over(v, j, c)'
      PROVE  \/ j \notin picked[w] /\ ~Over(v, j, c) /\ RowHeld(v, j, c)'
             \/ v = w /\ j \in picked[w] /\ c = 1 /\ RowHeld(v, j, c)'
  <2>1. CASE j \notin picked[w]
    <3>1. phase'[v][j][c] = phase[v][j][c] /\ lost'[v][j] = lost[v][j]
      BY <2>1, OlderCopies
    <3>2. ~Over(v, j, c)
      BY <1>1, <3>1 DEF Over
    <3>3. RowHeld(v, j, c)
      BY <3>2 DEF HeldRows
    <3>4. QED
      BY <2>1, <3>1, <3>2, <3>3 DEF RowHeld, MarkRunning, TypeOK
  <2>2. CASE j \in picked[w]
    <3>1. \A d \in Copies : Over(v, j, d)
      BY <2>2, ClaimedRowsFree
    <3>2. v = w
      <4>1. v # w => phase'[v][j][c] = phase[v][j][c] /\ lost'[v][j] = lost[v][j]
        BY OlderCopies
      <4>2. QED
        BY <1>1, <3>1, <4>1 DEF Over
    <3>3. c = 1
      <4>1. c # 1 => /\ c - 1 \in Copies
                     /\ phase'[v][j][c] = phase[v][j][c - 1]
                     /\ c \in lost'[v][j] <=> c - 1 \in lost[v][j]
        BY <2>2, <3>2, OlderCopies
      <4>2. QED
        BY <1>1, <3>1, <4>1 DEF Over
    <3>4. phase'[v][j][c] = p /\ c \notin lost'[v][j]
      BY <2>2, <3>2, <3>3, OlderCopies
    <3>5. QED
      BY <2>2, <3>2, <3>3, <3>4 DEF RowHeld, MarkRunning, TypeOK
  <2>3. QED
    BY <2>1, <2>2
<1>2. QED
  BY <1>1 DEF HeldRows, ExclusiveExecution

\* What forgetting a worker's copies leaves.
LEMMA ForgottenCopies ==
  ASSUME TypeOK, NEW w \in Workers, Forgets(w),
         NEW v \in Workers, NEW j \in Jobs, NEW c \in Copies, ~Over(v, j, c)'
  PROVE  /\ phase'[v][j][c] = phase[v][j][c] /\ lost'[v][j] = lost[v][j]
         /\ ~Over(v, j, c)
BY DEF Forgets, NoPhases, NoneLost, Over, TypeOK

LEMMA HeldRowsStep ==
  ASSUME TypeOK, OpenClaimsAreCurrent, HeldRows, [Next]_vars
  PROVE  HeldRows'
<1> USE DEF TypeOK
<1>a. ASSUME UNCHANGED <<owner, status, due, leaseLive, phase, lost>> PROVE HeldRows'
  BY <1>a, HeldRowsKept DEF HeldRows, RowHeld, Over
<1>b. ASSUME UNCHANGED <<phase, lost>>,
             \A v \in Workers, j \in Jobs \ Lapsing, c \in Copies :
               ~Over(v, j, c) /\ RowHeld(v, j, c) =>
                 /\ owner'[j] = owner[j] /\ status'[j] = status[j]
                 /\ leaseLive[j] => leaseLive'[j]
                 /\ due[j] \/ ~due'[j]
      PROVE  HeldRows'
  <2> SUFFICES ASSUME NEW v \in Workers, NEW j \in Jobs \ Lapsing, NEW c \in Copies,
                      ~Over(v, j, c)'
               PROVE  ~Over(v, j, c) /\ RowHeld(v, j, c)'
    BY HeldRowsKept
  <2>1. ~Over(v, j, c)
    BY <1>b DEF Over
  <2>2. RowHeld(v, j, c)
    BY <2>1 DEF HeldRows
  <2>3. QED
    BY <1>b, <2>1, <2>2 DEF RowHeld
<1>1. ASSUME NEW j \in Jobs, EnqueueJob(j) PROVE HeldRows'
  BY <1>1, <1>b DEF EnqueueJob, runVars, RowHeld
<1>2. ASSUME NEW j \in Jobs, BecomesDue(j) PROVE HeldRows'
  <2>1. ASSUME NEW v \in Workers, NEW c \in Copies, j \notin Lapsing,
               ~Over(v, j, c), RowHeld(v, j, c)
        PROVE  FALSE
    BY <1>2, <2>1 DEF BecomesDue, Unheard, RowHeld, Waiting
  <2>2. QED
    BY <1>2, <1>b, <2>1 DEF BecomesDue, runVars
<1>3. ASSUME NEW j \in Jobs, LeaseLapses(j) PROVE HeldRows'
  <2>1. ASSUME NEW v \in Workers, NEW c \in Copies, j \notin Lapsing,
               ~Over(v, j, c), RowHeld(v, j, c)
        PROVE  FALSE
    BY <1>3, <2>1 DEF LeaseLapses, Abandoned, RowHeld, Over
  <2>2. QED
    BY <1>3, <1>b, <2>1 DEF LeaseLapses, runVars
<1>4. ASSUME NEW j \in Jobs, RequeueDeadLetter(j) PROVE HeldRows'
  BY <1>4, <1>b DEF RequeueDeadLetter, Revive, runVars, RowHeld
<1>5. ASSUME NEW j \in Jobs, RetryAssessmentGeneration(j) PROVE HeldRows'
  BY <1>5, <1>b DEF RetryAssessmentGeneration, FailedGeneration, Revive, runVars, RowHeld
<1>6. ASSUME NEW w \in Workers, LoopTop(w) \/ Crash(w) PROVE HeldRows'
  <2>1. CASE Forgets(w)
    <3>1. UNCHANGED jobVars
      BY <1>6 DEF LoopTop, Crash
    <3>2. QED
      BY <2>1, <3>1, ForgottenCopies, HeldRowsKept DEF jobVars, HeldRows, RowHeld
  <2>2. CASE ~Forgets(w)
    BY <1>6, <1>a, <2>2 DEF LoopTop, Crash, jobVars, runVars
  <2>3. QED
    BY <2>1, <2>2
<1>7. ASSUME NEW w \in Workers,
             ReadSwitches(w) \/ ClaimSelect(w) \/ RoundEnds(w) \/ Restart(w)
               \/ RequestShutdown(w)
      PROVE  HeldRows'
  BY <1>7, <1>a
  DEF ReadSwitches, ClaimSelect, RoundEnds, Restart, RequestShutdown, jobVars, runVars
<1>8. ASSUME NEW w \in Workers, ClaimCommit(w) PROVE HeldRows'
  BY <1>8, HeldRowsClaim DEF ClaimCommit
<1>9. ASSUME NEW w \in Workers, ClaimThrows(w) PROVE HeldRows'
  BY <1>9, <1>a, HeldRowsClaim DEF ClaimThrows, jobVars, runVars
<1>10. ASSUME NEW w \in Workers, NEW j \in Jobs, NEW c \in Copies,
              HandlerStarts(w, j, c) \/ HandlerEnds(w, j, c) \/ ReplyIsLost(w, j, c)
       PROVE  HeldRows'
  <2>1. PICK p : Advance(w, j, c, p) /\ UNCHANGED jobVars
    BY <1>10 DEF HandlerStarts, HandlerEnds, ReplyIsLost
  <2>2. ASSUME j \notin Lapsing, ~Over(w, j, c)'
        PROVE  ~Over(w, j, c) /\ RowHeld(w, j, c)'
    <3>1. p # "idle" /\ phase'[w][j][c] = p /\ lost'[w][j] = lost[w][j]
      BY <2>1, <2>2, OtherCopies DEF Over
    <3>2. ~Over(w, j, c)
      BY <1>10, <3>1 DEF HandlerStarts, HandlerEnds, ReplyIsLost, Over, Advance
    <3>3. RowHeld(w, j, c)
      BY <2>2, <3>2 DEF HeldRows
    <3>4. p \in {"unheard", "repeating"} <=> phase[w][j][c] \in {"unheard", "repeating"}
      BY <1>10, <3>1 DEF HandlerStarts, HandlerEnds, ReplyIsLost, Advance
    <3>5. QED
      BY <2>1, <3>1, <3>2, <3>3, <3>4 DEF RowHeld, jobVars
  <2>3. QED
    BY <2>1, <2>2, HeldRowsAdvance DEF jobVars
<1>11. ASSUME NEW w \in Workers, NEW j \in Jobs, NEW c \in Copies, ResultWrite(w, j, c)
       PROVE  /\ UNCHANGED <<owner, leaseLive>>
              /\ \A k \in Jobs : k # j => status'[k] = status[k] /\ due'[k] = due[k]
              /\ ~Over(w, j, c)
              /\ phase[w][j][c] = "completing" => status'[j] = "succeeded"
              /\ phase[w][j][c] = "deferring" =>
                   status'[j] = "retry_scheduled" /\ ~due'[j]
  BY <1>11
  DEF ResultWrite, CompleteJob, DeferJob, FailRetryable, FailFinal, Over
<1>12. ASSUME NEW w \in Workers, NEW j \in Jobs, NEW c \in Copies, ResultRecorded(w, j, c)
       PROVE  HeldRows'
  <2>1. Over(w, j, c)'
    BY <1>12, OtherCopies DEF ResultRecorded, Over
  <2>2. QED
    BY <1>11, <1>12, <2>1, HeldRowsAdvance DEF ResultRecorded
<1>13. ASSUME NEW w \in Workers, NEW j \in Jobs, NEW c \in Copies, ResultUnheard(w, j, c)
       PROVE  HeldRows'
  <2>1. PICK p : Advance(w, j, c, p)
    BY <1>13 DEF ResultUnheard, Throws
  <2>2. ASSUME j \notin Lapsing, ~Over(w, j, c)' PROVE RowHeld(w, j, c)'
    <3>1. phase'[w][j][c] = "unheard" /\ phase[w][j][c] \in {"completing", "deferring"}
      BY <1>13, <2>2, OtherCopies DEF ResultUnheard, Throws, Over
    <3>2. RowHeld(w, j, c)
      BY <1>11, <1>13, <2>2 DEF HeldRows, ResultUnheard
    <3>3. QED
      BY <1>11, <1>13, <3>1, <3>2 DEF RowHeld, ResultUnheard
  <2>3. QED
    BY <1>11, <1>13, <2>1, <2>2, HeldRowsAdvance DEF ResultUnheard
<1>14. ASSUME NEW w \in Workers, NEW j \in Jobs, NEW c \in Copies, ResultWriteThrows(w, j, c)
       PROVE  HeldRows'
  <2>1. PICK p : Advance(w, j, c, p) /\ UNCHANGED jobVars
    BY <1>14 DEF ResultWriteThrows, Throws
  <2>2. ASSUME j \notin Lapsing, ~Over(w, j, c)'
        PROVE  ~Over(w, j, c) /\ RowHeld(w, j, c)'
    <3>1. p # "idle" /\ phase'[w][j][c] = p /\ lost'[w][j] = lost[w][j]
      BY <2>1, <2>2, OtherCopies DEF Over
    <3>2. p = "failing" /\ phase[w][j][c] \in {"completing", "deferring"}
      BY <1>14, <3>1, OtherCopies DEF ResultWriteThrows, Throws
    <3>3. ~Over(w, j, c) /\ RowHeld(w, j, c)
      BY <2>2, <3>2 DEF HeldRows, Over
    <3>4. QED
      BY <2>1, <3>1, <3>2, <3>3 DEF RowHeld, jobVars
  <2>3. QED
    BY <2>1, <2>2, HeldRowsAdvance DEF jobVars
<1>15. ASSUME NEW w \in Workers, NEW j \in Jobs, NEW c \in Copies, CheckpointJob(w, j, c)
       PROVE  HeldRows'
  <2>1. \A k \in Jobs : leaseLive[k] => leaseLive'[k]
    BY <1>15 DEF CheckpointJob
  <2>2. QED
    BY <1>15, <1>b, <2>1 DEF CheckpointJob, runVars
<1>16. ASSUME NEW w \in Workers, NEW j \in Jobs, NEW c \in Copies, RenewFails(w, j, c)
       PROVE  HeldRows'
  <2> SUFFICES ASSUME NEW v \in Workers, NEW k \in Jobs \ Lapsing, NEW d \in Copies,
                      ~Over(v, k, d)'
               PROVE  ~Over(v, k, d) /\ RowHeld(v, k, d)'
    BY HeldRowsKept
  <2>1. /\ phase' = phase /\ UNCHANGED jobVars
        /\ d \in lost[v][k] => d \in lost'[v][k]
        /\ <<v, k, d>> # <<w, j, c>> => (d \in lost'[v][k] <=> d \in lost[v][k])
    BY <1>16 DEF RenewFails
  <2>2. ~Over(v, k, d)
    BY <2>1 DEF Over
  <2>3. RowHeld(v, k, d)
    BY <2>2 DEF HeldRows
  <2>4. <<v, k, d>> = <<w, j, c>> => phase[v][k][d] \in {"unheard", "repeating"}
    BY <1>16, <2>3 DEF RenewFails, RowHeld
  <2>5. QED
    BY <2>1, <2>2, <2>3, <2>4 DEF RowHeld, jobVars
<1>17. ASSUME NEW s \in Switches, SetSwitch(s) PROVE HeldRows'
  BY <1>17, <1>a DEF SetSwitch, jobVars, runVars
<1>18. CASE UNCHANGED vars
  BY <1>18, <1>a DEF vars, jobVars, runVars
<1>19. QED
  BY <1>1, <1>2, <1>3, <1>4, <1>5, <1>6, <1>7, <1>8, <1>9, <1>10, <1>12, <1>13,
     <1>14, <1>15, <1>16, <1>17, <1>18
  DEF Next, WorkerStep, JobStep

\* As long as a job's leases do not run out under a live worker, executing it
\* means holding its row, or not having heard yet that one's result is on it: the
\* invariant everything about exclusive execution rests on.
THEOREM ExecutionHoldsLease == Spec => []HeldRows
<1>1. Init => HeldRows
  BY DEF Init, HeldRows, ExclusiveExecution, NoPhases, Over
<1>2. TypeOK /\ OpenClaimsAreCurrent /\ HeldRows /\ [Next]_vars => HeldRows'
  BY HeldRowsStep
<1>3. QED
  BY <1>1, <1>2, TypeCorrect, ClaimsAreCurrent, PTL DEF Spec

\* Then it is not executed twice at once, by two workers or in one.
THEOREM ExecutionIsExclusive == Spec => []ExclusiveExecution
<1>1. HeldRows => ExclusiveExecution
  BY DEF HeldRows
<1>2. QED
  BY <1>1, ExecutionHoldsLease, PTL

\* And every result is written to a running row by its owner, or, when the reply
\* to the same execution's earlier result was lost, over that result.
THEOREM ResultsAreNotStale == Spec => NoStaleWrite
<1>1. HeldRows /\ [Next]_vars =>
        [\A w \in Workers, j \in Jobs \ Lapsing, c \in Copies : ResultWrite(w, j, c) =>
           /\ owner[j] = w
           /\ \/ status[j] = "running"
              \/ /\ phase[w][j][c] = "repeating"
                 /\ status[j] \in {"succeeded", "retry_scheduled"}]_vars
  <2> SUFFICES ASSUME HeldRows, NEW w \in Workers, NEW j \in Jobs \ Lapsing,
                      NEW c \in Copies, ResultWrite(w, j, c)
               PROVE  /\ owner[j] = w
                      /\ \/ status[j] = "running"
                         \/ /\ phase[w][j][c] = "repeating"
                            /\ status[j] \in {"succeeded", "retry_scheduled"}
    OBVIOUS
  <2>1. phase[w][j][c] \in {"completing", "deferring", "failing", "refusing", "repeating"}
    BY DEF ResultWrite, CompleteJob, DeferJob, FailRetryable, FailFinal
  <2>2. RowHeld(w, j, c)
    BY <2>1 DEF HeldRows, Over
  <2>3. QED
    BY <2>1, <2>2 DEF RowHeld
<1>2. QED
  BY <1>1, ExecutionHoldsLease, PTL DEF Spec, NoStaleWrite

-----------------------------------------------------------------------------
(* Settled jobs. *)

\* A settled job is taken up again only by an operator's command, or by its own
\* worker recording a failure over a success whose reply was lost.
THEOREM SettledStays == Spec => SettledIsFinal
<1> DEFINE Excused(j) ==
      \/ status[j] # "succeeded" /\ status'[j] = "queued"
      \/ \E w \in Workers, c \in Copies : Unsettles(w, j, c)
<1>1. ASSUME TypeOK, OpenClaimsAreCurrent, HeldRows, Next,
             NEW j \in Jobs \ Lapsing, status[j] \in Settled, status'[j] # status[j]
      PROVE  Excused(j)
  <2> USE DEF Settled, TypeOK
  <2>1. \A w \in Workers : pc[w] = "commit" => j \notin picked[w]
    BY <1>1 DEF OpenClaimsAreCurrent, Waiting, Recoverable
  <2>2. ASSUME NEW w \in Workers, pc[w] = "commit", MarkRunning(w) PROVE FALSE
    BY <1>1, <2>1, <2>2 DEF MarkRunning
  <2>3. ASSUME NEW k \in Jobs, EnqueueJob(k) \/ BecomesDue(k) \/ LeaseLapses(k)
        PROVE  FALSE
    BY <1>1, <2>3 DEF EnqueueJob, BecomesDue, LeaseLapses
  <2>4. ASSUME NEW k \in Jobs, RequeueDeadLetter(k) \/ RetryAssessmentGeneration(k)
        PROVE  Excused(j)
    BY <1>1, <2>4
    DEF RequeueDeadLetter, RetryAssessmentGeneration, FailedGeneration, Revive
  <2>5. ASSUME NEW w \in Workers, WorkerStep(w) \/ ClaimThrows(w) PROVE FALSE
    BY <1>1, <2>2, <2>5
    DEF WorkerStep, LoopTop, ReadSwitches, ClaimSelect, ClaimCommit, ClaimThrows,
        RoundEnds, Restart, jobVars
  <2>6. ASSUME NEW w \in Workers, Crash(w) \/ RequestShutdown(w) PROVE FALSE
    BY <1>1, <2>6 DEF Crash, RequestShutdown, jobVars
  <2>7. ASSUME NEW w \in Workers, NEW k \in Jobs, NEW c \in Copies,
               HandlerStarts(w, k, c) \/ HandlerEnds(w, k, c) \/ ReplyIsLost(w, k, c)
                 \/ CheckpointJob(w, k, c) \/ RenewFails(w, k, c)
                 \/ ResultWriteThrows(w, k, c)
        PROVE  FALSE
    BY <1>1, <2>7
    DEF HandlerStarts, HandlerEnds, ReplyIsLost, CheckpointJob, RenewFails,
        ResultWriteThrows, jobVars
  <2>8. ASSUME NEW w \in Workers, NEW k \in Jobs, NEW c \in Copies,
               ResultRecorded(w, k, c) \/ ResultUnheard(w, k, c)
        PROVE  Excused(j)
    <3>1. ResultWrite(w, k, c)
      BY <2>8 DEF ResultRecorded, ResultUnheard
    <3>2. k = j
      BY <1>1, <3>1 DEF ResultWrite, CompleteJob, DeferJob, FailRetryable, FailFinal
    <3>3. phase[w][j][c] \in {"completing", "deferring", "failing", "refusing", "repeating"}
      BY <3>1, <3>2 DEF ResultWrite, CompleteJob, DeferJob, FailRetryable, FailFinal
    <3>4. RowHeld(w, j, c)
      BY <1>1, <3>3 DEF HeldRows, Over
    <3>5. owner[j] = w /\ phase[w][j][c] = "repeating" /\ status[j] = "succeeded"
      BY <1>1, <3>3, <3>4 DEF RowHeld
    <3>6. phase'[w][j][c] = "idle"
      <4>1. Advance(w, j, c, "idle")
        BY <2>8, <3>2, <3>5 DEF ResultRecorded, ResultUnheard, Throws
      <4>2. QED
        BY <1>1, <4>1, OtherCopies
    <3>7. status'[j] \in {"retry_scheduled", "dead_lettered"}
      <4>1. FailRetryable(w, j, c)
        BY <3>1, <3>2, <3>5 DEF ResultWrite, CompleteJob, DeferJob, FailFinal
      <4>2. QED
        BY <1>1, <4>1 DEF FailRetryable
    <3>8. QED
      BY <3>5, <3>6, <3>7 DEF Unsettles
  <2>9. ASSUME NEW s \in Switches, SetSwitch(s) PROVE FALSE
    BY <1>1, <2>9 DEF SetSwitch, jobVars
  <2>10. QED
    BY <1>1, <2>3, <2>4, <2>5, <2>6, <2>7, <2>8, <2>9 DEF Next, JobStep
<1>2. TypeOK /\ OpenClaimsAreCurrent /\ HeldRows /\ [Next]_vars =>
        [\A j \in Jobs \ Lapsing : status[j] \in Settled /\ status'[j] # status[j] =>
           \/ status[j] # "succeeded" /\ status'[j] = "queued"
           \/ \E w \in Workers, c \in Copies : Unsettles(w, j, c)]_vars
  BY <1>1
<1>3. QED
  BY <1>2, TypeCorrect, ClaimsAreCurrent, ExecutionHoldsLease, PTL
  DEF Spec, SettledIsFinal

-----------------------------------------------------------------------------
(* Attempts. *)

\* Whatever other workers and older copies do, the newest copy that the owner of a
\* running row holds has the attempts value its own claim replaced.
THEOREM AttemptsAreCurrent == Spec => []AttemptsMatchClaim
<1>1. Init => AttemptsMatchClaim
  BY DEF Init, AttemptsMatchClaim
<1>2. TypeOK /\ AttemptsMatchClaim /\ [Next]_vars => AttemptsMatchClaim'
  <2> SUFFICES ASSUME TypeOK, AttemptsMatchClaim, [Next]_vars,
                      NEW w \in Workers, NEW j \in Jobs,
                      status'[j] = "running", owner'[j] = w, phase'[w][j][1] # "idle"
               PROVE  attempts'[j] = seen'[w][j][1] + 1
    BY DEF AttemptsMatchClaim
  <2> USE DEF TypeOK
  <2>0. 1 \in Copies
    BY JobQueueAssumption DEF Copies
  <2> DEFINE Frame ==
        /\ phase[w][j][1] # "idle" /\ status[j] = "running" /\ owner[j] = w
        /\ attempts'[j] = attempts[j] /\ seen'[w][j][1] = seen[w][j][1]
  <2>1. Frame => attempts'[j] = seen'[w][j][1] + 1
    BY DEF AttemptsMatchClaim
  <2>2. ASSUME NEW k \in Jobs,
               EnqueueJob(k) \/ BecomesDue(k) \/ LeaseLapses(k)
                 \/ RequeueDeadLetter(k) \/ RetryAssessmentGeneration(k)
        PROVE  Frame
    BY <2>2
    DEF EnqueueJob, BecomesDue, LeaseLapses, RequeueDeadLetter,
        RetryAssessmentGeneration, Revive, runVars
  <2>3. ASSUME NEW v \in Workers, LoopTop(v) \/ Crash(v)
        PROVE  Frame
    <3>1. CASE Forgets(v)
      <4>1. v # w
        BY <2>0, <3>1 DEF Forgets, NoPhases
      <4>2. QED
        BY <2>3, <3>1, <4>1 DEF LoopTop, Crash, Forgets, jobVars
    <3>2. CASE ~Forgets(v)
      BY <2>3, <3>2 DEF LoopTop, Crash, jobVars, runVars
    <3>3. QED
      BY <3>1, <3>2
  <2>4. ASSUME NEW v \in Workers,
               ReadSwitches(v) \/ ClaimSelect(v) \/ RoundEnds(v) \/ Restart(v)
                 \/ RequestShutdown(v)
        PROVE  Frame
    BY <2>4
    DEF ReadSwitches, ClaimSelect, RoundEnds, Restart, RequestShutdown, jobVars, runVars
  <2>5. ASSUME NEW v \in Workers, NEW p, MarkRunning(v), NewCopies(v, p)
        PROVE  attempts'[j] = seen'[w][j][1] + 1
    <3>1. CASE j \in picked[v]
      <4>1. v = w /\ attempts'[j] = attempts[j] + 1
        BY <2>5, <3>1 DEF MarkRunning
      <4>2. seen'[w][j] = Newest(seen[w][j], attempts[j])
        BY <2>5, <3>1, <4>1 DEF NewCopies, ClaimedAttempts
      <4>3. QED
        BY <2>0, <4>1, <4>2 DEF Newest
    <3>2. CASE j \notin picked[v]
      <4>1. status'[j] = status[j] /\ attempts'[j] = attempts[j] /\ owner'[j] = owner[j]
        BY <2>5, <3>2 DEF MarkRunning
      <4>2. phase'[w][j] = phase[w][j] /\ seen'[w][j] = seen[w][j]
        BY <2>5, <3>2 DEF NewCopies
      <4>3. QED
        BY <2>1, <4>1, <4>2
    <3>3. QED
      BY <3>1, <3>2
  <2>6. ASSUME NEW v \in Workers, ClaimCommit(v)
        PROVE  attempts'[j] = seen'[w][j][1] + 1
    BY <2>5, <2>6 DEF ClaimCommit
  <2>7. ASSUME NEW v \in Workers, ClaimThrows(v)
        PROVE  attempts'[j] = seen'[w][j][1] + 1
    BY <2>1, <2>5, <2>7 DEF ClaimThrows, jobVars, runVars
  <2>8. ASSUME NEW v \in Workers, NEW k \in Jobs, NEW c \in Copies, NEW p,
               Advance(v, k, c, p), phase[v][k][c] # "idle"
        PROVE  phase[w][j][1] # "idle" /\ seen'[w][j][1] = seen[w][j][1]
    <3>1. phase[w][j][1] # "idle"
      BY <2>0, <2>8 DEF Advance
    <3>2. p = "idle" => <<v, k, c>> # <<w, j, 1>>
      BY <2>0, <2>8, OtherCopies
    <3>3. QED
      BY <2>0, <2>8, <3>1, <3>2 DEF Advance
  <2>9. ASSUME NEW v \in Workers, NEW k \in Jobs, NEW c \in Copies,
               HandlerStarts(v, k, c) \/ HandlerEnds(v, k, c) \/ ReplyIsLost(v, k, c)
        PROVE  Frame
    BY <2>8, <2>9 DEF HandlerStarts, HandlerEnds, ReplyIsLost, jobVars
  <2>10. ASSUME NEW v \in Workers, NEW k \in Jobs, NEW c \in Copies, ResultWriteThrows(v, k, c)
        PROVE  Frame
    BY <2>8, <2>10 DEF ResultWriteThrows, Throws, jobVars
  <2>11. ASSUME NEW v \in Workers, NEW k \in Jobs, NEW c \in Copies,
                ResultRecorded(v, k, c) \/ ResultUnheard(v, k, c)
         PROVE  Frame
    <3>1. ResultWrite(v, k, c) /\ phase[v][k][c] # "idle"
      BY <2>11
      DEF ResultRecorded, ResultUnheard, ResultWrite, CompleteJob, DeferJob,
          FailRetryable, FailFinal
    <3>2. status'[k] # "running" /\ owner' = owner
      BY <3>1 DEF ResultWrite, CompleteJob, DeferJob, FailRetryable, FailFinal
    <3>3. k # j
      BY <3>2
    <3>4. status'[j] = status[j] /\ attempts'[j] = attempts[j]
      BY <3>1, <3>3
      DEF ResultWrite, CompleteJob, DeferJob, FailRetryable, FailFinal
    <3>5. phase[w][j][1] # "idle" /\ seen'[w][j][1] = seen[w][j][1]
      BY <2>8, <2>11, <3>1 DEF ResultRecorded, ResultUnheard, Throws
    <3>6. QED
      BY <3>2, <3>4, <3>5
  <2>12. ASSUME NEW v \in Workers, NEW k \in Jobs, NEW c \in Copies,
               CheckpointJob(v, k, c) \/ RenewFails(v, k, c)
        PROVE  Frame
    BY <2>12 DEF CheckpointJob, RenewFails, runVars, jobVars
  <2>13. ASSUME NEW s \in Switches, SetSwitch(s) PROVE Frame
    BY <2>13 DEF SetSwitch, jobVars, runVars
  <2>14. CASE UNCHANGED vars
    BY <2>1, <2>14 DEF vars, jobVars, runVars
  <2>15. QED
    BY <2>1, <2>2, <2>3, <2>4, <2>6, <2>7, <2>9, <2>10, <2>11, <2>12, <2>13, <2>14
    DEF Next, WorkerStep, JobStep
<1>3. QED
  BY <1>1, <1>2, TypeCorrect, PTL DEF Spec
=============================================================================
