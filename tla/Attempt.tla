------------------------------ MODULE Attempt ------------------------------
(***************************************************************************)
(* One learner's attempt at one test: saving answers from several devices,  *)
(* submitting once, automatic grading, the teachers' rulings on grading     *)
(* exceptions, the mastery derived from the final decisions, reviews of     *)
(* wrong answers and the retry plan.                                        *)
(* (apps/web/src/lib/domain/attempt.ts and review.ts, and the sequence      *)
(* numbers of components/runner/AttemptRunner.tsx.)                         *)
(*                                                                          *)
(* All questions test one concept, so there is one mastery row. A stored    *)
(* answer is represented by the verdict gradeAnswer gives it, a total score *)
(* by the scores that were added up. A final decision inserts its evidence  *)
(* and its GradeFinalized event in its own transaction, so neither has a    *)
(* variable; what delivers the events is module Outbox.                     *)
(***************************************************************************)
EXTENDS Naturals, FiniteSets, Functions

CONSTANTS
  Questions,   \* questions of the test
  ByHand,      \* those no answer to which is confirmed automatically
  MultiBlank,  \* those with several blanks: without an answer, a teacher decides
  Unreadable,  \* those whose answer snapshot cannot be parsed
  Given,       \* the verdicts that the answers learners give would get
  Ruled,       \* the grades teachers give
  Older,       \* questions with a review that is due from an earlier test
  PassMark,    \* a confirmation test below this total is failed
  Devices,     \* requests of the learner that can run at the same time
  Teachers,    \* requests of teachers that can run at the same time
  MaxSeq,      \* bound: sequence numbers of saves
  MaxVersion,  \* bound: decisions on one answer
  MaxDays,     \* bound: days on which reviews fall due
  MaxLost,     \* bound: requests that die
  MaxReviewing \* bound: reviews that are being answered at the same time

ASSUME AttemptAssumption ==
  /\ Questions # {} /\ ByHand \subseteq Questions /\ Unreadable \subseteq Questions
  /\ MultiBlank \subseteq Questions
  /\ Older \subseteq Questions
  /\ Given \subseteq {"correct", "partial", "incorrect", "needs_review"}
  /\ Ruled \subseteq {"correct", "partial", "incorrect"}
  /\ PassMark \in Nat /\ MaxSeq \in Nat /\ MaxDays \in Nat /\ MaxLost \in Nat
  /\ MaxVersion \in Nat \ {0} /\ MaxReviewing \in Nat
  /\ Devices \cap Teachers = {}

Requests == Devices \cup Teachers
Versions == 1..MaxVersion
\* A decision on a question is named by its version. The same name stands for
\* the review that decision created; version 0 is the review from before.
Decisions == Questions \X Versions
Items == Questions \X (0..MaxVersion)
AnswerRow == {"none", "blank"} \cup Given
GradeRow == {"none", "needs_review", "correct", "partial", "incorrect"}

VARIABLES
  status,     \* attempts.status, "none" before the attempt is started
  expired,    \* the time limit has passed
  answer,     \* the responses rows
  savedSeq,   \* their saved_sequence
  late,       \* history: questions whose answer was saved after submission
  grade,      \* the grade_decisions rows by version
  final,      \* the version with is_final, 0 if none
  exception,  \* grading_exceptions
  total,      \* the scores that attempts.total_score adds up
  mastery,    \* the decisions that concept_masteries was computed from
  plans,      \* retry_plans rows for this attempt
  review,     \* review_items: planned, due (both 'scheduled') or done
  days,       \* days on which reviews have fallen due
  lost,       \* requests that have died
  stranded,   \* history: the request that submitted failed before it graded
  missed,     \* history: a recomputation died, or was overtaken by a decision
  pc,         \* where a request is
  draft,      \* the answer a device is saving
  sheet,      \* the answers a submission read
  reviewing,  \* the review a device is answering
  ruling,     \* a teacher's ruling and what its transaction counted
  read        \* the evidence a recomputation read

record == <<status, expired, answer, savedSeq, late>>
decided == <<grade, final, exception, total>>
derived == <<mastery, plans, review, days>>
losses == <<lost, stranded, missed>>
local == <<draft, sheet, reviewing, ruling, read>>
vars == <<record, decided, derived, losses, local, pc>>

AnyQuestion == CHOOSE q \in Questions : TRUE
Drafts == [question : Questions, answer : AnswerRow, seq : 0..MaxSeq]
NoDraft == [question |-> AnyQuestion, answer |-> "none", seq |-> 0]
NoSheet == [q \in Questions |-> "none"]
Rulings == [question : Questions, grade : GradeRow, version : 0..MaxVersion,
            open : SUBSET Questions, total : [Questions -> 0..2]]
NoScores == [q \in Questions |-> 0]
NoRuling == [question |-> AnyQuestion, grade |-> "none", version |-> 0,
             open |-> {}, total |-> NoScores]
NoItem == <<AnyQuestion, 0>>

DeviceStates == {"idle", "saving", "submitting", "loading", "grading",
                 "recomputing", "storing", "evaluating", "reviewing"}
TeacherStates == {"idle", "judging", "versioned", "counted", "recomputing", "storing"}

\* Types of the variables.
TypeOK ==
  /\ status \in {"none", "in_progress", "submitted", "review_required", "finalized"}
  /\ expired \in BOOLEAN
  /\ answer \in [Questions -> AnswerRow]
  /\ savedSeq \in [Questions -> 0..MaxSeq]
  /\ late \subseteq Questions
  /\ grade \in [Questions -> [Versions -> GradeRow]]
  /\ final \in [Questions -> 0..MaxVersion]
  /\ exception \in [Questions -> {"none", "open", "resolved"}]
  /\ total \in [Questions -> 0..2]
  /\ mastery \subseteq Decisions
  /\ plans \in Nat
  /\ review \in [Items -> {"none", "planned", "due", "done"}]
  /\ days \in 0..MaxDays
  /\ lost \in 0..MaxLost
  /\ stranded \in BOOLEAN
  /\ missed \in BOOLEAN
  /\ pc \in [Requests -> DeviceStates \cup TeacherStates]
  /\ draft \in [Devices -> Drafts]
  /\ sheet \in [Devices -> [Questions -> AnswerRow]]
  /\ reviewing \in [Devices -> Items]
  /\ ruling \in [Teachers -> Rulings]
  /\ read \in [Requests -> SUBSET Decisions]

Init ==
  /\ status = "none" /\ expired = FALSE
  /\ answer = NoSheet /\ savedSeq = NoScores /\ late = {}
  /\ grade = [q \in Questions |-> [v \in Versions |-> "none"]]
  /\ final = NoScores
  /\ exception = [q \in Questions |-> "none"]
  /\ total = NoScores
  /\ mastery = {} /\ plans = 0
  /\ review = [i \in Items |-> IF i[1] \in Older /\ i[2] = 0 THEN "due" ELSE "none"]
  /\ days = 0 /\ lost = 0 /\ stranded = FALSE /\ missed = FALSE
  /\ pc = [r \in Requests |-> "idle"]
  /\ draft = [d \in Devices |-> NoDraft]
  /\ sheet = [d \in Devices |-> NoSheet]
  /\ reviewing = [d \in Devices |-> NoItem]
  /\ ruling = [t \in Teachers |-> NoRuling]
  /\ read = [r \in Requests |-> {}]

Goto(r, place) == pc' = [pc EXCEPT ![r] = place]

\* Variant of Points: percentages instead of points.
Points_Percent(g) == IF g = "correct" THEN 100 ELSE IF g = "partial" THEN 50 ELSE 0

Points(g) == IF g = "correct" THEN 2 ELSE IF g = "partial" THEN 1 ELSE 0
Sum(scores) == FoldFunction(LAMBDA x, y : x + y, 0, scores)

-----------------------------------------------------------------------------
(* Starting and saving *)

\* The unique index over test, learner and number settles concurrent starts.
StartAttempt ==
  /\ status = "none"
  /\ status' = "in_progress"
  /\ UNCHANGED <<expired, answer, savedSeq, late, decided, derived, losses, local, pc>>

\* The time limit is only looked at while the attempt is in progress.
TimeIsUp ==
  /\ status = "in_progress" /\ ~expired
  /\ expired' = TRUE
  /\ UNCHANGED <<status, answer, savedSeq, late, decided, derived, losses, local, pc>>

\* saveResponse looks at the status and the deadline first. The runner numbers
\* the saves of a page from 1 again after every load: any number may come ...
AdmitSave(d, q, a, n) ==
  /\ pc[d] = "idle"
  /\ status = "in_progress"
  /\ IF expired
     THEN Goto(d, "submitting") /\ UNCHANGED draft
     ELSE /\ Goto(d, "saving")
          /\ draft' = [draft EXCEPT ![d] = [question |-> q, answer |-> a, seq |-> n]]
  /\ UNCHANGED <<record, decided, derived, losses, sheet, reviewing, ruling, read>>

\* ... and writes in another statement, which only compares sequence numbers.
Upsert(s) ==
  IF answer[s.question] = "none" \/ savedSeq[s.question] < s.seq
  THEN /\ answer' = [answer EXCEPT ![s.question] = s.answer]
       /\ savedSeq' = [savedSeq EXCEPT ![s.question] = s.seq]
       /\ late' = IF status = "in_progress" THEN late ELSE late \cup {s.question}
  ELSE UNCHANGED <<answer, savedSeq, late>>

SaveResponse(d) ==
  /\ pc[d] = "saving"
  /\ Upsert(draft[d])
  /\ draft' = [draft EXCEPT ![d] = NoDraft]
  /\ Goto(d, "idle")
  /\ UNCHANGED <<status, expired, decided, derived, losses, sheet, reviewing, ruling, read>>

-----------------------------------------------------------------------------
(* Submitting and grading *)

\* The compare-and-set commits by itself, before anything is graded.
Submit(d) ==
  /\ pc[d] \in {"idle", "submitting"}
  /\ IF status = "in_progress"
     THEN status' = "submitted" /\ Goto(d, "loading")
     ELSE pc[d] = "submitting" /\ Goto(d, "idle") /\ UNCHANGED status
  /\ UNCHANGED <<expired, answer, savedSeq, late, decided, derived, losses, local>>

\* Variant of LoadAnswers: the answers are not joined.
LoadAnswers_Unjoined(d) ==
  /\ pc[d] = "loading"
  /\ sheet' = [sheet EXCEPT ![d] = NoSheet]
  /\ Goto(d, "grading")
  /\ UNCHANGED <<record, decided, derived, losses, draft, reviewing, ruling, read>>

LoadAnswers(d) ==
  /\ pc[d] = "loading"
  /\ sheet' = [sheet EXCEPT ![d] = answer]
  /\ Goto(d, "grading")
  /\ UNCHANGED <<record, decided, derived, losses, draft, reviewing, ruling, read>>

Verdict(q, a) ==
  LET unanswered == a \in {"none", "blank"} IN
  IF q \in ByHand \/ (q \in MultiBlank /\ unanswered) THEN "needs_review"
  ELSE IF unanswered THEN "incorrect" ELSE a

Confirmed(answers) ==
  {q \in Questions \ Unreadable : Verdict(q, answers[q]) # "needs_review"}

\* Variant of ReviewsAfter: the day of a review is not compared.
ReviewsAfter_AnyDay(wrong, right) ==
  [i \in Items |-> IF i \in wrong THEN "planned"
                   ELSE IF right /\ review[i] # "none" THEN "done" ELSE review[i]]

\* A wrong answer gets a review for a later day; a right one closes the reviews
\* of the concept that are due.
ReviewsAfter(wrong, right) ==
  [i \in Items |-> IF i \in wrong THEN "planned"
                   ELSE IF right /\ review[i] = "due" THEN "done" ELSE review[i]]

\* Variant of FinalStatus: the exception being resolved is taken to be counted.
FinalStatus_OneLeft(open) ==
  IF Cardinality(open) <= 1 THEN "finalized" ELSE "review_required"

FinalStatus(open) == IF open = {} THEN "finalized" ELSE "review_required"

\* A decision is committed after another request has read what it recomputes
\* the mastery from, and before it stores it.
Overtakes == \E r \in Requests : pc[r] = "storing"

\* One transaction: blank answers, decisions, exceptions, reviews, the status.
GradeAttempt(d) ==
  LET sure == Confirmed(sheet[d])
      full == {q \in sure : Verdict(q, sheet[d][q]) = "correct"}
  IN
  /\ pc[d] = "grading"
  /\ \A q \in Questions \ Unreadable : grade[q][1] = "none"
  /\ answer' = [q \in Questions |-> IF answer[q] = "none" THEN "blank" ELSE answer[q]]
  /\ grade' = [q \in Questions |->
                IF q \in Unreadable THEN grade[q]
                ELSE [grade[q] EXCEPT ![1] = Verdict(q, sheet[d][q])]]
  /\ final' = [q \in Questions |-> IF q \in sure THEN 1 ELSE final[q]]
  /\ exception' = [q \in Questions |-> IF q \in sure THEN exception[q] ELSE "open"]
  /\ review' = ReviewsAfter((sure \ full) \X {1}, full # {})
  /\ status' = FinalStatus(Questions \ sure)
  /\ total' = [q \in Questions |->
                IF q \in sure THEN Points(Verdict(q, sheet[d][q])) ELSE 0]
  /\ Goto(d, IF sure = {} THEN "idle" ELSE "recomputing")
  /\ sheet' = IF sure = {} THEN [sheet EXCEPT ![d] = NoSheet] ELSE sheet
  /\ missed' = (missed \/ Overtakes)
  /\ UNCHANGED <<expired, savedSeq, late, mastery, plans, days, lost, stranded,
                 draft, reviewing, ruling, read>>

\* A save admitted before submission inserts the row of an unanswered question
\* just before the grading transaction does: the unique index fails the latter.
SaveBreaksGrading(d, e) ==
  /\ pc[d] = "grading" /\ pc[e] = "saving"
  /\ answer[draft[e].question] = "none"
  /\ Upsert(draft[e])
  /\ pc' = [pc EXCEPT ![d] = "idle", ![e] = "idle"]
  /\ draft' = [draft EXCEPT ![e] = NoDraft]
  /\ sheet' = [sheet EXCEPT ![d] = NoSheet]
  /\ stranded' = TRUE
  /\ UNCHANGED <<status, expired, decided, derived, lost, missed, reviewing, ruling, read>>

\* The mastery is recomputed from the final decisions: one read, one write.
Evidence == {<<q, final[q]>> : q \in {p \in Questions : final[p] > 0}}

ReadEvidence(r) ==
  /\ pc[r] = "recomputing"
  /\ read' = [read EXCEPT ![r] = Evidence]
  /\ Goto(r, "storing")
  /\ UNCHANGED <<record, decided, derived, losses, draft, sheet, reviewing, ruling>>

\* Variant of Evaluates: the test for open exceptions is the wrong way round.
Evaluates_Reversed(r) == r \in Devices /\ Confirmed(sheet[r]) # Questions

\* Only a submission that left no exception goes on to the outcome.
Evaluates(r) == r \in Devices /\ Confirmed(sheet[r]) = Questions

AfterStoring(r) ==
  /\ read' = [read EXCEPT ![r] = {}]
  /\ IF Evaluates(r)
     THEN Goto(r, "evaluating") /\ UNCHANGED sheet
     ELSE /\ Goto(r, "idle")
          /\ sheet' = [d \in Devices |-> IF d = r THEN NoSheet ELSE sheet[d]]
  /\ UNCHANGED <<record, decided, plans, review, days, losses, draft, reviewing, ruling>>

\* Variant of StoreMastery: what was counted before stays.
StoreMastery_Adds(r) ==
  /\ pc[r] = "storing"
  /\ mastery' = mastery \cup read[r]
  /\ AfterStoring(r)

StoreMastery(r) ==
  /\ pc[r] = "storing"
  /\ mastery' = read[r]
  /\ AfterStoring(r)

\* Only submitAndGrade evaluates the outcome, with the scores it gave itself.
EvaluateConfirmationOutcome(d) ==
  LET scores == [q \in Questions |-> Points(Verdict(q, sheet[d][q]))]
  IN
  /\ pc[d] = "evaluating"
  /\ plans' = IF Sum(scores) < PassMark /\ plans = 0 THEN plans + 1 ELSE plans
  /\ sheet' = [sheet EXCEPT ![d] = NoSheet]
  /\ Goto(d, "idle")
  /\ UNCHANGED <<record, decided, mastery, review, days, losses, draft, reviewing, ruling, read>>

-----------------------------------------------------------------------------
(* Rulings on exceptions *)

\* resolveGradingException looks at the exception before its transaction.
CheckException(t, q, g) ==
  /\ pc[t] = "idle"
  /\ exception[q] = "open"
  /\ ruling' = [ruling EXCEPT ![t] = [NoRuling EXCEPT !.question = q, !.grade = g]]
  /\ Goto(t, "judging")
  /\ UNCHANGED <<record, decided, derived, losses, draft, sheet, reviewing, read>>

\* One more than the newest committed version; none is ever skipped.
IsNextVersion(q, n) == \A v \in Versions : grade[q][v] # "none" <=> v < n

ReadVersion(t) ==
  /\ pc[t] = "judging"
  /\ \E n \in Versions :
       /\ IsNextVersion(ruling[t].question, n)
       /\ ruling' = [ruling EXCEPT ![t].version = n]
  /\ Goto(t, "versioned")
  /\ UNCHANGED <<record, decided, derived, losses, draft, sheet, reviewing, read>>

Closes(t) == ruling[t].grade = "correct" /\ \E i \in Items : review[i] = "due"

\* Row locks of an uncommitted ruling: the decisions and the exception of its
\* answer, and the reviews it closes.
Blocked(t) ==
  \E u \in Teachers \ {t} :
    /\ pc[u] = "counted"
    /\ ruling[u].question = ruling[t].question \/ (Closes(u) /\ Closes(t))

\* Variant of VersionFree: no unique index on response and version.
VersionFree_NoIndex(t) == ruling[t].version > 0

VersionFree(t) == grade[ruling[t].question][ruling[t].version] = "none"

\* The transaction inserts its decision and counts: it sees its own rows and
\* what others have committed.
CountOpen(t) ==
  LET q == ruling[t].question IN
  /\ pc[t] = "versioned" /\ ~Blocked(t) /\ VersionFree(t)
  /\ ruling' = [ruling EXCEPT
       ![t].open = {p \in Questions \ {q} : exception[p] = "open"},
       ![t].total = [p \in Questions |->
          IF p = q THEN Points(ruling[t].grade)
          ELSE IF final[p] > 0 THEN Points(grade[p][final[p]]) ELSE 0]]
  /\ Goto(t, "counted")
  /\ UNCHANGED <<record, decided, derived, losses, draft, sheet, reviewing, read>>

\* The version was taken meanwhile: the unique index fails the transaction.
VersionTaken(t) ==
  /\ pc[t] = "versioned" /\ ~Blocked(t) /\ ~VersionFree(t)
  /\ ruling' = [ruling EXCEPT ![t] = NoRuling]
  /\ Goto(t, "idle")
  /\ UNCHANGED <<record, decided, derived, losses, draft, sheet, reviewing, read>>

\* The commit writes the status and the total that were counted.
ResolveException(t) ==
  LET q == ruling[t].question
      n == ruling[t].version
      g == ruling[t].grade
  IN
  /\ pc[t] = "counted"
  /\ grade' = [grade EXCEPT ![q][n] = g]
  /\ final' = [final EXCEPT ![q] = n]
  /\ exception' = [exception EXCEPT ![q] = "resolved"]
  /\ review' = ReviewsAfter(IF g = "correct" THEN {} ELSE {<<q, n>>}, g = "correct")
  /\ total' = ruling[t].total
  /\ status' = FinalStatus(ruling[t].open)
  /\ ruling' = [ruling EXCEPT ![t] = NoRuling]
  /\ Goto(t, "recomputing")
  /\ missed' = (missed \/ Overtakes)
  /\ UNCHANGED <<expired, answer, savedSeq, late, mastery, plans, days, lost, stranded,
                 draft, sheet, reviewing, read>>

-----------------------------------------------------------------------------
(* Reviews *)

\* Days pass between requests, each of which works with the date it began on.
ReviewsFallDue(some) ==
  /\ days < MaxDays
  /\ some # {} /\ \A i \in some : review[i] = "planned"
  /\ \A r \in Requests : pc[r] = "idle"
  /\ days' = days + 1
  /\ review' = [i \in Items |-> IF i \in some THEN "due" ELSE review[i]]
  /\ UNCHANGED <<record, decided, mastery, plans, losses, local, pc>>

\* answerReview takes whatever is scheduled; only the page lists what is due.
OpenReview(d, i) ==
  /\ pc[d] = "idle"
  /\ review[i] \in {"planned", "due"}
  /\ Cardinality({e \in Devices : pc[e] = "reviewing"}) < MaxReviewing
  /\ reviewing' = [reviewing EXCEPT ![d] = i]
  /\ Goto(d, "reviewing")
  /\ UNCHANGED <<record, decided, derived, losses, draft, sheet, ruling, read>>

\* answerReview names the row by id: whatever it is by now, it is scheduled
\* again, or completed if the interval has reached the maximum.
AnswerReview(d) ==
  /\ pc[d] = "reviewing"
  /\ ~ \E t \in Teachers : pc[t] = "counted" /\ Closes(t) /\ review[reviewing[d]] = "due"
  /\ \E result \in {"planned", "done"} :
       review' = [review EXCEPT ![reviewing[d]] = result]
  /\ reviewing' = [reviewing EXCEPT ![d] = NoItem]
  /\ Goto(d, "idle")
  /\ UNCHANGED <<record, decided, mastery, plans, days, losses, draft, sheet, ruling, read>>

-----------------------------------------------------------------------------
\* A request dies; what it has committed stays.
Dies(r) ==
  /\ lost < MaxLost /\ pc[r] # "idle"
  /\ lost' = lost + 1
  /\ stranded' = (stranded \/ pc[r] \in {"loading", "grading"})
  /\ missed' = (missed \/ pc[r] \in {"recomputing", "storing"})
  /\ Goto(r, "idle")
  /\ draft' = [d \in Devices |-> IF d = r THEN NoDraft ELSE draft[d]]
  /\ sheet' = [d \in Devices |-> IF d = r THEN NoSheet ELSE sheet[d]]
  /\ reviewing' = [d \in Devices |-> IF d = r THEN NoItem ELSE reviewing[d]]
  /\ ruling' = [t \in Teachers |-> IF t = r THEN NoRuling ELSE ruling[t]]
  /\ read' = [read EXCEPT ![r] = {}]
  /\ UNCHANGED <<record, decided, derived>>

\* What a request does once it has been admitted.
DeviceStep(d) ==
  \/ SaveResponse(d) \/ LoadAnswers(d) \/ GradeAttempt(d)
  \/ ReadEvidence(d) \/ StoreMastery(d) \/ EvaluateConfirmationOutcome(d)
  \/ AnswerReview(d)
  \/ pc[d] = "submitting" /\ Submit(d)
  \/ \E e \in Devices : SaveBreaksGrading(d, e)

TeacherStep(t) ==
  \/ ReadVersion(t) \/ CountOpen(t) \/ VersionTaken(t) \/ ResolveException(t)
  \/ ReadEvidence(t) \/ StoreMastery(t)

Next ==
  \/ StartAttempt \/ TimeIsUp
  \/ \E d \in Devices :
       \/ Submit(d)
       \/ \E q \in Questions, a \in Given, n \in 1..MaxSeq : AdmitSave(d, q, a, n)
       \/ \E i \in Items : OpenReview(d, i)
       \/ DeviceStep(d)
  \/ \E t \in Teachers :
       \/ \E q \in Questions, g \in Ruled : CheckException(t, q, g)
       \/ TeacherStep(t)
  \/ \E some \in SUBSET {i \in Items : review[i] = "planned"} : ReviewsFallDue(some)
  \/ \E r \in Requests : Dies(r)

Spec == Init /\ [][Next]_vars

-----------------------------------------------------------------------------
(* Properties *)

\* Two teachers have ruled on the answer: the first decision of a question that
\* can be graded is the automatic one.
JudgedTwice(q) ==
  \E v \in Versions : grade[q][v] # "none" /\ v > (IF q \in Unreadable THEN 1 ELSE 2)

\* A finalized attempt has no open exception and a final decision on every
\* answer, however rulings overlap, and its total adds up the final decisions
\* unless two teachers have ruled on the same exception (attempt.ts:744-766).
FinalizedAddsUp ==
  status = "finalized" =>
    /\ \A q \in Questions : exception[q] # "open" /\ final[q] > 0
    /\ (\A q \in Questions : ~JudgedTwice(q)) =>
         \A q \in Questions : total[q] = Points(grade[q][final[q]])

\* The automatic decision is that of the answer on record, whatever was being
\* saved while the attempt was submitted, except where a save that had passed
\* its check landed after submission (attempt.ts:260-296).
GradedAsSubmitted ==
  \A q \in Questions \ (Unreadable \cup late) :
    status \in {"review_required", "finalized"} => grade[q][1] = Verdict(q, answer[q])

Recomputing == \E r \in Requests : pc[r] \in {"recomputing", "storing"}

\* Once no recomputation is under way, the stored mastery is that of the final
\* decisions, of those that superseded others too, unless one died or was
\* overtaken (attempt.ts:428, 851-911).
MasteryFollows == ~missed /\ ~Recomputing => mastery = Evidence

\* The eventual consistency that attempt.ts:428 speaks of: the code does not
\* reach it when a recomputation stores what it read before another decision.
MasteryCatchesUp == lost = 0 /\ ~Recomputing => mastery = Evidence

\* Decisions are append-only and the newest one is final: no ruling overwrites
\* another, or is superseded by an older one (attempt.ts:642-672).
DecisionsAreKept ==
  [][\A q \in Questions :
       /\ \A v \in Versions : grade[q][v] # "none" => grade'[q][v] = grade[q][v]
       /\ final'[q] >= final[q]]_vars

\* A review whose day has not come is not cancelled by a right answer; only its
\* own answer completes it (attempt.ts:378-408).
PlannedReviewsStay ==
  [][\A i \in Items :
       review[i] = "planned" /\ review'[i] = "done" =>
         \E d \in Devices : pc[d] = "reviewing" /\ reviewing[d] = i]_vars

\* A submitted attempt is being graded, and one that was finalized below the
\* pass mark has its retry plan or is getting it, unless the request that
\* submitted it failed (attempt.ts:258-471).
SubmissionsAreProcessed ==
  /\ status = "submitted" /\ ~stranded =>
       \E d \in Devices : pc[d] \in {"loading", "grading"}
  /\ /\ status = "finalized" /\ lost = 0
     /\ \A q \in Questions : exception[q] = "none"
     /\ Sum(total) < PassMark
     => plans > 0 \/ \E d \in Devices : pc[d] \in {"recomputing", "storing", "evaluating"}

\* What the comment at attempt.ts:744 says: with no exception left the attempt
\* is finalized.
ResolvedMeansFinal ==
  /\ status = "review_required"
  /\ \A r \in Requests : pc[r] = "idle"
  => \E q \in Questions : exception[q] = "open"
=============================================================================
