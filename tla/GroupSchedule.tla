--------------------------- MODULE GroupSchedule ----------------------------
(***************************************************************************)
(* The lessons of one class: the teacher closes them and cancels days      *)
(* (apps/web classes/[id]/actions.ts, domain/session-execution.ts), and    *)
(* recalculations rearrange what is ahead (domain/schedule.ts).            *)
(*                                                                         *)
(* A recalculation reads its inputs one statement after the other, without *)
(* a transaction, computes, and only then takes the advisory lock and      *)
(* writes.  The write is one transaction, hence one action; everything of  *)
(* other runs, of teachers and of midnight may happen between the reads    *)
(* and the write.  Cancelled and locked lessons are left out: no code      *)
(* under src/ writes them.                                                 *)
(***************************************************************************)
EXTENDS ScheduleEngine

CONSTANTS
    RouteLength,    \* the nodes of the published route version, in order
    Cancellations,  \* the cancellations a teacher may report
    CancelledDay,   \* the day of each
    Runs,           \* recalculations that may be under way at once
    MaxRequests     \* bound: what teachers do in a behaviour

ASSUME GroupAssumption ==
    /\ RouteLength \in Nat \ {0}
    /\ CancelledDay \in [Cancellations -> Days]
    /\ MaxRequests \in Nat

VARIABLES
    today,      \* the date of the workspace
    sessions,   \* the lessons: day, revision that made them, nodes, status
    reported,   \* what the teacher reported of each node (progress_events)
    cancelled,  \* the status of each cancellation
    revisions,  \* schedule_revisions: is revision number i active?
    proposals,  \* proposals that were not applied, with the cancellations read
    due,        \* schedule.recalculate jobs not started yet
    requests,   \* what the teachers did so far, counted to bound the model
    run         \* what each recalculation has read so far

groupVars == <<today, sessions, reported, cancelled, revisions, proposals, due,
               requests, run>>

Route == [k \in 1..RouteLength |-> k]
Nodes == 1..RouteLength

Outcomes == {"completed", "partial", "skipped"}

Session == [day : Days, rev : Nat \ {0}, nodes : SUBSET Nodes,
            status : {"planned", "completed"}]

Idle == [phase |-> "idle"]

\* deriveProgress: done once reported complete, whatever came before or after.
Done == {n \in Nodes : "completed" \in reported[n]}
CarryOver == {n \in Nodes : reported[n] # {}} \ Done

\* One lesson for each day that got a node.
NewSessions(placed, rev) ==
    {[day |-> d, rev |-> rev, nodes |-> NodesOn(placed, d), status |-> "planned"] :
        d \in LessonDays(placed)}

\* The first schedule of a class, before anything happened.
FirstSnapshot ==
    [order |-> Route, today |-> 1, items |-> {}, done |-> {}, carry |-> {}, busy |-> {}]

GroupInit ==
    /\ today = 1
    /\ sessions = NewSessions(CalculateSchedule(FirstSnapshot), 1)
    /\ reported = [n \in Nodes |-> {}]
    /\ cancelled = [e \in Cancellations |-> "none"]
    /\ revisions = <<TRUE>>
    /\ proposals = {}
    /\ due = 0
    /\ requests = 0
    /\ run = [r \in Runs |-> Idle]

-----------------------------------------------------------------------------
(* The teacher.                                                            *)

\* Every request of a teacher is counted.
Request ==
    /\ requests < MaxRequests
    /\ requests' = requests + 1

\* closeSession: status, a report for every planned node and SessionCompleted
\* in one transaction.  A lesson that was replaced or closed meanwhile is
\* refused; only the list of the page leaves out lessons of later days.
CloseSession(s, outcome) ==
    /\ Request
    /\ s \in sessions
    /\ s.status = "planned"
    /\ sessions' = (sessions \ {s}) \cup {[s EXCEPT !.status = "completed"]}
    /\ reported' = [n \in Nodes |-> IF n \in s.nodes
                                    THEN reported[n] \cup {outcome[n]}
                                    ELSE reported[n]]
    /\ due' = due + 1
    /\ UNCHANGED <<today, cancelled, revisions, proposals, run>>

\* reportAvailability: LearningAvailabilityChanged makes a recalculation due.
ReportCancellation(e) ==
    /\ Request
    /\ cancelled[e] = "none"
    /\ CancelledDay[e] >= today
    /\ cancelled' = [cancelled EXCEPT ![e] = "received"]
    /\ due' = due + 1
    /\ UNCHANGED <<today, sessions, reported, revisions, proposals, run>>

\* dismissAvailability.
DismissCancellation(e) ==
    /\ Request
    /\ cancelled[e] \in {"received", "applied"}
    /\ cancelled' = [cancelled EXCEPT ![e] = "dismissed"]
    /\ due' = due + 1
    /\ UNCHANGED <<today, sessions, reported, revisions, proposals, run>>

-----------------------------------------------------------------------------
(* A recalculation: materializeGroupSchedule.                              *)

\* The cancellations the schedule has to respect from a day on.
Effective(e, from) ==
    cancelled[e] \in {"received", "applied"} /\ CancelledDay[e] >= from

\* It fixes its date and reads the cancellations.
ReadCancellations(r, auto) ==
    /\ run' = [run EXCEPT ![r] =
                  [phase |-> "sessions", auto |-> auto, today |-> today,
                   cancels |-> {e \in Cancellations : Effective(e, today)}]]
    /\ UNCHANGED <<today, sessions, reported, cancelled, revisions, proposals>>

\* handleScheduleRecalculate: a job is due.
StartAutomatic(r) ==
    /\ run[r] = Idle
    /\ due > 0
    /\ due' = due - 1
    /\ ReadCancellations(r, TRUE)
    /\ UNCHANGED requests

\* materializeScheduleAction: the teacher's click is the approval.
StartManual(r) ==
    /\ run[r] = Idle
    /\ Request
    /\ ReadCancellations(r, FALSE)
    /\ UNCHANGED due

\* The lessons, one item for each node of each.
ReadSessions(r) ==
    /\ run[r].phase = "sessions"
    /\ run' = [run EXCEPT ![r] =
                  [phase |-> "progress", auto |-> run[r].auto,
                   today |-> run[r].today, cancels |-> run[r].cancels,
                   items |-> UNION {{[node |-> n, day |-> s.day, rev |-> s.rev] :
                                         n \in s.nodes} : s \in sessions}]]
    /\ UNCHANGED <<today, sessions, reported, cancelled, revisions, proposals, due, requests>>

\* Variant: every past item counts as arranged.
SnapshotWithoutCarryOver(q) ==
    [order |-> Route,
     today |-> q.today,
     items |-> {[node |-> i.node, day |-> i.day, rev |-> i.rev, done |-> i.node \in Done] :
                  i \in q.items},
     done  |-> Done,
     carry |-> CarryOver,
     busy  |-> {CancelledDay[e] : e \in q.cancels}]

\* What a run has read, as the input of the engine.  Nodes of past lessons
\* that are to be carried over lose their item, so that they get a new place.
Snapshot(q) ==
    [order |-> Route,
     today |-> q.today,
     items |-> {[node |-> i.node, day |-> i.day, rev |-> i.rev, done |-> i.node \in Done] :
                  i \in {j \in q.items : ~(j.day < q.today /\ j.node \in CarryOver)}},
     done  |-> Done,
     carry |-> CarryOver,
     busy  |-> {CancelledDay[e] : e \in q.cancels}]

\* The progress, and the schedule that follows from all of it.
ReadProgress(r) ==
    /\ run[r].phase = "progress"
    /\ LET s == Snapshot(run[r])
       IN  run' = [run EXCEPT ![r] =
                      [phase |-> "computed", auto |-> run[r].auto,
                       today |-> run[r].today, cancels |-> run[r].cancels,
                       snapshot |-> s, placed |-> CalculateSchedule(s)]]
    /\ UNCHANGED <<today, sessions, reported, cancelled, revisions, proposals, due, requests>>

\* A node without a place: nothing is changed, the failure is recorded.
Reject(r) ==
    /\ run[r].phase = "computed"
    /\ Conflicts(run[r].placed) # {}
    /\ proposals' = proposals \cup {[status |-> "failed", cancels |-> run[r].cancels]}
    /\ run' = [run EXCEPT ![r] = Idle]
    /\ UNCHANGED <<today, sessions, reported, cancelled, revisions, due, requests>>

\* An automatic change somebody should see first: it stays a proposal.
Propose(r) ==
    /\ run[r].phase = "computed"
    /\ Conflicts(run[r].placed) = {}
    /\ run[r].auto
    /\ NeedsApproval(run[r].snapshot, run[r].placed)
    /\ proposals' = proposals \cup {[status |-> "proposed", cancels |-> run[r].cancels]}
    /\ run' = [run EXCEPT ![r] = Idle]
    /\ UNCHANGED <<today, sessions, reported, cancelled, revisions, due, requests>>

\* Variant: today's lesson stays beside its replacement.
ReplacedFromTomorrow(r) ==
    {s \in sessions : s.status = "planned" /\ s.day > run[r].today}

\* Variant: closed lessons are replaced as well.
ReplacedWhateverStatus(r) == {s \in sessions : s.day >= run[r].today}

\* Planned lessons from the run's date on are replaced.
Replaced(r) == {s \in sessions : s.status = "planned" /\ s.day >= run[r].today}

NextRevision == Len(revisions) + 1

\* The transaction under the advisory lock: new revision, lessons replaced,
\* cancellations marked, revision switched.
Apply(r) ==
    /\ run[r].phase = "computed"
    /\ Conflicts(run[r].placed) = {}
    /\ run[r].auto => ~NeedsApproval(run[r].snapshot, run[r].placed)
    /\ sessions' = (sessions \ Replaced(r)) \cup NewSessions(run[r].placed, NextRevision)
    /\ cancelled' = [e \in Cancellations |->
                        IF e \in run[r].cancels /\ cancelled[e] = "received"
                        THEN "applied" ELSE cancelled[e]]
    /\ revisions' = [i \in 1..NextRevision |-> i = NextRevision]
    /\ run' = [run EXCEPT ![r] = Idle]
    /\ UNCHANGED <<today, reported, proposals, due, requests>>

\* Midnight.
NextDay ==
    /\ today < LastDay
    /\ today' = today + 1
    /\ UNCHANGED <<sessions, reported, cancelled, revisions, proposals, due, requests, run>>

RunStep(r) ==
    \/ ReadSessions(r)
    \/ ReadProgress(r)
    \/ Reject(r)
    \/ Propose(r)
    \/ Apply(r)

GroupNext ==
    \/ \E s \in sessions : \E outcome \in [s.nodes -> Outcomes] : CloseSession(s, outcome)
    \/ \E e \in Cancellations : ReportCancellation(e) \/ DismissCancellation(e)
    \/ \E r \in Runs : StartAutomatic(r) \/ StartManual(r) \/ RunStep(r)
    \/ NextDay

GroupSpec == GroupInit /\ [][GroupNext]_groupVars

-----------------------------------------------------------------------------
(* Properties.                                                             *)

\* A lesson that is still ahead was made by the active revision, of which
\* there is exactly one: no recalculation leaves lessons of another behind
\* (the writes of domain/schedule.ts, R-05 of checks/invariants.sql).
FutureFollowsTheActiveRevision ==
    /\ \E i \in DOMAIN revisions :
          revisions[i] /\ \A j \in DOMAIN revisions : revisions[j] => j = i
    /\ \A s \in sessions :
          s.status = "planned" /\ s.day >= today => revisions[s.rev]

\* What a teacher reported as unfinished has a place in every schedule made
\* from that report, wherever the node was before (deriveProgress and the items
\* withheld from the engine).
CarriedOverNodesReturn ==
    \A r \in Runs :
        run[r].phase = "computed"
            => run[r].snapshot.carry \subseteq DOMAIN run[r].placed

\* Closed lessons stay as they were closed, and what was reported stays
\* reported: no recalculation, however late, rewrites history (the delete
\* guard of domain/schedule.ts).
HistoryStays ==
    [][ /\ {s \in sessions : s.status = "completed"} \subseteq sessions'
        /\ \A n \in Nodes : reported[n] \subseteq reported'[n] ]_groupVars

\* "The next recalculation clears that day" (reportAvailability): once a
\* cancellation counts as applied, no lesson is planned on its day.
AppliedCancellationsHold ==
    \A e \in Cancellations :
        cancelled[e] = "applied"
            => \A s \in sessions : s.status = "planned" => s.day # CancelledDay[e]

\* What was not finished is carried over to the next available slot
\* (adaptive.ts): the slot of a lesson that is over is not planned again.
ClosedSlotsStayClosed ==
    \A s, c \in sessions :
        s.status = "planned" /\ c.status = "completed" => s.day # c.day
=============================================================================
