-------------------------- MODULE LearnerSchedule ---------------------------
(***************************************************************************)
(* The schedule of one learner of the class (domain/learner-schedule.ts):  *)
(* the class route with the learner's overrides, around the learner's      *)
(* absences.  It has items of its own and writes no lesson; an item is     *)
(* linked to the lesson of its slot, and the link is cleared when the      *)
(* class schedule replaces that lesson (on delete set null).               *)
(***************************************************************************)
EXTENDS GroupSchedule

CONSTANTS
    Overrides,          \* the overrides a teacher may create, in id order
    Absences,           \* the absences a teacher may report
    AbsentDay           \* the day of each

\* The ids of extra nodes name their override and their place in it
\* (toOverrideDelta), so that they are neither common nor of another override.
ASSUME LearnerAssumption ==
    /\ AbsentDay \in [Absences -> Days]
    /\ Overrides \in Seq([skip : SUBSET Nat, insert : Seq(Nat \ ({NoNode} \cup Nodes)),
                           anchor : Nat, rejoin : Nat])
    /\ \A o, p \in DOMAIN Overrides :
          \A i \in DOMAIN Overrides[o].insert, j \in DOMAIN Overrides[p].insert :
             Overrides[o].insert[i] = Overrides[p].insert[j] => o = p /\ i = j

VARIABLES
    override,           \* the status of each override
    absent,             \* the status of each absence
    items,              \* learner_schedule_items: day, revision, nodes, link
    learnerRevisions,   \* is revision number i of the learner active?
    learnerDue          \* schedule.materialize-learner jobs not started yet

\* What no step of a learner changes.
classVars == <<today, sessions, reported, cancelled, revisions, proposals>>
learnerVars == <<override, absent, items, learnerRevisions, learnerDue>>
vars == <<groupVars, learnerVars>>

NoLink == << >>
LessonId(s) == <<s.day, s.rev>>

LearnerInit ==
    /\ override = [o \in DOMAIN Overrides |-> "none"]
    /\ absent = [a \in Absences |-> "none"]
    /\ items = {}
    /\ learnerRevisions = << >>
    /\ learnerDue = 0

Init == GroupInit /\ LearnerInit

-----------------------------------------------------------------------------
(* The teacher.                                                            *)

\* createOverride and its cancellation: LearnerRouteOverrideChanged.
ChangeOverride(o, from, to) ==
    /\ Request
    /\ override[o] = from
    /\ override' = [override EXCEPT ![o] = to]
    /\ learnerDue' = learnerDue + 1
    /\ UNCHANGED <<classVars, run, due, absent, items, learnerRevisions>>

\* reportAvailability and dismissAvailability of an absence: the event only
\* makes a recalculation of the class due.
ChangeAbsence(a, from, to) ==
    /\ Request
    /\ absent[a] \in from
    /\ absent' = [absent EXCEPT ![a] = to]
    /\ due' = due + 1
    /\ UNCHANGED <<classVars, run, override, items, learnerRevisions, learnerDue>>

-----------------------------------------------------------------------------
(* A recalculation: materializeLearnerSchedule.                            *)

\* The order of the learner's route, and the days the learner is not there.
ActiveOverrides ==
    Without([o \in DOMAIN Overrides |-> o], {o \in DOMAIN Overrides : override[o] # "active"})
LearnerOrder == ApplyOverrides(Route, [k \in DOMAIN ActiveOverrides |->
                                          Overrides[ActiveOverrides[k]]])

AbsencesFrom(day) ==
    {a \in Absences : absent[a] \in {"received", "applied"} /\ AbsentDay[a] >= day}

StartLearnerRun(r) ==
    /\ run[r] = Idle
    /\ run' = [run EXCEPT ![r] =
           [phase |-> "items", today |-> today, order |-> LearnerOrder,
            absences |-> AbsencesFrom(today),
            busy |-> {AbsentDay[a] : a \in AbsencesFrom(today)}
                        \cup {CancelledDay[e] : e \in {c \in Cancellations : Effective(c, today)}}]]
    /\ UNCHANGED <<classVars, due, override, absent, items, learnerRevisions>>

\* handleLearnerScheduleMaterialize.
StartLearnerAutomatic(r) ==
    /\ learnerDue > 0
    /\ learnerDue' = learnerDue - 1
    /\ StartLearnerRun(r)
    /\ UNCHANGED requests

\* materializeLearnerScheduleAction.
StartLearnerManual(r) ==
    /\ Request
    /\ StartLearnerRun(r)
    /\ UNCHANGED learnerDue

\* An item counts as finished when the lesson it is linked to was closed.
Closed(i) == \E s \in sessions : s.status = "completed" /\ LessonId(s) = i.link

LearnerSnapshot(q) ==
    [order |-> q.order,
     today |-> q.today,
     items |-> UNION {{[node |-> n, day |-> i.day, rev |-> i.rev, done |-> Closed(i)] :
                          n \in i.nodes} : i \in items},
     done  |-> UNION {i.nodes : i \in {j \in items : Closed(j)}},
     carry |-> CarryOver,
     busy  |-> q.busy]

\* The items joined with their lessons, and the schedule that follows.
ReadItems(r) ==
    /\ run[r].phase = "items"
    /\ LET s == LearnerSnapshot(run[r])
       IN  run' = [run EXCEPT ![r] =
               [phase |-> "arranged", today |-> run[r].today,
                absences |-> run[r].absences,
                snapshot |-> s, placed |-> CalculateSchedule(s)]]
    /\ UNCHANGED <<classVars, requests, due, override, absent, items,
                   learnerRevisions, learnerDue>>

\* A node without a place: the learner's schedule stays.
RejectLearner(r) ==
    /\ run[r].phase = "arranged"
    /\ Conflicts(run[r].placed) # {}
    /\ run' = [run EXCEPT ![r] = Idle]
    /\ UNCHANGED <<classVars, requests, due, override, absent, items,
                   learnerRevisions, learnerDue>>

\* The lesson of a day as the class schedule is read; of two in one slot
\* either may come last.
LessonsOn(d, from) == {s \in sessions : s.day = d /\ d >= from}
Links(d, from) ==
    IF LessonsOn(d, from) = {} THEN {NoLink} ELSE {LessonId(s) : s \in LessonsOn(d, from)}

\* The rows to write, each linked to the lesson of its slot.
LinkLessons(r) ==
    /\ run[r].phase = "arranged"
    /\ Conflicts(run[r].placed) = {}
    /\ LET placed == run[r].placed
           days   == LessonDays(placed)
       IN  \E link \in [days -> UNION {Links(d, run[r].today) : d \in days}] :
              /\ \A d \in days : link[d] \in Links(d, run[r].today)
              /\ run' = [run EXCEPT ![r] =
                    [phase |-> "linked", today |-> run[r].today,
                     absences |-> run[r].absences,
                     rows |-> {[day |-> d, link |-> link[d],
                                nodes |-> NodesOn(placed, d)] : d \in days}]]
    /\ UNCHANGED <<classVars, requests, due, override, absent, items,
                   learnerRevisions, learnerDue>>

\* Variant: every linked item is kept, whatever became of its lesson.
KeptWhenLinked(r) == {i \in items : i.day < run[r].today \/ i.link # NoLink}

\* Variant: only the date protects an item.
KeptByDate(r) == {i \in items : i.day < run[r].today}

\* Items the delete of the transaction leaves: what is past, and what is
\* linked to a lesson that was closed.
Kept(r) == {i \in items : i.day < run[r].today \/ Closed(i)}

\* The foreign key and the exclusion constraint of learner_schedule_items.
Insertable(r) ==
    /\ \A w \in run[r].rows :
          w.link = NoLink \/ \E s \in sessions : LessonId(s) = w.link
    /\ \A w \in run[r].rows, i \in Kept(r) : w.day # i.day

NextLearnerRevision == Len(learnerRevisions) + 1

\* The transaction under the learner's advisory lock.
ApplyLearner(r) ==
    /\ run[r].phase = "linked"
    /\ Insertable(r)
    /\ items' = Kept(r) \cup {[day |-> w.day, rev |-> NextLearnerRevision,
                               nodes |-> w.nodes, link |-> w.link] :
                                  w \in run[r].rows}
    /\ absent' = [a \in Absences |->
                     IF a \in run[r].absences /\ absent[a] = "received"
                     THEN "applied" ELSE absent[a]]
    /\ learnerRevisions' = [i \in 1..NextLearnerRevision |-> i = NextLearnerRevision]
    /\ run' = [run EXCEPT ![r] = Idle]
    /\ UNCHANGED <<classVars, requests, due, override, learnerDue>>

\* The database refuses a row: the transaction is undone.  The event of an
\* automatic run is in the inbox already, so its retry is skipped.
AbortLearner(r) ==
    /\ run[r].phase = "linked"
    /\ ~Insertable(r)
    /\ run' = [run EXCEPT ![r] = Idle]
    /\ UNCHANGED <<classVars, requests, due, override, absent, items,
                   learnerRevisions, learnerDue>>

-----------------------------------------------------------------------------

\* The links that a step of the class schedule leaves.
Relinked ==
    {[i EXCEPT !.link = IF \E s \in sessions' : LessonId(s) = i.link THEN i.link ELSE NoLink] :
        i \in items}

ClassStep ==
    /\ GroupNext
    /\ items' = Relinked
    /\ UNCHANGED <<override, absent, learnerRevisions, learnerDue>>

LearnerStep ==
    \/ \E o \in DOMAIN Overrides :
          \/ ChangeOverride(o, "none", "active")
          \/ ChangeOverride(o, "active", "cancelled")
    \/ \E a \in Absences :
          \/ ChangeAbsence(a, {"none"}, "received")
          \/ ChangeAbsence(a, {"received", "applied"}, "dismissed")
    \/ \E r \in Runs :
          \/ StartLearnerAutomatic(r)
          \/ StartLearnerManual(r)
          \/ ReadItems(r)
          \/ RejectLearner(r)
          \/ LinkLessons(r)
          \/ ApplyLearner(r)
          \/ AbortLearner(r)

Next == ClassStep \/ LearnerStep

Spec == Init /\ [][Next]_vars

-----------------------------------------------------------------------------
(* Properties.                                                             *)

Computed(r) == run[r].phase \in {"computed", "arranged"}

\* What is still ahead of the learner was made by the active revision, of
\* which there is at most one, except for what a closed lesson keeps: the two
\* deletes and inserts of overlapping runs leave no mixture.
LearnerFutureIsActive ==
    /\ \A i, j \in DOMAIN learnerRevisions :
          learnerRevisions[i] /\ learnerRevisions[j] => i = j
    /\ \A i \in items : i.day >= today /\ ~Closed(i) => learnerRevisions[i.rev]

\* A schedule without conflicts gives every open node a free day, within the
\* capacity of the day and in route order: the class's and the learner's, with
\* absences, extra nodes and whatever the reads caught (calculateSchedule
\* against its promises).
SchedulesAreSound ==
    \A r \in Runs :
        Computed(r) /\ Conflicts(run[r].placed) = {}
            => SoundSchedule(run[r].snapshot, run[r].placed)

\* When the existing places of all open nodes are still valid together, the
\* engine keeps every one of them: it moves nothing without a cause (4a of
\* calculateSchedule).
NothingMovesWithoutCause ==
    \A r \in Runs :
        Computed(r)
            => LET s == run[r].snapshot
               IN  SoundSchedule(s, ExistingPlaces(s)) => run[r].placed = ExistingPlaces(s)

\* Extra work of an active override is on the learner's route unless an
\* active override skips it: rejoining the class further on does not drop it,
\* nor does another override (applyOverrides).
ExtraWorkIsKept ==
    \A o \in DOMAIN Overrides :
        override[o] = "active"
            => \A k \in DOMAIN Overrides[o].insert :
                  LET n == Overrides[o].insert[k]
                  IN  \/ Occurs(LearnerOrder, n)
                      \/ \E x \in DOMAIN Overrides :
                            override[x] = "active" /\ n \in Overrides[x].skip

\* Work of a closed lesson stays on the learner's record: no recalculation of
\* the class or the learner, however late, removes it or cuts its link.
ClosedWorkStays == [][{i \in items : Closed(i)} \subseteq items']_vars

\* Reported as unfinished means to be carried over (schedule.ts): in the
\* learner's schedule too.
LearnerCarriesOver ==
    \A r \in Runs :
        run[r].phase = "arranged"
            => \A n \in run[r].snapshot.carry :
                  Occurs(run[r].snapshot.order, n) => n \in DOMAIN run[r].placed
=============================================================================
