---------------------------- MODULE RouteContents ---------------------------
(***************************************************************************)
(* What is computed from the nodes of a route version: the structural      *)
(* checks before publication (core/routes/validate.ts), and the comparison *)
(* shown to a teacher whose edit was refused (core/routes/conflict.ts).    *)
(*                                                                         *)
(* The contents of a version are a function from its rows to sort orders.  *)
(* A row's id tells its version and its item: what is taught.  Titles,     *)
(* kinds and minutes never change once a row is inserted, so a comparison  *)
(* only ever finds rows added, removed or moved.                           *)
(***************************************************************************)
EXTENDS Integers, FiniteSets, SequencesExt, FiniteSetsExt

CONSTANTS
    Items,           \* what a node can be about
    ItemLimit,       \* more than every item's number, for the ids of rows
    Kind,            \* the kind of a node
    ConceptsOf,      \* its concepts
    MinutesOf,       \* its expected minutes
    ConceptEdges,    \* rows of concept_edges
    AvailableMinutes, WeeklyMinutes, Weeks, \* what the class's calendar gives
    MaxNodesBetweenCheckpoints

ASSUME ContentsAssumption ==
    /\ ItemLimit \in Nat \ {0}
    /\ Items \subseteq 0 .. (ItemLimit - 1)
    /\ \A i \in Items : MinutesOf[i] \in Nat
    /\ {AvailableMinutes, WeeklyMinutes, Weeks, MaxNodesBetweenCheckpoints} \subseteq Nat

RowId(v, i) == ItemLimit * v + i
ItemOf(n) == n % ItemLimit

\* Rows by sort order; by id where two share one.
Before(rows, m, n) == rows[m] < rows[n] \/ (rows[m] = rows[n] /\ m < n)
RankAmong(rows, kept, n) == Cardinality({m \in DOMAIN rows \cap kept : Before(rows, m, n)})
IndexOf(rows, n) == RankAmong(rows, DOMAIN rows, n)

-----------------------------------------------------------------------------
(* Validation. *)

\* planningEdges: approved by people, and not the AI's suggestion.
PlanningEdges ==
    {e \in ConceptEdges : e.status \in {"reviewed", "active"} /\ e.provenance # "ai_suggested"}

StrongEdges == {e \in PlanningEdges : e.kind = "prerequisite"}

Covering(rows, c) == {n \in DOMAIN rows : c \in ConceptsOf[ItemOf(n)]}

FirstIndex(rows, c) == Min({IndexOf(rows, n) : n \in Covering(rows, c)})

\* A prerequisite that is not in the route or not before its concept.
\* The route builder assumes nothing known.
PrerequisiteGaps(rows) ==
    {e \in StrongEdges :
        /\ Covering(rows, e.to) # {}
        /\ \/ Covering(rows, e.from) = {}
           \/ FirstIndex(rows, e.from) >= FirstIndex(rows, e.to)}

IsCheckpoint(n) == Kind[ItemOf(n)] = "confirmation_test"
IsLesson(n) == Kind[ItemOf(n)] \in {"concept_lesson", "problem_solving"}

\* The lessons up to n without a checkpoint in between.
Streak(rows, n) ==
    {m \in DOMAIN rows :
        /\ IsLesson(m)
        /\ m = n \/ Before(rows, m, n)
        /\ \A c \in DOMAIN rows :
              IsCheckpoint(c) => ~(Before(rows, m, c) /\ Before(rows, c, n))}

TotalMinutes(rows) == MapThenSumSet(LAMBDA n : MinutesOf[ItemOf(n)], DOMAIN rows)

\* validateRoute, as the route builder calls it: without dependencies between
\* nodes, and with the concepts of the nodes themselves as the target, so that
\* coverage, cycles and dependency order cannot fail.
ValidateRoute(rows) ==
    {code \in {"OVER_CAPACITY", "WEEKLY_OVERLOAD", "PREREQUISITE_GAP", "CHECKPOINT_GAP"} :
        \/ code = "OVER_CAPACITY" /\ TotalMinutes(rows) > AvailableMinutes
        \/ code = "WEEKLY_OVERLOAD" /\ TotalMinutes(rows) > Weeks * WeeklyMinutes
        \/ code = "PREREQUISITE_GAP" /\ PrerequisiteGaps(rows) # {}
        \/ /\ code = "CHECKPOINT_GAP"
           /\ \E n \in DOMAIN rows :
                 IsLesson(n) /\ Cardinality(Streak(rows, n)) > MaxNodesBetweenCheckpoints}

-----------------------------------------------------------------------------
(* Edits and conflicts. *)

LastOrder(rows) == Max({0} \cup {rows[n] : n \in DOMAIN rows})
Added(rows, n) == [m \in DOMAIN rows \cup {n} |-> IF m = n THEN LastOrder(rows) + 1 ELSE rows[m]]
Removed(rows, n) == [m \in DOMAIN rows \ {n} |-> rows[m]]
Swapped(rows, m, n) == [rows EXCEPT ![m] = rows[n], ![n] = rows[m]]

\* The neighbours of n in the list shown, at most one on each side.
ListNeighbours(rows, n, direction) ==
    LET step == IF direction = "up" THEN -1 ELSE 1
    IN {m \in DOMAIN rows : IndexOf(rows, m) = IndexOf(rows, n) + step}

\* applyIntent: what the edit would make of the contents.  A node to add is
\* an item that has no id yet.
ApplyIntent(rows, intent) ==
    IF intent.op = "add" THEN Added(rows, RowId(0, intent.node))
    ELSE IF intent.op = "delete" THEN Removed(rows, intent.node)
    ELSE IF intent.op = "move" /\ intent.node \in DOMAIN rows
            /\ ListNeighbours(rows, intent.node, intent.direction) # {}
    THEN Swapped(rows, intent.node,
                 CHOOSE m \in ListNeighbours(rows, intent.node, intent.direction) : TRUE)
    ELSE rows

\* Variant: order is left out.
DiffWithoutOrder(before, after) ==
    {[code |-> "REMOVED", node |-> n] : n \in DOMAIN before \ DOMAIN after}
        \cup {[code |-> "ADDED", node |-> n] : n \in DOMAIN after \ DOMAIN before}

\* diffRouteNodes: order is compared among the nodes both lists have.
DiffRouteNodes(before, after) ==
    LET kept == DOMAIN before \cap DOMAIN after
    IN  {[code |-> "REMOVED", node |-> n] : n \in DOMAIN before \ kept}
        \cup {[code |-> "ADDED", node |-> n] : n \in DOMAIN after \ kept}
        \cup {[code |-> "MOVED", node |-> n] :
                 n \in {m \in kept : RankAmong(before, kept, m) # RankAmong(after, kept, m)}}

\* evaluateReapply.
ReapplyPossible(latest, intent) ==
    \/ intent.op \in {"add", "publish"}
    \/ intent.op = "delete" /\ intent.node \in DOMAIN latest
    \/ /\ intent.op = "move" /\ intent.node \in DOMAIN latest
       /\ ListNeighbours(latest, intent.node, intent.direction) # {}

-----------------------------------------------------------------------------
(* What a validated route is to be. *)

InOrder(rows) ==
    CHOOSE list \in [1..Cardinality(DOMAIN rows) -> DOMAIN rows] :
        \A i, j \in DOMAIN list : i < j => Before(rows, list[i], list[j])
ItemsInOrder(rows) == [i \in DOMAIN InOrder(rows) |-> ItemOf(InOrder(rows)[i])]
TaughtBefore(route, i) == UNION {ConceptsOf[route[j]] : j \in 1..(i - 1)}

\* The route as a class meets it: what a node builds on was taught before, it
\* fits into the time there is, and no more than the permitted number of
\* lessons pass without a test.
Teachable(rows) ==
    LET route == ItemsInOrder(rows)
    IN  /\ \A i \in DOMAIN route : \A c \in ConceptsOf[route[i]] \ TaughtBefore(route, i) :
              {e.from : e \in {d \in StrongEdges : d.to = c}} \subseteq TaughtBefore(route, i)
        /\ FoldLeft(LAMBDA sum, i : sum + MinutesOf[i], 0, route)
              <= Min({AvailableMinutes, Weeks * WeeklyMinutes})
        /\ \A i, j \in DOMAIN route :
              /\ i <= j
              /\ \A k \in i..j : ~IsCheckpoint(route[k])
              => Cardinality({k \in i..j : IsLesson(route[k])}) <= MaxNodesBetweenCheckpoints
=============================================================================
