--------------------------- MODULE MCRouteBuilder ---------------------------
(* A small instance of RouteBuilder for TLC. *)
EXTENDS RouteBuilder, TLC

CONSTANTS r1, r2

\* 1 teaches a; 2 teaches b, which builds on a, from a book; 3 exercises a;
\* 4 is a test.  An edge that the AI suggested is not to count.
Kinds == <<"concept_lesson", "textbook", "problem_solving", "confirmation_test">>
Concepts == <<{"a"}, {"b"}, {"a"}, {}>>
Minutes == <<60, 60, 30, 30>>

Edge(from, to, provenance) ==
    [from |-> from, to |-> to, kind |-> "prerequisite", provenance |-> provenance, status |-> "active"]
Edges == {Edge("a", "b", "human"), Edge("b", "a", "ai_suggested")}

RequestSymmetry == Permutations(Requests)

\* States are told apart by what can still matter.  A token that is not the
\* latest stays so: it leads to a refusal, whatever its number and however its
\* page was read.  Of an accepted edit, what it was made on only matters to the
\* preview, and no longer once another increment has followed.
Forgetting(q) ==
    IF q.step \in {"page", "conflict", "bump"} /\ q.token # lock
    THEN [q EXCEPT !.token = 0, !.settled = FALSE]
    ELSE IF q.step \in {"read", "write", "invalidate"} /\ ~(q.settled /\ lock = q.token + 1)
    THEN [q EXCEPT !.token = 0, !.settled = FALSE, !.start = Empty]
    ELSE q
WhatMatters ==
    <<lock, active, status, report, nodes, blank, frozen, slips,
      [r \in Requests |-> Forgetting(request[r])]>>

\* The promises: once one excepts a version, or the plan, it will not ask again
\* which races were lost there, nor what was validated and published.
Excepted ==
    {v \in Versions : slips[v] \cap {"cut off", "outdated", "overruled", "edited", "withdrawn"} # {}}
OneActiveExcepted == \E v \in Versions : slips[v] \cap {"overruled", "republished", "second"} # {}
WhatPromisesSee ==
    <<lock, active, status, nodes, blank, Excepted, OneActiveExcepted,
      [v \in Versions |-> report[v].ok],
      [v \in Versions \ Excepted |-> <<report[v].on, frozen[v]>>],
      [r \in Requests |-> Forgetting(request[r])]>>

\* validateRoute against its reference on every route of up to four items, with
\* ties and gaps in the sort orders.
All == INSTANCE RouteContents WITH Items <- 1..4
ASSUME ValidRoutesAreTeachable ==
    \A rows \in UNION {[S -> 1..4] : S \in SUBSET {RowId(1, i) : i \in 1..4}} :
        All!ValidateRoute(rows) = {} <=> All!Teachable(rows)
=============================================================================
