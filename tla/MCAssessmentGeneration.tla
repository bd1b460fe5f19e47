----------------------- MODULE MCAssessmentGeneration -----------------------
(* Small instances of AssessmentGeneration for TLC. *)
EXTENDS AssessmentGeneration, TLC

CONSTANTS w1, w2, p1, p2

Daily == [org |-> "o1", day |-> "d1", purpose |-> "formative"]
Confirmation == [org |-> "o1", day |-> "d1", purpose |-> "confirmation"]
Elsewhere == [org |-> "o2", day |-> "d1", purpose |-> "formative"]

\* In the order in which the producer finds them.
DailyFirst == [s \in {Daily, Confirmation} |-> IF s = Daily THEN 1 ELSE 2]
ElsewhereFirst == [s \in {Elsewhere, Daily} |-> IF s = Elsewhere THEN 1 ELSE 2]

TwoSlots == {Daily, Confirmation}
TwoOrgs == {Elsewhere, Daily}
DailyOnly == {Daily}
ConfirmationOnly == {Confirmation}

ActorSymmetry == Permutations({w1, w2}) \cup Permutations({p1, p2})
=============================================================================
