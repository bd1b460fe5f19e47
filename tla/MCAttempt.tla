----------------------------- MODULE MCAttempt -----------------------------
(* Small instances of Attempt for TLC. *)
EXTENDS Attempt, TLC

CONSTANTS q1, q2, d1, d2, t1, t2

RequestSymmetry == Permutations({d1, d2}) \cup Permutations({t1, t2})

\* Nothing looks at the time limit once the attempt is submitted: states that
\* only differ in it from then on are the same.
WhileItMatters ==
  <<status, status = "in_progress" /\ expired, answer, savedSeq, late,
    decided, derived, losses, local, pc>>
=============================================================================
