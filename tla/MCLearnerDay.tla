---------------------------- MODULE MCLearnerDay ----------------------------
(* Small instances of LearnerDay for TLC. *)
EXTENDS LearnerDay, TLC

CONSTANTS n1, h1, p1, p2
=============================================================================
