-------------------------- MODULE MCEventConsumer --------------------------
(* Small instances of EventConsumer for TLC. *)
EXTENDS EventConsumer, TLC

CONSTANTS w1, w2, j1, j2, g1, g2, g3

RecalculateAndNotify == (j1 :> "recalculate") @@ (j2 :> "notification")
LearnerAndImpact     == (j1 :> "learner") @@ (j2 :> "impact")

TwoAndOne == (j1 :> {g1, g2}) @@ (j2 :> {g3})
OneAndTwo == (j1 :> {g1}) @@ (j2 :> {g1, g2})
=============================================================================
