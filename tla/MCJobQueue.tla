----------------------------- MODULE MCJobQueue -----------------------------
(* Small instances of JobQueue for TLC. *)
EXTENDS JobQueue, TLC

CONSTANTS w1, w2, j1, j2, o1

\* Two jobs of one organization, j1 behind a kill switch and more urgent.
TwoJobsOrg == (j1 :> o1) @@ (j2 :> o1)
TwoJobsPriority == (j1 :> 10) @@ (j2 :> 100)

\* One job that no switch and no other job disturbs.
OneJobOrg == (j1 :> o1)
OneJobPriority == (j1 :> 100)

WorkerSymmetry == Permutations({w1, w2})
=============================================================================
