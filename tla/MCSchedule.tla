---------------------------- MODULE MCSchedule ---------------------------
(* Small instances of LearnerSchedule for TLC. *)
EXTENDS LearnerSchedule, TLC

CONSTANTS r1, r2, e1, a1

CancelledDays == (e1 :> 2)
AbsentDays == (a1 :> 1)

\* One override adds node 3 in front of everything, the other one skips
\* nothing and rejoins the class at node 2.
TwoOverrides ==
    << [skip |-> {}, insert |-> <<3>>, anchor |-> NoNode, rejoin |-> NoNode],
       [skip |-> {}, insert |-> << >>, anchor |-> NoNode, rejoin |-> 2] >>

\* What a step or a property can tell apart: nothing looks at the proposals that
\* were not applied, and of the reports only what is done and what is carried over.
WhatIsRead ==
    <<today, sessions, Done, CarryOver, cancelled, revisions, due, requests, run, learnerVars>>

RunSymmetry == Permutations(Runs)
=============================================================================
