------------------------------ MODULE MCOutbox ------------------------------
(* Small instances of Outbox for TLC. *)
EXTENDS Outbox, TLC

CONSTANTS d1, d2, t1, t2

\* Event 1 is poison, 2 is healthy with two consumers, 3 has a routing gap.
ThreeConsumers == (1 :> {t1}) @@ (2 :> {t1, t2}) @@ (3 :> {})
=============================================================================
