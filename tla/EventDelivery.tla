---------------------------- MODULE EventDelivery ----------------------------
(***************************************************************************)
(* What the transactional outbox promises (ADR-0006): an event that was     *)
(* recorded is handed to all of its consumers together, once, and never to  *)
(* anybody else; an event without a declared consumer is handed to nobody.  *)
(***************************************************************************)
EXTENDS Naturals

CONSTANTS
  Events,     \* event ids (UUIDv7: later events have larger ids)
  Topics,     \* job topics
  Consumers   \* Consumers[e]: the topics EVENT_CONSUMERS names for e

VARIABLES
  recorded,   \* events whose transaction committed
  work        \* work[e][t]: how many jobs of topic t exist for e

NoWork == [t \in Topics |-> 0]

\* One job for each consumer.
WorkFor(e) == [t \in Topics |-> IF t \in Consumers[e] THEN 1 ELSE 0]

Init == recorded = {} /\ work = [e \in Events |-> NoWork]

Record(e) ==
  /\ e \notin recorded
  /\ recorded' = recorded \cup {e}
  /\ UNCHANGED work

HandOver(e) ==
  /\ e \in recorded
  /\ work[e] = NoWork
  /\ work' = [work EXCEPT ![e] = WorkFor(e)]
  /\ UNCHANGED recorded

Next == \E e \in Events : Record(e) \/ HandOver(e)

Spec == Init /\ [][Next]_<<recorded, work>>
=============================================================================
