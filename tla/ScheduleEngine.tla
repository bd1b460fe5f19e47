--------------------------- MODULE ScheduleEngine ---------------------------
(***************************************************************************)
(* The deterministic schedule engine (packages/core/src/scheduling), used  *)
(* for a class and for one learner.  It is a pure function of a snapshot:  *)
(* route order, what exists already, what is done, which days are taken.   *)
(*                                                                         *)
(* A day has one lesson slot, and every node takes the same time, so that  *)
(* maxMinutesPerDay becomes DayCapacity nodes a day.  An item is a node of *)
(* an existing lesson: [node, day, rev, done], the lesson named by its day *)
(* and the revision that made it.                                          *)
(***************************************************************************)
EXTENDS Naturals, FiniteSets, Sequences

CONSTANTS
    LastDay,        \* the end of the course period (horizon.to)
    Holidays,       \* days without lessons, known to everybody
    DayCapacity,    \* nodes that fit into one day
    Checkpoints,    \* confirmation tests: their dates are announced
    MaxAutoMoves    \* moves an automatic change may make

ASSUME EngineAssumption ==
    /\ LastDay \in Nat \ {0}
    /\ DayCapacity \in Nat \ {0}
    /\ MaxAutoMoves \in Nat

Days == 1..LastDay

\* Outside every day: a node that found no place.
Unplaced == 0

Earliest(days) == CHOOSE d \in days : \A e \in days : d =< e

-----------------------------------------------------------------------------
(* Overrides of a learner's route, in the order of their ids.  An override *)
(* is [skip, insert, anchor, rejoin]: a set of nodes, a sequence of extra  *)
(* nodes, and a node or NoNode each.                                       *)

NoNode == 0

Position(order, n) == CHOOSE k \in 1..Len(order) : order[k] = n
Occurs(order, n) == \E k \in 1..Len(order) : order[k] = n

\* Extra work goes in front of the anchor, of everything when there is no
\* anchor, and to the end when the anchor is not on the route.
InsertBefore(order, ov) ==
    LET at == IF ov.anchor = NoNode THEN 0
              ELSE IF Occurs(order, ov.anchor) THEN Position(order, ov.anchor) - 1
              ELSE Len(order)
    IN  SubSeq(order, 1, at) \o ov.insert \o SubSeq(order, at + 1, Len(order))

\* Variant: rejoining drops whatever stands in front of the node.
DroppedByRejoinAll(order, ov, base) ==
    IF ov.rejoin \in base /\ Occurs(order, ov.rejoin)
    THEN {order[k] : k \in 1..(Position(order, ov.rejoin) - 1)}
    ELSE {}

\* Rejoining at a node drops the common nodes in front of it, never the
\* inserted ones; an unknown rejoin node drops nothing.
DroppedByRejoin(order, ov, base) ==
    IF ov.rejoin \in base /\ Occurs(order, ov.rejoin)
    THEN {order[k] : k \in 1..(Position(order, ov.rejoin) - 1)} \cap base
    ELSE {}

\* The elements of a sequence that are not in a set, in their order.
Without(seq, out) ==
    LET kept[k \in 0..Len(seq)] ==
            IF k = 0 THEN << >>
            ELSE IF seq[k] \in out THEN kept[k - 1]
            ELSE Append(kept[k - 1], seq[k])
    IN  kept[Len(seq)]

\* The learner's order and what is left out of it, after the first k overrides.
ApplyOverrides(route, ovs) ==
    LET base == {route[k] : k \in 1..Len(route)}
        after[k \in 0..Len(ovs)] ==
            IF k = 0 THEN [order |-> route, skip |-> {}]
            ELSE LET prev  == after[k - 1]
                     order == InsertBefore(prev.order, ovs[k])
                 IN  [order |-> order,
                      skip  |-> prev.skip \cup ovs[k].skip
                                    \cup DroppedByRejoin(order, ovs[k], base)]
        last == after[Len(ovs)]
    IN  Without(last.order, last.skip)

-----------------------------------------------------------------------------
(* A snapshot is [order, today, items, done, busy].                        *)

\* What is past or finished is not rearranged.
Preserved(s) == {i \in s.items : i.done \/ i.day < s.today}
Mutable(s) == s.items \ Preserved(s)

\* The nodes that need a place.
Targets(s) ==
    {s.order[k] : k \in 1..Len(s.order)} \ (s.done \cup {i.node : i \in Preserved(s)})

\* computeAvailableSlots: from today on, neither holiday, nor taken by a
\* cancellation or an absence, nor by a preserved lesson.
AvailableDays(s) ==
    {d \in Days : /\ d >= s.today
                  /\ d \notin Holidays \cup s.busy
                  /\ \A i \in Preserved(s) : i.day # d}

\* existingByNode: of several items of a node the last one counts.
ExistingItem(s, n) ==
    CHOOSE i \in Mutable(s) :
        /\ i.node = n
        /\ \A j \in Mutable(s) : j.node = n =>
              \/ j.day < i.day
              \/ j.day = i.day /\ j.rev =< i.rev

HasItem(s, n) == \E i \in Mutable(s) : i.node = n

\* usedMinutes of a day.
Used(s, placed, d) ==
    Cardinality({i \in Preserved(s) : i.day = d})
        + Cardinality({n \in DOMAIN placed : placed[n] = d})

\* Variant: a day in front of an earlier node's place will do.
FitsOnAnywhere(s, st, d) ==
    /\ d \in AvailableDays(s)
    /\ Used(s, st.placed, d) < DayCapacity

FitsOn(s, st, d) ==
    /\ d \in AvailableDays(s)
    /\ d >= st.earliest
    /\ Used(s, st.placed, d) < DayCapacity

\* Variant: existing places do not count.
DayForAnew(s, st, n) ==
    LET room == {d \in Days : FitsOn(s, st, d)}
    IN  IF room = {} THEN Unplaced ELSE Earliest(room)

\* An existing place is kept when it is still valid, otherwise the first day
\* with room is taken (findSlot).
DayFor(s, st, n) ==
    IF HasItem(s, n) /\ FitsOn(s, st, ExistingItem(s, n).day)
    THEN ExistingItem(s, n).day
    ELSE LET room == {d \in Days : FitsOn(s, st, d)}
         IN  IF room = {} THEN Unplaced ELSE Earliest(room)

\* One round of calculateSchedule: a place for node n, and no later node in
\* front of it.
PlaceNode(s, st, n) ==
    IF n \notin Targets(s) THEN st
    ELSE LET d == DayFor(s, st, n)
         IN  [placed   |-> [st.placed EXCEPT ![n] = d],
              earliest |-> IF d = Unplaced THEN st.earliest ELSE d]

\* The only element of a singleton.
Only(S) == CHOOSE x \in S : TRUE

\* calculateSchedule: the day of every target, found in route order.  (The
\* previous state is bound as an element, so that it is evaluated once.)
CalculateSchedule(s) ==
    LET none == [n \in Targets(s) |-> Unplaced]
        after[k \in 0..Len(s.order)] ==
            IF k = 0 THEN [placed |-> none, earliest |-> s.today]
            ELSE Only({PlaceNode(s, st, s.order[k]) : st \in {after[k - 1]}})
    IN  after[Len(s.order)].placed

\* A schedule grouped by day.
NodesOn(placed, d) == {n \in DOMAIN placed : placed[n] = d}
LessonDays(placed) == {d \in Days : NodesOn(placed, d) # {}}

Conflicts(placed) == {n \in DOMAIN placed : placed[n] = Unplaced}

-----------------------------------------------------------------------------
(* The diff against what exists, and the risk of applying it unseen.       *)

\* The items that became the place of their node.
Reused(s, placed) ==
    {ExistingItem(s, n) : n \in {m \in DOMAIN placed : HasItem(s, m)}}

Moved(s, placed) == {i \in Reused(s, placed) : placed[i.node] # i.day}
Removed(s, placed) == Mutable(s) \ Reused(s, placed)

\* classifyScheduleChange.
NeedsApproval(s, placed) ==
    \/ Conflicts(placed) # {}
    \/ Removed(s, placed) # {}
    \/ Cardinality(Moved(s, placed)) > MaxAutoMoves
    \/ \E i \in Moved(s, placed) : i.node \in Checkpoints

-----------------------------------------------------------------------------
(* What a schedule has to be, stated without the algorithm.                *)

\* Every target has a day that is free, no day is overfull, and the route
\* order is kept: the hard constraints the engine promises.
SoundSchedule(s, placed) ==
    /\ DOMAIN placed = Targets(s)
    /\ \A n \in DOMAIN placed : placed[n] \in AvailableDays(s)
    /\ \A d \in Days : d \in AvailableDays(s) => Used(s, placed, d) =< DayCapacity
    /\ \A j, k \in 1..Len(s.order) :
          /\ j < k
          /\ {s.order[j], s.order[k]} \subseteq DOMAIN placed
          => placed[s.order[j]] =< placed[s.order[k]]

\* The places that exist already, when they are all there is to arrange.
ExistingPlaces(s) == [n \in {i.node : i \in Mutable(s)} |-> ExistingItem(s, n).day]
=============================================================================
