--------------------------- MODULE ScheduleProofs ---------------------------
(***************************************************************************)
(* What recalculations leave behind, for every route, every number of      *)
(* runs, any order of their reads and writes; and what the engine and the  *)
(* overrides answer for every input, by induction over their rounds.       *)
(***************************************************************************)
EXTENDS LearnerSchedule, FiniteSetTheorems, SequenceTheorems,
        WellFoundedInduction, TLAPS

-----------------------------------------------------------------------------
(* Induction over the steps of a computation.                              *)

\* Induction up to a bound, over the set of numbers that have the property.
LEMMA UpTo ==
  ASSUME NEW L \in Nat, NEW S, 0 \in S, \A k \in 1..L : k - 1 \in S => k \in S
  PROVE  \A k \in 0..L : k \in S
<1> DEFINE Bad == (0..L) \ S
<1> SUFFICES ASSUME Bad # {} PROVE FALSE
  OBVIOUS
<1>1. Bad \subseteq Nat
  OBVIOUS
<1>2. PICK x \in Bad : \A y \in Bad : ~(<<y, x>> \in OpToRel(<, Nat))
  BY <1>1, NatLessThanWellFounded, WFMin
<1>3. x \in 1..L /\ x - 1 \in 0..L /\ x - 1 \in Nat /\ x - 1 < x
  OBVIOUS
<1>4. <<x - 1, x>> \in OpToRel(<, Nat)
  BY <1>3 DEF OpToRel
<1>5. x - 1 \in S
  BY <1>2, <1>3, <1>4
<1> QED BY <1>3, <1>5

\* A function whose values follow from a start, step by step; there is one.
AreSteps(f, N, a, step) ==
    /\ f[0] = a
    /\ \A k \in 1..N : f[k] = step[k][f[k - 1]]

LEMMA StepsExist ==
  ASSUME NEW N \in Nat, NEW X, NEW a \in X, NEW step \in [1..N -> [X -> X]]
  PROVE  \E f \in [0..N -> X] : AreSteps(f, N, a, step)
<1> DEFINE Good == {L \in 0..N : \E f \in [0..L -> X] : AreSteps(f, L, a, step)}
<1>1. 0 \in Good
  <2> DEFINE f == [k \in 0..0 |-> a]
  <2>1. f \in [0..0 -> X] /\ AreSteps(f, 0, a, step)
    BY DEF AreSteps
  <2> HIDE DEF f
  <2>2. \E h \in [0..0 -> X] : AreSteps(h, 0, a, step)
    BY <2>1
  <2> QED BY <2>2
<1>2. ASSUME NEW L \in 1..N, L - 1 \in Good
      PROVE  L \in Good
  <2>1. PICK f \in [0..(L - 1) -> X] : AreSteps(f, L - 1, a, step)
    BY <1>2
  <2> DEFINE g == [k \in 0..L |-> IF k = L THEN step[L][f[L - 1]] ELSE f[k]]
  <2>2. f[L - 1] \in X
    OBVIOUS
  <2>3. step[L] \in [X -> X]
    OBVIOUS
  <2>4. g \in [0..L -> X]
    BY <2>2, <2>3
  <2>5. g[0] = a
    BY <2>1 DEF AreSteps
  <2>6. ASSUME NEW k \in 1..L PROVE g[k] = step[k][g[k - 1]]
    <3>1. CASE k = L
      BY <3>1
    <3>2. CASE k # L
      <4>1. k \in 1..(L - 1) /\ g[k] = f[k] /\ g[k - 1] = f[k - 1]
        BY <3>2
      <4> QED BY <2>1, <4>1 DEF AreSteps
    <3> QED BY <3>1, <3>2
  <2> HIDE DEF g
  <2>7. AreSteps(g, L, a, step)
    BY <2>5, <2>6 DEF AreSteps
  <2>8. \E h \in [0..L -> X] : AreSteps(h, L, a, step)
    BY <2>4, <2>7
  <2> QED BY <2>8
<1>3. N \in Good
  <2> HIDE DEF Good
  <2>1. \A k \in 0..N : k \in Good
    BY <1>1, <1>2, UpTo
  <2> QED BY <2>1
<1> QED BY <1>3

\* The elements of a sequence, and that none comes twice.
Elements(seq) == {seq[k] : k \in 1..Len(seq)}
Distinct(seq) == \A j, k \in 1..Len(seq) : seq[j] = seq[k] => j = k

-----------------------------------------------------------------------------
(* The engine: one round.                                                  *)

\* A set of days that is not empty has an earliest one.
LEMMA EarliestExists ==
  ASSUME NEW S, S \subseteq Days, S # {}
  PROVE  \E d \in S : \A e \in S : d =< e
<1>1. S \subseteq Nat
  BY DEF Days
<1>2. \E d \in S : \A e \in S : ~(<<e, d>> \in OpToRel(<, Nat))
  BY <1>1, NatLessThanWellFounded, WFMin
<1>3. \A d, e \in Nat : ~(<<e, d>> \in OpToRel(<, Nat)) => d =< e
  BY DEF OpToRel
<1>4. QED
  BY <1>1, <1>2, <1>3

\* One round of the engine gives a node no place, or a free day with room, not
\* in front of an earlier node (DayFor: a kept place and a found one alike).
THEOREM PlacementFits ==
  ASSUME NEW s, NEW st, NEW n, DayFor(s, st, n) # Unplaced
  PROVE  FitsOn(s, st, DayFor(s, st, n))
<1>1. CASE HasItem(s, n) /\ FitsOn(s, st, ExistingItem(s, n).day)
  BY <1>1 DEF DayFor
<1>2. CASE ~(HasItem(s, n) /\ FitsOn(s, st, ExistingItem(s, n).day))
  <2> DEFINE room == {d \in Days : FitsOn(s, st, d)}
  <2>1. DayFor(s, st, n) = IF room = {} THEN Unplaced ELSE Earliest(room)
    BY <1>2 DEF DayFor
  <2>2. room # {} /\ DayFor(s, st, n) = Earliest(room)
    BY <2>1
  <2>3. \E d \in room : \A e \in room : d =< e
    BY <2>2, EarliestExists
  <2>4. Earliest(room) \in room
    BY <2>3 DEF Earliest
  <2>5. QED
    BY <2>2, <2>4
<1>3. QED
  BY <1>1, <1>2

\* No available day is overfull.
WithinCapacity(s, placed) ==
    \A d \in AvailableDays(s) : Used(s, placed, d) =< DayCapacity

\* Placing one more node overfills no day, and its day is not in front of the
\* days of the nodes before it: what every round of calculateSchedule keeps.
THEOREM RoundsKeepTheLimits ==
  ASSUME NEW s, NEW st, NEW n \in Targets(s),
         IsFiniteSet(s.items), IsFiniteSet(Targets(s)),
         st.placed \in [Targets(s) -> Days \cup {Unplaced}],
         st.placed[n] = Unplaced,
         st.earliest \in Nat,
         WithinCapacity(s, st.placed)
  PROVE  /\ PlaceNode(s, st, n).placed \in [Targets(s) -> Days \cup {Unplaced}]
         /\ WithinCapacity(s, PlaceNode(s, st, n).placed)
         /\ PlaceNode(s, st, n).earliest >= st.earliest
<1> DEFINE d == DayFor(s, st, n)
           after == [st.placed EXCEPT ![n] = d]
<1>1. PlaceNode(s, st, n) = [placed   |-> after,
                             earliest |-> IF d = Unplaced THEN st.earliest ELSE d]
  BY DEF PlaceNode
<1>2. CASE d = Unplaced
  <2>1. after = st.placed
    BY <1>2
  <2>2. QED
    BY <1>1, <1>2, <2>1
<1>3. CASE d # Unplaced
  <2>1. FitsOn(s, st, d)
    BY <1>3, PlacementFits
  <2>2. /\ d \in Days
        /\ d \in AvailableDays(s)
        /\ d \in Nat
        /\ d >= st.earliest
        /\ Used(s, st.placed, d) < DayCapacity
    BY <2>1 DEF FitsOn, AvailableDays, Days
  <2>3. after \in [Targets(s) -> Days \cup {Unplaced}]
    BY <2>2
  <2>4. ASSUME NEW e \in AvailableDays(s)
        PROVE  Used(s, after, e) =< DayCapacity
    <3> DEFINE before == {m \in Targets(s) : st.placed[m] = e}
               now    == {m \in Targets(s) : after[m] = e}
               fixed  == {i \in Preserved(s) : i.day = e}
    <3>1. /\ Used(s, st.placed, e) = Cardinality(fixed) + Cardinality(before)
          /\ Used(s, after, e) = Cardinality(fixed) + Cardinality(now)
      BY <2>3 DEF Used
    <3>2. IsFiniteSet(before) /\ IsFiniteSet(fixed)
      BY FS_Subset DEF Preserved
    <3>3. Cardinality(fixed) \in Nat /\ Cardinality(before) \in Nat
      BY <3>2, FS_CardinalityType
    <3>4. CASE e = d
      <4>1. n \notin before
        BY <1>3, <3>4
      <4>2. now = before \cup {n}
        BY <3>4
      <4>3. Cardinality(now) = Cardinality(before) + 1
        BY <3>2, <4>1, <4>2, FS_AddElement
      <4>4. Used(s, st.placed, e) < DayCapacity
        BY <2>2, <3>4
      <4>5. QED
        BY <3>1, <3>3, <4>3, <4>4, EngineAssumption
    <3>5. CASE e # d
      <4>1. e # Unplaced
        BY DEF AvailableDays, Days, Unplaced
      <4>2. now = before
        BY <3>5, <4>1
      <4>3. Used(s, st.placed, e) =< DayCapacity
        BY DEF WithinCapacity
      <4>4. QED
        BY <3>1, <4>2, <4>3
    <3>6. QED
      BY <3>4, <3>5
  <2>5. PlaceNode(s, st, n).placed = after /\ PlaceNode(s, st, n).earliest = d
    BY <1>1, <1>3
  <2>6. WithinCapacity(s, after)
    BY <2>4 DEF WithinCapacity
  <2>7. QED
    BY <2>2, <2>3, <2>5, <2>6
<1>4. QED
  BY <1>2, <1>3

-----------------------------------------------------------------------------
(* The engine: all rounds.                                                 *)

LEMMA OnlyOne == ASSUME NEW x PROVE Only({x}) = x
  BY DEF Only

Fresh(s) == [placed |-> [n \in Targets(s) |-> Unplaced], earliest |-> s.today]

\* The state of calculateSchedule after each round.
AreRounds(after, s) ==
    /\ after[0] = Fresh(s)
    /\ \A k \in 1..Len(s.order) : after[k] = PlaceNode(s, after[k - 1], s.order[k])

\* A round as calculateSchedule takes it, and the rounds up to the Lth.
Round(s, st, k) == Only({PlaceNode(s, x, s.order[k]) : x \in {st}})
RoundsUpTo(f, L, s) ==
    f = [k \in 0..L |-> IF k = 0 THEN Fresh(s) ELSE Round(s, f[k - 1], k)]

LEMMA RoundIsPlaceNode == ASSUME NEW s, NEW st, NEW k PROVE Round(s, st, k) = PlaceNode(s, st, s.order[k])
<1>1. {PlaceNode(s, x, s.order[k]) : x \in {st}} = {PlaceNode(s, st, s.order[k])}
  OBVIOUS
<1> QED BY <1>1, OnlyOne DEF Round

LEMMA RoundsExist ==
  ASSUME NEW s, NEW N \in Nat
  PROVE  \E f : RoundsUpTo(f, N, s)
<1> DEFINE Good == {L \in 0..N : \E f : RoundsUpTo(f, L, s)}
<1>1. 0 \in Good
  <2>1. RoundsUpTo([k \in 0..0 |-> Fresh(s)], 0, s)
    BY DEF RoundsUpTo
  <2>2. \E f : RoundsUpTo(f, 0, s)
    BY <2>1
  <2> QED BY <2>2
<1>2. ASSUME NEW L \in 1..N, L - 1 \in Good
      PROVE  L \in Good
  <2>1. PICK f : RoundsUpTo(f, L - 1, s)
    BY <1>2
  <2> DEFINE g == [k \in 0..L |-> IF k = 0 THEN Fresh(s) ELSE Round(s, f[k - 1], k)]
  <2>2. \A k \in 0..(L - 1) : g[k] = f[k]
    BY <2>1 DEF RoundsUpTo
  <2>3. ASSUME NEW k \in 0..L
        PROVE  g[k] = IF k = 0 THEN Fresh(s) ELSE Round(s, g[k - 1], k)
    <3>1. k # 0 => k - 1 \in 0..(L - 1)
      OBVIOUS
    <3>2. k # 0 => g[k - 1] = f[k - 1]
      BY <2>2, <3>1
    <3> QED BY <3>2
  <2>4. RoundsUpTo(g, L, s)
    BY <2>3 DEF RoundsUpTo
  <2>5. \E h : RoundsUpTo(h, L, s)
    BY <2>4
  <2> QED BY <2>5
<1>3. N \in Good
  <2> HIDE DEF Good
  <2> QED BY <1>1, <1>2, UpTo
<1> QED BY <1>3

LEMMA Calculation ==
  ASSUME NEW s, Len(s.order) \in Nat
  PROVE  \E after : AreRounds(after, s) /\ CalculateSchedule(s) = after[Len(s.order)].placed
<1> DEFINE after == CHOOSE f : RoundsUpTo(f, Len(s.order), s)
<1>1. RoundsUpTo(after, Len(s.order), s)
  BY RoundsExist
<1>2. CalculateSchedule(s) = after[Len(s.order)].placed
  BY DEF CalculateSchedule, Fresh, Round, RoundsUpTo
<1> HIDE DEF after
<1>3. \A k \in 0..Len(s.order) : after[k] = IF k = 0 THEN Fresh(s) ELSE Round(s, after[k - 1], k)
  BY <1>1 DEF RoundsUpTo
<1>4. AreRounds(after, s)
  BY <1>3, RoundIsPlaceNode DEF AreRounds
<1> QED BY <1>2, <1>4

\* What calculateSchedule is called with: a route without repetitions.
IsSnapshot(s) ==
    /\ Len(s.order) \in Nat
    /\ Distinct(s.order)
    /\ s.today \in Nat
    /\ IsFiniteSet(s.items)

LEMMA TargetsFinite ==
  ASSUME NEW s, Len(s.order) \in Nat
  PROVE  /\ IsFiniteSet(Targets(s))
         /\ \A n \in Targets(s) : \E k \in 1..Len(s.order) : n = s.order[k]
<1> DEFINE range == {s.order[k] : k \in 1..Len(s.order)}
           f == [k \in 1..Len(s.order) |-> s.order[k]]
<1>1. f \in Surjection(1..Len(s.order), range)
  BY DEF Surjection
<1>2. IsFiniteSet(1..Len(s.order))
  BY FS_Interval
<1>3. IsFiniteSet(range)
  BY <1>1, <1>2, FS_Surjection
<1>4. Targets(s) \subseteq range
  BY DEF Targets
<1>5. IsFiniteSet(Targets(s))
  BY <1>3, <1>4, FS_Subset
<1> QED BY <1>4, <1>5

\* What holds of the state after the first k rounds.
Sorted(s, st, k) ==
    \A i, j \in 1..k :
        /\ i < j
        /\ s.order[i] \in Targets(s) /\ s.order[j] \in Targets(s)
        /\ st.placed[s.order[i]] # Unplaced /\ st.placed[s.order[j]] # Unplaced
        => st.placed[s.order[i]] =< st.placed[s.order[j]]

RoundInv(s, st, k) ==
    /\ st.placed \in [Targets(s) -> Days \cup {Unplaced}]
    /\ st.earliest \in Nat
    /\ WithinCapacity(s, st.placed)
    /\ \A n \in Targets(s) :
          st.placed[n] # Unplaced =>
              st.placed[n] \in AvailableDays(s) /\ st.placed[n] =< st.earliest
    /\ \A j \in 1..Len(s.order) :
          j > k /\ s.order[j] \in Targets(s) => st.placed[s.order[j]] = Unplaced
    /\ Sorted(s, st, k)

LEMMA FirstRound ==
  ASSUME NEW s, IsSnapshot(s)
  PROVE  RoundInv(s, Fresh(s), 0)
<1> DEFINE none == [n \in Targets(s) |-> Unplaced]
<1>1. Fresh(s).placed = none /\ Fresh(s).earliest = s.today
  BY DEF Fresh
<1>2. none \in [Targets(s) -> Days \cup {Unplaced}]
  OBVIOUS
<1>3. WithinCapacity(s, none)
  <2> SUFFICES ASSUME NEW d \in AvailableDays(s) PROVE Used(s, none, d) =< DayCapacity
    BY DEF WithinCapacity
  <2>1. {i \in Preserved(s) : i.day = d} = {}
    BY DEF AvailableDays
  <2>2. d # Unplaced
    BY DEF AvailableDays, Days, Unplaced
  <2>3. {n \in DOMAIN none : none[n] = d} = {}
    BY <2>2
  <2>4. Cardinality({i \in Preserved(s) : i.day = d}) = 0
    BY <2>1, FS_EmptySet
  <2>5. Cardinality({n \in DOMAIN none : none[n] = d}) = 0
    BY <2>3, FS_EmptySet
  <2>6. Used(s, none, d) = 0 + 0
    BY <2>4, <2>5 DEF Used
  <2> QED BY <2>6, EngineAssumption
<1> QED BY <1>1, <1>2, <1>3 DEF RoundInv, Sorted, IsSnapshot

LEMMA NextRound ==
  ASSUME NEW s, IsSnapshot(s), NEW k \in 1..Len(s.order), NEW st, RoundInv(s, st, k - 1)
  PROVE  RoundInv(s, PlaceNode(s, st, s.order[k]), k)
<1> DEFINE n == s.order[k]
           d == DayFor(s, st, n)
           next == PlaceNode(s, st, n)
<1>0. k \in Nat /\ k - 1 \in Nat
  BY DEF IsSnapshot
<1>1. CASE n \notin Targets(s)
  <2>1. next = st
    BY <1>1 DEF PlaceNode
  <2>2. Sorted(s, st, k)
    <3> SUFFICES ASSUME NEW i \in 1..k, NEW j \in 1..k, i < j,
                        s.order[i] \in Targets(s), s.order[j] \in Targets(s),
                        st.placed[s.order[i]] # Unplaced, st.placed[s.order[j]] # Unplaced
                 PROVE  st.placed[s.order[i]] =< st.placed[s.order[j]]
      BY DEF Sorted
    <3>1. i \in 1..(k - 1) /\ j \in 1..(k - 1)
      BY <1>1
    <3> QED BY <3>1 DEF RoundInv, Sorted
  <2>3. \A j \in 1..Len(s.order) : j > k => j > k - 1
    OBVIOUS
  <2>4. RoundInv(s, st, k)
    BY <2>2, <2>3 DEF RoundInv
  <2> QED BY <2>1, <2>4
<1>2. CASE n \in Targets(s)
  <2> DEFINE after == [st.placed EXCEPT ![n] = d]
  <2>1. next = [placed |-> after, earliest |-> IF d = Unplaced THEN st.earliest ELSE d]
    BY <1>2 DEF PlaceNode
  <2>2. st.placed[n] = Unplaced
    BY <1>0, <1>2 DEF RoundInv
  <2>3. IsFiniteSet(Targets(s)) /\ IsFiniteSet(s.items)
    BY TargetsFinite DEF IsSnapshot
  <2>4. /\ next.placed \in [Targets(s) -> Days \cup {Unplaced}]
        /\ WithinCapacity(s, next.placed)
        /\ next.earliest >= st.earliest
    BY <1>2, <2>2, <2>3, RoundsKeepTheLimits DEF RoundInv
  <2>5. next.placed = after /\ next.earliest = IF d = Unplaced THEN st.earliest ELSE d
    BY <2>1
  <2>6. /\ after[n] = d
        /\ \A m \in Targets(s) : m # n => after[m] = st.placed[m]
    BY <1>2 DEF RoundInv
  <2>7. d # Unplaced => d \in AvailableDays(s) /\ d \in Nat /\ d >= st.earliest
    BY PlacementFits DEF FitsOn, AvailableDays, Days
  <2>8. next.earliest \in Nat
    BY <2>5, <2>7 DEF RoundInv
  <2>9. ASSUME NEW m \in Targets(s), next.placed[m] # Unplaced
        PROVE  next.placed[m] \in AvailableDays(s) /\ next.placed[m] =< next.earliest
    <3>1. CASE m = n
      BY <2>5, <2>6, <2>7, <2>9, <3>1
    <3>2. CASE m # n
      <4>1. next.placed[m] = st.placed[m]
        BY <2>5, <2>6, <3>2
      <4>2. st.placed[m] \in AvailableDays(s) /\ st.placed[m] =< st.earliest
        BY <2>9, <4>1 DEF RoundInv
      <4>3. st.placed[m] \in Nat /\ st.earliest \in Nat
        BY <4>2 DEF AvailableDays, Days, RoundInv
      <4> HIDE DEF next, d
      <4> QED BY <2>4, <2>8, <4>1, <4>2, <4>3
    <3> QED BY <3>1, <3>2
  <2>10. ASSUME NEW j \in 1..Len(s.order), j > k, s.order[j] \in Targets(s)
         PROVE  next.placed[s.order[j]] = Unplaced
    <3>1. s.order[j] # n
      BY <2>10 DEF IsSnapshot, Distinct
    <3>2. j > k - 1
      BY <2>10
    <3>3. st.placed[s.order[j]] = Unplaced
      BY <2>10, <3>2 DEF RoundInv
    <3> QED BY <2>5, <2>6, <2>10, <3>1, <3>3
  <2>11. Sorted(s, next, k)
    <3> SUFFICES ASSUME NEW i \in 1..k, NEW j \in 1..k, i < j,
                        s.order[i] \in Targets(s), s.order[j] \in Targets(s),
                        next.placed[s.order[i]] # Unplaced, next.placed[s.order[j]] # Unplaced
                 PROVE  next.placed[s.order[i]] =< next.placed[s.order[j]]
      BY DEF Sorted
    <3>1. i \in 1..(k - 1) /\ s.order[i] # n
      BY DEF IsSnapshot, Distinct
    <3>2. next.placed[s.order[i]] = st.placed[s.order[i]]
      BY <2>5, <2>6, <3>1
    <3>3. CASE j = k
      <4>1. next.placed[s.order[j]] = d /\ d # Unplaced
        BY <2>5, <2>6, <3>3
      <4>2. st.placed[s.order[i]] =< st.earliest /\ st.placed[s.order[i]] \in Nat
        BY <3>2 DEF RoundInv, AvailableDays, Days
      <4>3. d >= st.earliest /\ d \in Nat /\ st.earliest \in Nat
        BY <2>7, <4>1 DEF RoundInv
      <4> HIDE DEF next, d
      <4> QED BY <3>2, <4>1, <4>2, <4>3
    <3>4. CASE j # k
      <4>1. j \in 1..(k - 1) /\ s.order[j] # n
        BY <3>4 DEF IsSnapshot, Distinct
      <4>2. next.placed[s.order[j]] = st.placed[s.order[j]]
        BY <2>5, <2>6, <4>1
      <4>3. st.placed[s.order[i]] =< st.placed[s.order[j]]
        BY <3>1, <3>2, <4>1, <4>2 DEF RoundInv, Sorted
      <4> HIDE DEF next
      <4> QED BY <3>2, <4>2, <4>3
    <3> QED BY <3>3, <3>4
  <2>12. RoundInv(s, next, k)
    <3> HIDE DEF next
    <3> QED BY <2>4, <2>8, <2>9, <2>10, <2>11 DEF RoundInv
  <2> QED BY <2>12
<1> QED BY <1>1, <1>2

LEMMA LastRound ==
  ASSUME NEW s, IsSnapshot(s), NEW after, AreRounds(after, s)
  PROVE  RoundInv(s, after[Len(s.order)], Len(s.order))
<1> DEFINE Good == {k \in 0..Len(s.order) : RoundInv(s, after[k], k)}
<1>1. Len(s.order) \in Nat
  BY DEF IsSnapshot
<1>2. 0 \in Good
  BY <1>1, FirstRound DEF AreRounds
<1>3. ASSUME NEW k \in 1..Len(s.order), k - 1 \in Good
      PROVE  k \in Good
  BY <1>3, NextRound DEF AreRounds
<1>4. Len(s.order) \in Good
  <2> DEFINE L == Len(s.order)
  <2>1. L \in Nat /\ 0 \in Good /\ \A k \in 1..L : k - 1 \in Good => k \in Good
    BY <1>1, <1>2, <1>3
  <2> HIDE DEF Good, L
  <2>2. \A k \in 0..L : k \in Good
    BY <2>1, UpTo
  <2>3. L \in Good
    BY <2>1, <2>2
  <2> QED BY <2>3 DEF L
<1> QED BY <1>4

\* Whatever the snapshot: no node that found a place is on a day that is taken,
\* overfills its day, or comes before an earlier node.
THEOREM SchedulesKeepTheLimits ==
  ASSUME NEW s, IsSnapshot(s), Conflicts(CalculateSchedule(s)) = {}
  PROVE  SoundSchedule(s, CalculateSchedule(s))
<1> DEFINE L == Len(s.order)
           placed == CalculateSchedule(s)
<1>1. PICK after : AreRounds(after, s) /\ placed = after[L].placed
  BY Calculation DEF IsSnapshot
<1>2. RoundInv(s, after[L], L)
  BY <1>1, LastRound
<1> HIDE DEF placed
<1>3. /\ placed \in [Targets(s) -> Days \cup {Unplaced}]
      /\ WithinCapacity(s, placed)
      /\ \A n \in Targets(s) : placed[n] # Unplaced => placed[n] \in AvailableDays(s)
  BY <1>1, <1>2 DEF RoundInv
<1>4. \A n \in Targets(s) : placed[n] # Unplaced
  BY <1>3 DEF Conflicts, placed
<1>5. ASSUME NEW j \in 1..L, NEW k \in 1..L, j < k, s.order[j] \in Targets(s), s.order[k] \in Targets(s)
      PROVE  placed[s.order[j]] =< placed[s.order[k]]
  BY <1>1, <1>2, <1>4, <1>5 DEF RoundInv, Sorted
<1>6. DOMAIN placed = Targets(s)
  BY <1>3
<1>7. SoundSchedule(s, placed)
  BY <1>3, <1>4, <1>5, <1>6 DEF SoundSchedule, WithinCapacity
<1> QED BY <1>7 DEF placed

\* What holds after the first k rounds when the existing places are sound: the
\* nodes of these rounds have kept theirs, and none of the others is too early.
KeptInv(s, st, k) ==
    /\ RoundInv(s, st, k)
    /\ \A j \in 1..Len(s.order) :
          s.order[j] \in Targets(s)
          => IF j =< k THEN st.placed[s.order[j]] = ExistingPlaces(s)[s.order[j]]
             ELSE st.earliest =< ExistingPlaces(s)[s.order[j]]

LEMMA ExistingPlacesOfTargets ==
  ASSUME NEW s, SoundSchedule(s, ExistingPlaces(s))
  PROVE  /\ ExistingPlaces(s) = [n \in Targets(s) |-> ExistingItem(s, n).day]
         /\ \A n \in Targets(s) :
               /\ HasItem(s, n)
               /\ ExistingPlaces(s)[n] = ExistingItem(s, n).day
               /\ ExistingPlaces(s)[n] \in AvailableDays(s)
<1>1. {i.node : i \in Mutable(s)} = Targets(s)
  BY DEF SoundSchedule, ExistingPlaces
<1>2. ExistingPlaces(s) = [n \in Targets(s) |-> ExistingItem(s, n).day]
  BY <1>1 DEF ExistingPlaces
<1>3. \A n \in Targets(s) : HasItem(s, n)
  BY <1>1 DEF HasItem
<1>4. \A n \in Targets(s) : ExistingPlaces(s)[n] = ExistingItem(s, n).day
  BY <1>2
<1>5. \A n \in Targets(s) : ExistingPlaces(s)[n] \in AvailableDays(s)
  BY <1>2 DEF SoundSchedule
<1> QED BY <1>2, <1>3, <1>4, <1>5

LEMMA NextKept ==
  ASSUME NEW s, IsSnapshot(s), SoundSchedule(s, ExistingPlaces(s)),
         NEW k \in 1..Len(s.order), NEW st, KeptInv(s, st, k - 1)
  PROVE  KeptInv(s, PlaceNode(s, st, s.order[k]), k)
<1> DEFINE n == s.order[k]
           E == ExistingPlaces(s)
           next == PlaceNode(s, st, n)
<1>0. k \in Nat /\ k - 1 \in Nat
  BY DEF IsSnapshot
<1>1. RoundInv(s, next, k)
  BY NextRound DEF KeptInv
<1>2. CASE n \notin Targets(s)
  <2>1. next = st
    BY <1>2 DEF PlaceNode
  <2>2. \A j \in 1..Len(s.order) : s.order[j] \in Targets(s) => (j =< k - 1 <=> j =< k)
    BY <1>0, <1>2
  <2>3. KeptInv(s, next, k)
    <3> HIDE DEF next
    <3> QED BY <1>1, <2>1, <2>2 DEF KeptInv
  <2> QED BY <2>3
<1>3. CASE n \in Targets(s)
  <2>1. /\ E = [m \in Targets(s) |-> ExistingItem(s, m).day]
        /\ HasItem(s, n) /\ E[n] = ExistingItem(s, n).day
        /\ \A m \in Targets(s) : E[m] \in AvailableDays(s)
    BY <1>3, ExistingPlacesOfTargets
  <2> HIDE DEF E
  <2>2. E[n] \in AvailableDays(s) /\ E[n] \in Days /\ E[n] \in Nat /\ E[n] # Unplaced
    BY <1>3, <2>1 DEF AvailableDays, Days, Unplaced
  <2>3. E[n] >= st.earliest
    BY <1>0, <1>3, <2>2 DEF KeptInv, RoundInv, E
  <2>4. Used(s, st.placed, E[n]) < DayCapacity
    <3> DEFINE before == {m \in Targets(s) : st.placed[m] = E[n]}
               all    == {m \in Targets(s) : E[m] = E[n]}
               fixed  == {i \in Preserved(s) : i.day = E[n]}
    <3>1. /\ Used(s, st.placed, E[n]) = Cardinality(fixed) + Cardinality(before)
          /\ Used(s, E, E[n]) = Cardinality(fixed) + Cardinality(all)
      BY <2>1 DEF Used, KeptInv, RoundInv
    <3>2. IsFiniteSet(Targets(s)) /\ IsFiniteSet(s.items)
      BY TargetsFinite DEF IsSnapshot
    <3>3. IsFiniteSet(before) /\ IsFiniteSet(all) /\ IsFiniteSet(fixed)
      BY <3>2, FS_Subset DEF Preserved
    <3>4. n \notin before
      BY <1>0, <1>3, <2>2 DEF KeptInv, RoundInv
    <3>5. ASSUME NEW m \in before PROVE m \in all
      <4>1. PICK j \in 1..Len(s.order) : m = s.order[j]
        BY TargetsFinite DEF IsSnapshot
      <4>2. j =< k - 1
        BY <1>0, <2>2, <4>1 DEF KeptInv, RoundInv
      <4> QED BY <4>1, <4>2 DEF KeptInv, E
    <3>6. before \cup {n} \subseteq all
      BY <1>3, <3>5
    <3>7. Cardinality(before \cup {n}) = Cardinality(before) + 1
      BY <3>3, <3>4, FS_AddElement
    <3>8. Cardinality(before \cup {n}) =< Cardinality(all)
      BY <3>3, <3>6, FS_Subset
    <3>9. Used(s, E, E[n]) =< DayCapacity
      BY <2>2 DEF SoundSchedule, E
    <3>10. Cardinality(before) \in Nat /\ Cardinality(fixed) \in Nat /\ Cardinality(all) \in Nat
      BY <3>3, FS_CardinalityType
    <3> HIDE DEF before, all, fixed
    <3> QED BY <3>1, <3>7, <3>8, <3>9, <3>10, EngineAssumption
  <2>5. DayFor(s, st, n) = E[n]
    BY <2>1, <2>2, <2>3, <2>4 DEF DayFor, FitsOn
  <2>6. next = [placed |-> [st.placed EXCEPT ![n] = E[n]], earliest |-> E[n]]
    BY <1>3, <2>2, <2>5 DEF PlaceNode
  <2>7. ASSUME NEW j \in 1..Len(s.order), s.order[j] \in Targets(s)
        PROVE  IF j =< k THEN next.placed[s.order[j]] = E[s.order[j]]
               ELSE next.earliest =< E[s.order[j]]
    <3>1. CASE j = k
      BY <1>0, <1>3, <2>6, <3>1 DEF KeptInv, RoundInv
    <3>2. CASE j < k
      <4>1. s.order[j] # n /\ j =< k - 1
        BY <3>2 DEF IsSnapshot, Distinct
      <4>2. st.placed[s.order[j]] = E[s.order[j]]
        BY <2>7, <4>1 DEF KeptInv, E
      <4>3. next.placed[s.order[j]] = st.placed[s.order[j]]
        BY <1>3, <2>6, <2>7, <4>1 DEF KeptInv, RoundInv
      <4> QED BY <3>2, <4>2, <4>3
    <3>3. CASE j > k
      <4>1. E[n] =< E[s.order[j]]
        BY <1>3, <2>1, <2>7, <3>3 DEF SoundSchedule, E
      <4> QED BY <2>6, <3>3, <4>1
    <3> QED BY <3>1, <3>2, <3>3
  <2>8. KeptInv(s, next, k)
    <3> HIDE DEF next
    <3> QED BY <1>1, <2>7 DEF KeptInv, E
  <2> QED BY <2>8
<1> QED BY <1>2, <1>3

\* Whatever the snapshot: when the existing places of the open nodes are sound
\* together, they are the schedule.
THEOREM SoundPlacesAreKept ==
  ASSUME NEW s, IsSnapshot(s), SoundSchedule(s, ExistingPlaces(s))
  PROVE  CalculateSchedule(s) = ExistingPlaces(s)
<1> DEFINE L == Len(s.order)
           E == ExistingPlaces(s)
<1>1. L \in Nat
  BY DEF IsSnapshot
<1>2. PICK after : AreRounds(after, s) /\ CalculateSchedule(s) = after[L].placed
  BY <1>1, Calculation
<1> DEFINE Good == {k \in 0..L : KeptInv(s, after[k], k)}
<1>3. 0 \in Good
  <2>1. RoundInv(s, after[0], 0) /\ after[0] = Fresh(s)
    BY <1>2, FirstRound DEF AreRounds
  <2>2. ASSUME NEW j \in 1..L, s.order[j] \in Targets(s)
        PROVE  after[0].earliest =< E[s.order[j]]
    <3>1. E[s.order[j]] \in AvailableDays(s)
      BY <2>2, ExistingPlacesOfTargets
    <3>2. after[0].earliest = s.today
      BY <2>1 DEF Fresh
    <3> QED BY <3>1, <3>2 DEF AvailableDays
  <2>3. KeptInv(s, after[0], 0)
    BY <2>1, <2>2 DEF KeptInv
  <2> QED BY <1>1, <2>3
<1>4. ASSUME NEW k \in 1..L, k - 1 \in Good
      PROVE  k \in Good
  BY <1>2, <1>4, NextKept DEF AreRounds
<1>5. L \in Good
  <2> HIDE DEF Good, L
  <2>1. \A k \in 0..L : k \in Good
    BY <1>1, <1>3, <1>4, UpTo
  <2> QED BY <1>1, <2>1
<1>6. KeptInv(s, after[L], L)
  BY <1>5
<1>7. ASSUME NEW n \in Targets(s) PROVE after[L].placed[n] = E[n]
  <2>1. PICK j \in 1..L : n = s.order[j]
    BY <1>1, TargetsFinite
  <2> QED BY <1>6, <2>1 DEF KeptInv
<1>8. E = [n \in Targets(s) |-> E[n]]
  BY ExistingPlacesOfTargets
<1>9. after[L].placed = [n \in Targets(s) |-> after[L].placed[n]]
  BY <1>6 DEF KeptInv, RoundInv
<1> QED BY <1>2, <1>7, <1>8, <1>9

-----------------------------------------------------------------------------
(* The order of a learner: overrides.                                      *)

\* The steps of Without.
KeptUpTo(f, seq, out) ==
    f = [k \in 0..Len(seq) |-> IF k = 0 THEN << >>
                               ELSE IF seq[k] \in out THEN f[k - 1]
                               ELSE Append(f[k - 1], seq[k])]

\* Filtering keeps the elements that are not left out, and repeats none.
LEMMA WithoutProperties ==
  ASSUME NEW S, NEW seq \in Seq(S), NEW out
  PROVE  /\ Without(seq, out) \in Seq(S)
         /\ Elements(Without(seq, out)) = Elements(seq) \ out
         /\ Distinct(seq) => Distinct(Without(seq, out))
<1> DEFINE N == Len(seq)
           step == [k \in 1..N |-> [x \in Seq(S) |-> IF seq[k] \in out THEN x
                                                     ELSE Append(x, seq[k])]]
           kept == CHOOSE f : KeptUpTo(f, seq, out)
<1>1. N \in Nat /\ \A k \in 1..N : seq[k] \in S
  OBVIOUS
<1>2. \E f : KeptUpTo(f, seq, out)
  <2>1. step \in [1..N -> [Seq(S) -> Seq(S)]]
    BY <1>1
  <2>2. << >> \in Seq(S)
    OBVIOUS
  <2> HIDE DEF step, N
  <2>3. PICK f \in [0..N -> Seq(S)] : AreSteps(f, N, << >>, step)
    BY <1>1, <2>1, <2>2, StepsExist
  <2>4. ASSUME NEW k \in 1..N
        PROVE  f[k] = IF seq[k] \in out THEN f[k - 1] ELSE Append(f[k - 1], seq[k])
    <3>1. f[k - 1] \in Seq(S)
      BY <1>1
    <3> QED BY <2>3, <3>1 DEF step, AreSteps
  <2>5. f = [k \in 0..N |-> IF k = 0 THEN << >>
                            ELSE IF seq[k] \in out THEN f[k - 1]
                            ELSE Append(f[k - 1], seq[k])]
    <3>1. f = [k \in 0..N |-> f[k]]
      OBVIOUS
    <3>2. \A k \in 0..N : f[k] = IF k = 0 THEN << >>
                                  ELSE IF seq[k] \in out THEN f[k - 1]
                                  ELSE Append(f[k - 1], seq[k])
      <4> SUFFICES ASSUME NEW k \in 0..N, k # 0
                   PROVE  f[k] = IF seq[k] \in out THEN f[k - 1] ELSE Append(f[k - 1], seq[k])
        BY <2>3 DEF AreSteps
      <4>1. k \in 1..N
        BY <1>1
      <4> QED BY <2>4, <4>1
    <3> QED BY <3>1, <3>2
  <2>6. KeptUpTo(f, seq, out)
    BY <2>5 DEF KeptUpTo, N
  <2> QED BY <2>6
<1>3. KeptUpTo(kept, seq, out)
  BY <1>2
<1>4. Without(seq, out) = kept[N]
  BY DEF Without, KeptUpTo
<1> HIDE DEF kept
<1>5. /\ kept[0] = << >>
      /\ \A k \in 1..N : kept[k] = IF seq[k] \in out THEN kept[k - 1]
                                   ELSE Append(kept[k - 1], seq[k])
  <2>1. \A k \in 0..N : kept[k] = IF k = 0 THEN << >>
                                   ELSE IF seq[k] \in out THEN kept[k - 1]
                                   ELSE Append(kept[k - 1], seq[k])
    BY <1>3 DEF KeptUpTo
  <2> QED BY <1>1, <2>1
<1> DEFINE Good == {k \in 0..N :
                       /\ kept[k] \in Seq(S)
                       /\ Elements(kept[k]) = {seq[j] : j \in 1..k} \ out
                       /\ Distinct(seq) => Distinct(kept[k])}
<1>6. 0 \in Good
  <2>1. Len(kept[0]) = 0 /\ kept[0] \in Seq(S)
    BY <1>5
  <2>2. Elements(kept[0]) = {} /\ Distinct(kept[0])
    BY <2>1 DEF Elements, Distinct
  <2> QED BY <1>1, <2>1, <2>2
<1>7. ASSUME NEW k \in 1..N, k - 1 \in Good
      PROVE  k \in Good
  <2> DEFINE old == kept[k - 1]
             x == seq[k]
  <2>1. /\ old \in Seq(S)
        /\ Elements(old) = {seq[j] : j \in 1..(k - 1)} \ out
        /\ Distinct(seq) => Distinct(old)
        /\ x \in S
    BY <1>1, <1>7
  <2>2. {seq[j] : j \in 1..k} = {seq[j] : j \in 1..(k - 1)} \cup {x}
    BY <1>1
  <2>3. CASE x \in out
    <3>1. kept[k] = old
      BY <1>5, <2>3
    <3> QED BY <2>1, <2>2, <2>3, <3>1
  <2>4. CASE x \notin out
    <3>1. kept[k] = Append(old, x)
      BY <1>5, <2>4
    <3> HIDE DEF old, x
    <3>2. /\ Append(old, x) \in Seq(S)
          /\ Len(old) \in Nat
          /\ Len(Append(old, x)) = Len(old) + 1
          /\ \A i \in 1..Len(old) : Append(old, x)[i] = old[i]
          /\ Append(old, x)[Len(old) + 1] = x
      BY <2>1, AppendProperties, LenProperties
    <3>3. Elements(Append(old, x)) = Elements(old) \cup {x}
      <4>1. ASSUME NEW i \in 1..(Len(old) + 1) PROVE Append(old, x)[i] \in Elements(old) \cup {x}
        BY <3>2 DEF Elements
      <4>2. ASSUME NEW i \in 1..Len(old) PROVE old[i] \in Elements(Append(old, x))
        <5>1. i \in 1..Len(Append(old, x)) /\ Append(old, x)[i] = old[i]
          BY <3>2
        <5> QED BY <5>1 DEF Elements
      <4>3. x \in Elements(Append(old, x))
        <5>1. Len(old) + 1 \in 1..Len(Append(old, x))
          BY <3>2
        <5> QED BY <3>2, <5>1 DEF Elements
      <4> QED BY <3>2, <4>1, <4>2, <4>3 DEF Elements
    <3>4. ASSUME Distinct(seq) PROVE Distinct(Append(old, x))
      <4>1. x \notin Elements(old)
        BY <1>1, <2>1, <3>4 DEF Distinct, x
      <4>2. \A i \in 1..Len(old) : old[i] # x
        BY <4>1 DEF Elements
      <4>3. \A i, j \in 1..Len(old) : old[i] = old[j] => i = j
        BY <2>1, <3>4 DEF Distinct
      <4> QED BY <3>2, <4>2, <4>3 DEF Distinct
    <3>5. Elements(kept[k]) = {seq[j] : j \in 1..k} \ out
      BY <2>1, <2>2, <2>4, <3>1, <3>3
    <3>6. kept[k] \in Seq(S) /\ (Distinct(seq) => Distinct(kept[k]))
      BY <3>1, <3>2, <3>4
    <3>7. k \in 0..N
      BY <1>1
    <3> QED BY <3>5, <3>6, <3>7
  <2> QED BY <2>3, <2>4
<1>8. N \in Good
  <2> HIDE DEF Good, N
  <2>1. \A k \in 0..N : k \in Good
    BY <1>1, <1>6, <1>7, UpTo
  <2> QED BY <1>1, <2>1
<1> QED BY <1>4, <1>8 DEF Elements

\* Extra work comes between the nodes of an order: nothing is lost, and
\* nothing repeated that was not repeated.
LEMMA InsertProperties ==
  ASSUME NEW S, NEW order \in Seq(S), NEW ov, ov.insert \in Seq(S)
  PROVE  /\ InsertBefore(order, ov) \in Seq(S)
         /\ Elements(InsertBefore(order, ov)) = Elements(order) \cup Elements(ov.insert)
         /\ Distinct(order) /\ Distinct(ov.insert) /\ Elements(order) \cap Elements(ov.insert) = {}
            => Distinct(InsertBefore(order, ov))
<1> DEFINE at == IF ov.anchor = NoNode THEN 0
                 ELSE IF Occurs(order, ov.anchor) THEN Position(order, ov.anchor) - 1
                 ELSE Len(order)
           ins == ov.insert
           front == SubSeq(order, 1, at)
           back == SubSeq(order, at + 1, Len(order))
           res == front \o ins \o back
<1>1. at \in 0..Len(order)
  <2>1. Occurs(order, ov.anchor) => Position(order, ov.anchor) \in 1..Len(order)
    BY DEF Occurs, Position
  <2> QED BY <2>1
<1>2. InsertBefore(order, ov) = res
  BY DEF InsertBefore
<1> HIDE DEF at, ins
<1>3. ins \in Seq(S) /\ Len(ins) \in Nat /\ Len(order) \in Nat
  BY DEF ins
<1>4. /\ front \in Seq(S) /\ Len(front) = at
      /\ \A i \in 1..at : front[i] = order[i]
  BY <1>1, <1>3, SubSeqProperties
<1>5. /\ back \in Seq(S) /\ Len(back) = Len(order) - at
      /\ \A i \in 1..(Len(order) - at) : back[i] = order[at + i]
  BY <1>1, <1>3, SubSeqProperties
<1> HIDE DEF front, back
<1>6. /\ front \o ins \in Seq(S) /\ Len(front \o ins) = at + Len(ins)
      /\ \A i \in 1..at : (front \o ins)[i] = order[i]
      /\ \A i \in 1..Len(ins) : (front \o ins)[at + i] = ins[i]
  <2>1. /\ front \o ins \in Seq(S)
        /\ Len(front \o ins) = Len(front) + Len(ins)
        /\ \A i \in 1..(Len(front) + Len(ins)) :
              (front \o ins)[i] = IF i <= Len(front) THEN front[i] ELSE ins[i - Len(front)]
    BY <1>3, <1>4, ConcatProperties
  <2>2. \A i \in 1..at : (front \o ins)[i] = order[i]
    BY <1>1, <1>3, <1>4, <2>1
  <2>3. \A i \in 1..Len(ins) : (front \o ins)[at + i] = ins[i]
    BY <1>1, <1>3, <1>4, <2>1
  <2> QED BY <1>4, <2>1, <2>2, <2>3
<1> DEFINE begin == front \o ins
<1> HIDE DEF begin
<1>7. /\ res \in Seq(S) /\ Len(res) = Len(order) + Len(ins)
      /\ \A i \in 1..at : res[i] = order[i]
      /\ \A i \in 1..Len(ins) : res[at + i] = ins[i]
      /\ \A i \in 1..(Len(order) - at) : res[at + Len(ins) + i] = order[at + i]
  <2>1. res = begin \o back
    BY DEF begin
  <2>2. /\ begin \in Seq(S) /\ Len(begin) = at + Len(ins)
        /\ \A i \in 1..at : begin[i] = order[i]
        /\ \A i \in 1..Len(ins) : begin[at + i] = ins[i]
    BY <1>6 DEF begin
  <2>3. /\ begin \o back \in Seq(S)
        /\ Len(begin \o back) = Len(begin) + Len(back)
        /\ \A i \in 1..(Len(begin) + Len(back)) :
              (begin \o back)[i] = IF i <= Len(begin) THEN begin[i] ELSE back[i - Len(begin)]
    BY <1>5, <2>2, ConcatProperties
  <2>4. Len(begin \o back) = Len(order) + Len(ins)
    BY <1>1, <1>3, <1>5, <2>2, <2>3
  <2>5. \A i \in 1..at : (begin \o back)[i] = order[i]
    BY <1>1, <1>3, <1>5, <2>2, <2>3
  <2>6. ASSUME NEW i \in 1..Len(ins) PROVE (begin \o back)[at + i] = ins[i]
    <3>1. at + i \in 1..(Len(begin) + Len(back)) /\ at + i =< Len(begin)
      BY <1>1, <1>3, <1>5, <2>2
    <3> QED BY <2>2, <2>3, <3>1
  <2>7. ASSUME NEW i \in 1..(Len(order) - at)
        PROVE  (begin \o back)[at + Len(ins) + i] = order[at + i]
    <3> DEFINE q == at + Len(ins) + i
    <3>1. q \in 1..(Len(begin) + Len(back)) /\ ~(q =< Len(begin)) /\ q - Len(begin) = i
      BY <1>1, <1>3, <1>5, <2>2
    <3> HIDE DEF q
    <3>2. (begin \o back)[q] = back[q - Len(begin)]
      BY <2>3, <3>1
    <3>3. (begin \o back)[q] = order[at + i]
      BY <1>5, <3>1, <3>2
    <3> QED BY <3>3 DEF q
  <2> QED BY <2>1, <2>3, <2>4, <2>5, <2>6, <2>7
<1> HIDE DEF res
\* Every place of the result is one of the order or one of the extra work.
<1> DEFINE m == Len(ins)
           L == Len(order)
           From(i) == IF i =< at THEN i ELSE i - m
<1>8. ASSUME NEW i \in 1..Len(res)
      PROVE  \/ i > at /\ i =< at + m /\ i - at \in 1..m /\ res[i] = ins[i - at]
             \/ ~(i > at /\ i =< at + m) /\ From(i) \in 1..L /\ res[i] = order[From(i)]
  <2>1. CASE i =< at
    BY <1>1, <1>3, <1>7, <2>1
  <2>2. CASE i > at /\ i =< at + m
    <3>1. i - at \in 1..m /\ i = at + (i - at)
      BY <1>1, <1>3, <2>2
    <3> QED BY <1>7, <2>2, <3>1
  <2>3. CASE i > at + m
    <3>1. /\ i - m - at \in 1..(L - at) /\ i = at + m + (i - m - at)
          /\ at + (i - m - at) = i - m /\ i - m \in 1..L
      BY <1>1, <1>3, <1>7, <2>3
    <3>2. res[i] = order[i - m]
      BY <1>7, <3>1
    <3>3. From(i) = i - m /\ ~(i =< at + m)
      BY <1>1, <1>3, <2>3
    <3> QED BY <3>1, <3>2, <3>3
  <2> QED BY <1>1, <1>3, <2>1, <2>2, <2>3
<1>9. Elements(res) = Elements(order) \cup Elements(ins)
  <2>1. ASSUME NEW i \in 1..Len(res) PROVE res[i] \in Elements(order) \cup Elements(ins)
    BY <1>8 DEF Elements
  <2>2. ASSUME NEW j \in 1..L PROVE order[j] \in Elements(res)
    <3>1. CASE j =< at
      <4>1. j \in 1..Len(res) /\ j \in 1..at
        BY <1>1, <1>3, <1>7, <3>1
      <4> QED BY <1>7, <4>1 DEF Elements
    <3>2. CASE j > at
      <4>1. j - at \in 1..(L - at) /\ at + (j - at) = j /\ at + m + (j - at) \in 1..Len(res)
        BY <1>1, <1>3, <1>7, <3>2
      <4> QED BY <1>7, <4>1 DEF Elements
    <3> QED BY <1>1, <1>3, <3>1, <3>2
  <2>3. ASSUME NEW j \in 1..m PROVE ins[j] \in Elements(res)
    <3>1. at + j \in 1..Len(res)
      BY <1>1, <1>3, <1>7
    <3> QED BY <1>7, <3>1 DEF Elements
  <2> QED BY <2>1, <2>2, <2>3 DEF Elements
<1>10. ASSUME Distinct(order), Distinct(ins), Elements(order) \cap Elements(ins) = {}
       PROVE  Distinct(res)
  <2> SUFFICES ASSUME NEW i \in 1..Len(res), NEW j \in 1..Len(res), res[i] = res[j]
               PROVE  i = j
    BY DEF Distinct
  <2>1. \A x \in 1..m, y \in 1..L : ins[x] # order[y]
    BY <1>10 DEF Elements
  <2>2. i \in Nat /\ j \in Nat /\ at \in Nat /\ m \in Nat
    BY <1>1, <1>3, <1>7
  <2>3. CASE i > at /\ i =< at + m
    <3>1. i - at \in 1..m /\ res[i] = ins[i - at]
      BY <1>8, <2>3
    <3>2. j > at /\ j =< at + m /\ j - at \in 1..m /\ res[j] = ins[j - at]
      BY <1>8, <2>1, <3>1
    <3>3. i - at = j - at
      BY <1>10, <3>1, <3>2 DEF Distinct
    <3> QED BY <2>2, <3>3
  <2>4. CASE ~(i > at /\ i =< at + m)
    <3>1. From(i) \in 1..L /\ res[i] = order[From(i)]
      BY <1>8, <2>4
    <3>2. ~(j > at /\ j =< at + m) /\ From(j) \in 1..L /\ res[j] = order[From(j)]
      BY <1>8, <2>1, <3>1
    <3>3. From(i) = From(j)
      BY <1>10, <3>1, <3>2 DEF Distinct
    <3> QED BY <2>2, <2>4, <3>2, <3>3
  <2> QED BY <2>3, <2>4
<1> QED BY <1>2, <1>7, <1>9, <1>10 DEF ins

\* Overrides that insert nodes of their own.
Override == [skip : SUBSET Nat, insert : Seq(Nat), anchor : Nat, rejoin : Nat]
AreOverrides(ovs, route) ==
    /\ ovs \in Seq(Override)
    /\ \A j \in 1..Len(ovs) :
          /\ Distinct(ovs[j].insert)
          /\ Elements(route) \cap Elements(ovs[j].insert) = {}
    /\ \A j, k \in 1..Len(ovs) :
          j # k => Elements(ovs[j].insert) \cap Elements(ovs[k].insert) = {}

\* What is on the route after the first k overrides, and what may be left out.
InsertedBy(ovs, k) == UNION {Elements(ovs[j].insert) : j \in 1..k}
SkippedBy(ovs, k) == UNION {ovs[j].skip : j \in 1..k}

WithOverride(x, ov, route) ==
    [order |-> InsertBefore(x.order, ov),
     skip  |-> x.skip \cup ov.skip
                   \cup DroppedByRejoin(InsertBefore(x.order, ov), ov,
                                        {route[k] : k \in 1..Len(route)})]

\* The steps of ApplyOverrides.
OverriddenUpTo(f, route, ovs) ==
    f = [k \in 0..Len(ovs) |->
            IF k = 0 THEN [order |-> route, skip |-> {}]
            ELSE WithOverride(f[k - 1], ovs[k], route)]

LEMMA OverridesApplied ==
  ASSUME NEW route \in Seq(Nat), NEW ovs \in Seq(Override)
  PROVE  \E after :
            /\ after[0] = [order |-> route, skip |-> {}]
            /\ \A k \in 1..Len(ovs) : after[k] = WithOverride(after[k - 1], ovs[k], route)
            /\ ApplyOverrides(route, ovs)
                  = Without(after[Len(ovs)].order, after[Len(ovs)].skip)
<1> DEFINE N == Len(ovs)
           X == [order : Seq(Nat), skip : SUBSET Nat]
           none == [order |-> route, skip |-> {}]
           step == [k \in 1..N |-> [x \in X |-> WithOverride(x, ovs[k], route)]]
           after == CHOOSE f : OverriddenUpTo(f, route, ovs)
<1>1. N \in Nat /\ \A k \in 1..N : ovs[k] \in Override
  OBVIOUS
<1>2. \E f : OverriddenUpTo(f, route, ovs)
  <2>1. ASSUME NEW k \in 1..N, NEW x \in X
        PROVE  WithOverride(x, ovs[k], route) \in X
    <3>1. ovs[k].insert \in Seq(Nat) /\ ovs[k].skip \in SUBSET Nat
      BY <1>1 DEF Override
    <3>2. InsertBefore(x.order, ovs[k]) \in Seq(Nat)
      BY <3>1, InsertProperties
    <3>3. {route[j] : j \in 1..Len(route)} \subseteq Nat
      OBVIOUS
    <3>4. DroppedByRejoin(InsertBefore(x.order, ovs[k]), ovs[k], {route[j] : j \in 1..Len(route)})
             \subseteq Nat
      BY <3>3 DEF DroppedByRejoin
    <3> QED BY <3>1, <3>2, <3>4 DEF WithOverride
  <2>2. step \in [1..N -> [X -> X]]
    BY <2>1
  <2>3. none \in X
    OBVIOUS
  <2> HIDE DEF step, N, X, none
  <2>4. PICK f \in [0..N -> X] : AreSteps(f, N, none, step)
    BY <1>1, <2>2, <2>3, StepsExist
  <2>5. ASSUME NEW k \in 0..N, k # 0
        PROVE  f[k] = WithOverride(f[k - 1], ovs[k], route)
    <3>1. k \in 1..N /\ f[k - 1] \in X
      BY <1>1, <2>5
    <3> QED BY <2>4, <3>1 DEF step, AreSteps
  <2>6. f = [k \in 0..N |-> IF k = 0 THEN none ELSE WithOverride(f[k - 1], ovs[k], route)]
    <3>1. f = [k \in 0..N |-> f[k]]
      OBVIOUS
    <3>2. \A k \in 0..N : f[k] = IF k = 0 THEN none ELSE WithOverride(f[k - 1], ovs[k], route)
      BY <2>4, <2>5 DEF AreSteps
    <3> QED BY <3>1, <3>2
  <2>7. OverriddenUpTo(f, route, ovs)
    BY <2>6 DEF OverriddenUpTo, N, none
  <2> QED BY <2>7
<1>3. OverriddenUpTo(after, route, ovs)
  BY <1>2
<1>4. ApplyOverrides(route, ovs) = Without(after[N].order, after[N].skip)
  BY DEF ApplyOverrides, OverriddenUpTo, WithOverride
<1> HIDE DEF after
<1>5. \A k \in 0..N : after[k] = IF k = 0 THEN none ELSE WithOverride(after[k - 1], ovs[k], route)
  BY <1>3 DEF OverriddenUpTo
<1>6. after[0] = none /\ \A k \in 1..N : after[k] = WithOverride(after[k - 1], ovs[k], route)
  <2>1. 0 \in 0..N /\ \A k \in 1..N : k \in 0..N /\ k # 0
    BY <1>1
  <2> HIDE DEF none
  <2> QED BY <1>5, <2>1
<1> QED BY <1>4, <1>6

\* Extra work comes onto the route once, and stays there unless an override
\* names it as skipped: rejoining drops only what was on the common route.
THEOREM OverridesKeepExtraWork ==
  ASSUME NEW route \in Seq(Nat), Distinct(route), NEW ovs, AreOverrides(ovs, route)
  PROVE  /\ ApplyOverrides(route, ovs) \in Seq(Nat)
         /\ Distinct(ApplyOverrides(route, ovs))
         /\ InsertedBy(ovs, Len(ovs)) \ SkippedBy(ovs, Len(ovs))
               \subseteq Elements(ApplyOverrides(route, ovs))
<1> DEFINE N == Len(ovs)
<1>1. ovs \in Seq(Override) /\ N \in Nat /\ \A k \in 1..N : ovs[k] \in Override
  BY DEF AreOverrides
<1>2. PICK after :
          /\ after[0] = [order |-> route, skip |-> {}]
          /\ \A k \in 1..N : after[k] = WithOverride(after[k - 1], ovs[k], route)
          /\ ApplyOverrides(route, ovs) = Without(after[N].order, after[N].skip)
  BY <1>1, OverridesApplied
<1> DEFINE Good == {k \in 0..N :
                       /\ after[k].order \in Seq(Nat)
                       /\ Distinct(after[k].order)
                       /\ Elements(after[k].order) = Elements(route) \cup InsertedBy(ovs, k)
                       /\ after[k].skip \subseteq Elements(route) \cup SkippedBy(ovs, k)}
<1>3. 0 \in Good
  <2>1. InsertedBy(ovs, 0) = {}
    BY DEF InsertedBy
  <2> QED BY <1>1, <1>2, <2>1
<1>4. ASSUME NEW k \in 1..N, k - 1 \in Good
      PROVE  k \in Good
  <2> DEFINE x == after[k - 1]
             order == InsertBefore(x.order, ovs[k])
  <2>1. /\ x.order \in Seq(Nat) /\ Distinct(x.order)
        /\ Elements(x.order) = Elements(route) \cup InsertedBy(ovs, k - 1)
        /\ x.skip \subseteq Elements(route) \cup SkippedBy(ovs, k - 1)
    BY <1>4
  <2>2. /\ after[k].order = order
        /\ after[k].skip = x.skip \cup ovs[k].skip \cup DroppedByRejoin(order, ovs[k], Elements(route))
    <3>1. after[k] = WithOverride(x, ovs[k], route)
      BY <1>2
    <3> HIDE DEF x
    <3>2. WithOverride(x, ovs[k], route)
             = [order |-> order,
                skip  |-> x.skip \cup ovs[k].skip \cup DroppedByRejoin(order, ovs[k], Elements(route))]
      BY DEF WithOverride, Elements
    <3> QED BY <3>1, <3>2
  <2> HIDE DEF x
  <2>3. ovs[k].insert \in Seq(Nat)
    BY <1>1 DEF Override
  <2>4. Elements(x.order) \cap Elements(ovs[k].insert) = {} /\ Distinct(ovs[k].insert)
    <3>1. \A j \in 1..(k - 1) : Elements(ovs[j].insert) \cap Elements(ovs[k].insert) = {}
      <4>1. \A j \in 1..(k - 1) : j \in 1..N /\ j # k
        BY <1>1
      <4> QED BY <4>1 DEF AreOverrides
    <3>2. InsertedBy(ovs, k - 1) \cap Elements(ovs[k].insert) = {}
      BY <3>1 DEF InsertedBy
    <3> QED BY <2>1, <3>2 DEF AreOverrides
  <2>5. /\ order \in Seq(Nat) /\ Distinct(order)
        /\ Elements(order) = Elements(x.order) \cup Elements(ovs[k].insert)
    BY <2>1, <2>3, <2>4, InsertProperties
  <2>6. 1..k = (1..(k - 1)) \cup {k}
    BY <1>1
  <2>7. InsertedBy(ovs, k) = InsertedBy(ovs, k - 1) \cup Elements(ovs[k].insert)
    BY <2>6 DEF InsertedBy
  <2>8. SkippedBy(ovs, k) = SkippedBy(ovs, k - 1) \cup ovs[k].skip
    BY <2>6 DEF SkippedBy
  <2>9. DroppedByRejoin(order, ovs[k], Elements(route)) \subseteq Elements(route)
    BY DEF DroppedByRejoin
  <2> HIDE DEF order
  <2>10. k \in 0..N
    BY <1>1
  <2> QED BY <2>1, <2>2, <2>5, <2>7, <2>8, <2>9, <2>10
<1>5. N \in Good
  <2> HIDE DEF Good, N
  <2>1. \A k \in 0..N : k \in Good
    BY <1>1, <1>3, <1>4, UpTo
  <2> QED BY <1>1, <2>1
<1>6. ASSUME NEW n \in InsertedBy(ovs, N), n \notin SkippedBy(ovs, N)
      PROVE  n \in Elements(after[N].order) \ after[N].skip
  <2>1. n \notin Elements(route)
    BY <1>6 DEF InsertedBy, AreOverrides
  <2> QED BY <1>5, <1>6, <2>1
<1>7. /\ Without(after[N].order, after[N].skip) \in Seq(Nat)
      /\ Distinct(Without(after[N].order, after[N].skip))
      /\ Elements(Without(after[N].order, after[N].skip)) = Elements(after[N].order) \ after[N].skip
  BY <1>5, WithoutProperties
<1> QED BY <1>2, <1>6, <1>7

\* The overrides in force, in the order of their ids.
OverridesInForce == [k \in DOMAIN ActiveOverrides |-> Overrides[ActiveOverrides[k]]]

LEMMA RouteShape ==
  /\ Route \in Seq(Nat) /\ Distinct(Route)
  /\ Len(Route) = RouteLength /\ Elements(Route) = Nodes
<1>1. Route \in [1..RouteLength -> Nat] /\ RouteLength \in Nat
  BY GroupAssumption DEF Route
<1>2. Route \in Seq(Nat)
  BY <1>1, SeqDef
<1>3. DOMAIN Route = 1..RouteLength /\ DOMAIN Route = 1..Len(Route) /\ Len(Route) \in Nat
  BY <1>1, <1>2, LenProperties
<1>4. Len(Route) = RouteLength
  BY <1>1, <1>3
<1>5. \A k \in 1..Len(Route) : Route[k] = k
  BY <1>4 DEF Route
<1> QED BY <1>2, <1>4, <1>5 DEF Distinct, Elements, Nodes

LEMMA InForce ==
  /\ AreOverrides(OverridesInForce, Route)
  /\ \A o \in DOMAIN Overrides :
        override[o] = "active"
           => \E k \in 1..Len(OverridesInForce) : OverridesInForce[k] = Overrides[o]
  /\ \A k \in 1..Len(OverridesInForce) :
        \E o \in DOMAIN Overrides : override[o] = "active" /\ OverridesInForce[k] = Overrides[o]
<1> DEFINE D == DOMAIN Overrides
           ids == [o \in D |-> o]
           act == ActiveOverrides
           ovs == OverridesInForce
<1>1. /\ D = 1..Len(Overrides) /\ Len(Overrides) \in Nat
      /\ \A o \in D : /\ Overrides[o].skip \in SUBSET Nat
                      /\ Overrides[o].insert \in Seq(Nat)
                      /\ Overrides[o].insert \in Seq(Nat \ ({NoNode} \cup Nodes))
                      /\ Overrides[o] \in Override
  <2>1. Overrides \in Seq([skip : SUBSET Nat, insert : Seq(Nat \ ({NoNode} \cup Nodes)),
                           anchor : Nat, rejoin : Nat])
    BY LearnerAssumption
  <2>2. D = 1..Len(Overrides) /\ Len(Overrides) \in Nat
    BY <2>1, LenProperties
  <2>3. ASSUME NEW o \in D
        PROVE  Overrides[o] \in [skip : SUBSET Nat, insert : Seq(Nat \ ({NoNode} \cup Nodes)),
                                 anchor : Nat, rejoin : Nat]
    BY <2>1, <2>2, ElementOfSeq
  <2>4. ASSUME NEW o \in D PROVE Overrides[o].insert \in Seq(Nat)
    <3>1. Overrides[o].insert \in Seq(Nat \ ({NoNode} \cup Nodes))
      BY <2>3
    <3> QED BY <3>1, SeqMonotonic
  <2> QED BY <2>2, <2>3, <2>4 DEF Override
<1>2. ids \in Seq(D) /\ Distinct(ids) /\ Elements(ids) = D
  <2>1. ids \in [1..Len(Overrides) -> D]
    BY <1>1
  <2>2. ids \in Seq(D)
    BY <1>1, <2>1, SeqDef
  <2>3. 1..Len(ids) = D
    BY <2>2, LenProperties
  <2> HIDE DEF D
  <2> QED BY <2>2, <2>3 DEF Distinct, Elements
<1>3. /\ act \in Seq(D) /\ Distinct(act)
      /\ Elements(act) = D \ {o \in D : override[o] # "active"}
  <2>1. act = Without(ids, {o \in D : override[o] # "active"})
    BY DEF ActiveOverrides
  <2> HIDE DEF act, ids, D
  <2> QED BY <1>2, <2>1, WithoutProperties
<1>4. /\ DOMAIN act = 1..Len(act) /\ Len(act) \in Nat
      /\ \A k \in 1..Len(act) : act[k] \in D /\ override[act[k]] = "active"
  <2>1. DOMAIN act = 1..Len(act) /\ Len(act) \in Nat /\ \A k \in 1..Len(act) : act[k] \in D
    BY <1>3, LenProperties, ElementOfSeq
  <2>2. \A k \in 1..Len(act) : act[k] \in Elements(act)
    BY DEF Elements
  <2> QED BY <1>3, <2>1, <2>2
<1>5. ovs \in Seq(Override) /\ Len(ovs) = Len(act) /\ \A k \in 1..Len(ovs) : ovs[k] = Overrides[act[k]]
  <2>1. ovs = [k \in 1..Len(act) |-> Overrides[act[k]]]
    BY <1>4 DEF OverridesInForce
  <2>2. ovs \in [1..Len(act) -> Override]
    BY <1>1, <1>4, <2>1
  <2>3. ovs \in Seq(Override)
    BY <1>4, <2>2, SeqDef
  <2>4. DOMAIN ovs = 1..Len(act) /\ DOMAIN ovs = 1..Len(ovs) /\ Len(ovs) \in Nat
    BY <2>2, <2>3, LenProperties
  <2>5. Len(ovs) = Len(act)
    BY <1>4, <2>4
  <2> QED BY <2>1, <2>3, <2>5
<1> HIDE DEF ovs, act
<1>6. ASSUME NEW o \in D, NEW p \in D,
             NEW i \in 1..Len(Overrides[o].insert), NEW j \in 1..Len(Overrides[p].insert),
             Overrides[o].insert[i] = Overrides[p].insert[j]
      PROVE  o = p /\ i = j
  <2>1. i \in DOMAIN Overrides[o].insert /\ j \in DOMAIN Overrides[p].insert
    BY <1>1, LenProperties
  <2>2. \A x, y \in D : \A k \in DOMAIN Overrides[x].insert, l \in DOMAIN Overrides[y].insert :
           Overrides[x].insert[k] = Overrides[y].insert[l] => x = y /\ k = l
    BY LearnerAssumption
  <2> QED BY <1>6, <2>1, <2>2
<1>7. ASSUME NEW k \in 1..Len(ovs)
      PROVE  Distinct(ovs[k].insert) /\ Elements(Route) \cap Elements(ovs[k].insert) = {}
  <2>1. ovs[k] = Overrides[act[k]] /\ act[k] \in D
    BY <1>4, <1>5
  <2>2. Distinct(ovs[k].insert)
    BY <1>6, <2>1 DEF Distinct
  <2>3. \A i \in 1..Len(ovs[k].insert) : ovs[k].insert[i] \notin Nodes
    <3>1. ovs[k].insert \in Seq(Nat \ ({NoNode} \cup Nodes))
      BY <1>1, <2>1
    <3> QED BY <3>1, ElementOfSeq
  <2>4. Nodes \cap Elements(ovs[k].insert) = {}
    BY <2>3 DEF Elements
  <2> QED BY <2>2, <2>4, RouteShape
<1>8. ASSUME NEW j \in 1..Len(ovs), NEW k \in 1..Len(ovs), j # k
      PROVE  Elements(ovs[j].insert) \cap Elements(ovs[k].insert) = {}
  <2>1. /\ ovs[j] = Overrides[act[j]] /\ act[j] \in D
        /\ ovs[k] = Overrides[act[k]] /\ act[k] \in D
        /\ act[j] # act[k]
    BY <1>3, <1>4, <1>5, <1>8 DEF Distinct
  <2> QED BY <1>6, <2>1 DEF Elements
<1>9. AreOverrides(ovs, Route)
  BY <1>5, <1>7, <1>8 DEF AreOverrides
<1>10. ASSUME NEW o \in D, override[o] = "active"
       PROVE  \E k \in 1..Len(ovs) : ovs[k] = Overrides[o]
  <2>1. o \in Elements(act)
    BY <1>3, <1>10
  <2> QED BY <1>5, <2>1 DEF Elements
<1>11. \A k \in 1..Len(ovs) : \E o \in D : override[o] = "active" /\ ovs[k] = Overrides[o]
  BY <1>4, <1>5
<1> QED BY <1>9, <1>10, <1>11 DEF ovs

LEMMA LearnerOrderShape == LearnerOrder \in Seq(Nat) /\ Distinct(LearnerOrder)
<1>1. LearnerOrder = ApplyOverrides(Route, OverridesInForce)
  BY DEF LearnerOrder, OverridesInForce
<1> QED BY <1>1, RouteShape, InForce, OverridesKeepExtraWork

\* In every state, whatever the overrides in force.
LEMMA ExtraWorkOnOrder == ExtraWorkIsKept
<1> SUFFICES ASSUME NEW o \in DOMAIN Overrides, override[o] = "active",
                    NEW i \in DOMAIN Overrides[o].insert,
                    \A x \in DOMAIN Overrides :
                       override[x] = "active" => Overrides[o].insert[i] \notin Overrides[x].skip
             PROVE  Occurs(LearnerOrder, Overrides[o].insert[i])
  BY DEF ExtraWorkIsKept
<1> DEFINE n == Overrides[o].insert[i]
           ovs == OverridesInForce
<1>1. LearnerOrder = ApplyOverrides(Route, ovs)
  BY DEF LearnerOrder, OverridesInForce
<1>2. PICK k \in 1..Len(ovs) : ovs[k] = Overrides[o]
  BY InForce
<1>3. ovs \in Seq(Override) /\ Len(ovs) \in Nat
  BY InForce, LenProperties DEF AreOverrides
<1>4. i \in 1..Len(ovs[k].insert)
  <2>1. ovs[k] \in Override
    BY <1>3, ElementOfSeq
  <2>2. ovs[k].insert \in Seq(Nat)
    BY <2>1 DEF Override
  <2> QED BY <1>2, <2>2, LenProperties
<1>5. n \in InsertedBy(ovs, Len(ovs))
  BY <1>2, <1>4 DEF InsertedBy, Elements
<1>6. n \notin SkippedBy(ovs, Len(ovs))
  <2> SUFFICES ASSUME NEW j \in 1..Len(ovs), n \in ovs[j].skip PROVE FALSE
    BY DEF SkippedBy
  <2>1. PICK x \in DOMAIN Overrides : override[x] = "active" /\ ovs[j] = Overrides[x]
    BY InForce
  <2> QED BY <2>1
<1>7. InsertedBy(ovs, Len(ovs)) \ SkippedBy(ovs, Len(ovs)) \subseteq Elements(LearnerOrder)
  BY <1>1, RouteShape, InForce, OverridesKeepExtraWork
<1>8. n \in Elements(LearnerOrder)
  BY <1>5, <1>6, <1>7
<1> QED BY <1>8 DEF Elements, Occurs

-----------------------------------------------------------------------------
(* The shape of the state, and the dates of runs, which never lie ahead.   *)

IsLesson(s) ==
    /\ s = [day |-> s.day, rev |-> s.rev, nodes |-> s.nodes, status |-> s.status]
    /\ s.day \in Nat

Lessons == today \in Nat /\ \A s \in sessions : IsLesson(s)

\* What a run holds is dated no later than today, and so are its rows.
IsRun(v, date) ==
    v = Idle \/ /\ v.today \in Nat
                /\ v.today =< date
                /\ v.phase = "linked" => \A w \in v.rows : w.day \in Nat

RunsAreDated ==
    /\ run = [r \in Runs |-> run[r]]
    /\ \A r \in Runs : IsRun(run[r], today)

\* Whatever run r holds next, the others stay.
LEMMA RunUpdate ==
  ASSUME RunsAreDated, NEW r \in Runs, IsRun(run'[r], today),
         run' = [run EXCEPT ![r] = run'[r]], today' = today
  PROVE  RunsAreDated'
<1>1. run' = [q \in Runs |-> run'[q]]
  BY DEF RunsAreDated
<1>2. ASSUME NEW q \in Runs
      PROVE  IsRun(run'[q], today')
  <2>1. run'[q] = IF q = r THEN run'[r] ELSE run[q]
    BY DEF RunsAreDated
  <2>2. QED
    BY <2>1 DEF RunsAreDated
<1>3. QED
  BY <1>1, <1>2 DEF RunsAreDated

\* A lesson as it is made, and as it is closed.
LEMMA NewSessionsShape ==
  ASSUME NEW placed, NEW rev, NEW s \in NewSessions(placed, rev)
  PROVE  IsLesson(s) /\ s.rev = rev /\ s.status = "planned"
<1>1. PICK d \in LessonDays(placed) :
         s = [day |-> d, rev |-> rev, nodes |-> NodesOn(placed, d), status |-> "planned"]
  BY DEF NewSessions
<1>2. d \in Nat
  BY DEF LessonDays, Days
<1>3. QED
  BY <1>1, <1>2 DEF IsLesson

LEMMA ClosedShape ==
  ASSUME NEW s, IsLesson(s)
  PROVE  LET c == [s EXCEPT !.status = "completed"]
         IN  /\ IsLesson(c)
             /\ c.status = "completed"
             /\ LessonId(c) = LessonId(s)
<1> DEFINE c == [s EXCEPT !.status = "completed"]
<1>1. c = [day |-> s.day, rev |-> s.rev, nodes |-> s.nodes, status |-> "completed"]
  BY DEF IsLesson
<1>2. QED
  BY <1>1 DEF IsLesson, LessonId

-----------------------------------------------------------------------------
(* The schedule of the class.                                              *)

\* The last revision, and no other, is active.
LastIsActive(revs) ==
    /\ revs \in Seq(BOOLEAN)
    /\ \A i \in 1..Len(revs) : revs[i] <=> i = Len(revs)

ClassRevisions ==
    /\ LastIsActive(revisions)
    /\ Len(revisions) >= 1
    /\ \A s \in sessions :
          s.status = "planned" /\ s.day >= today => s.rev = Len(revisions)

ClassInv == Lessons /\ RunsAreDated /\ ClassRevisions

\* Switching to a new revision.
LEMMA NewRevision ==
  ASSUME NEW n \in Nat
  PROVE  LET revs == [i \in 1..n |-> i = n]
         IN  LastIsActive(revs) /\ Len(revs) = n
<1> DEFINE revs == [i \in 1..n |-> i = n]
<1>1. revs \in [1..n -> BOOLEAN]
  OBVIOUS
<1>2. revs \in Seq(BOOLEAN)
  BY <1>1, SeqDef
<1>3. DOMAIN revs = 1..n
  OBVIOUS
<1>4. Len(revs) \in Nat /\ 1..n = 1..Len(revs)
  BY <1>2, <1>3, LenProperties
<1>5. Len(revs) = n
  BY <1>4
<1>6. QED
  BY <1>2, <1>5 DEF LastIsActive

LEMMA ClassInit == GroupInit => ClassInv
<1> SUFFICES ASSUME GroupInit PROVE ClassInv
  OBVIOUS
<1>1. \A s \in sessions : IsLesson(s) /\ s.rev = 1
  BY NewSessionsShape DEF GroupInit
<1>2. Lessons
  BY <1>1 DEF Lessons, GroupInit
<1>3. RunsAreDated
  BY DEF RunsAreDated, IsRun, GroupInit
<1>4. revisions = <<TRUE>> /\ Len(revisions) = 1
  BY DEF GroupInit
<1>5. LastIsActive(revisions)
  <2>1. revisions \in Seq(BOOLEAN)
    BY <1>4
  <2>2. revisions[1] = TRUE /\ \A i \in 1..1 : i = 1
    BY <1>4
  <2>3. QED
    BY <1>4, <2>1, <2>2 DEF LastIsActive
<1>6. ClassRevisions
  BY <1>1, <1>4, <1>5 DEF ClassRevisions
<1>7. QED
  BY <1>2, <1>3, <1>6 DEF ClassInv

\* The frames of a step.
LEMMA FrameLessons ==
  ASSUME ClassInv, UNCHANGED <<today, sessions, revisions>>
  PROVE  Lessons' /\ ClassRevisions'
<1>1. Lessons'
  BY DEF ClassInv, Lessons, IsLesson
<1>2. ClassRevisions'
  BY DEF ClassInv, ClassRevisions, LastIsActive
<1>3. QED
  BY <1>1, <1>2

LEMMA FrameRuns ==
  ASSUME ClassInv, UNCHANGED <<today, run>>
  PROVE  RunsAreDated'
  BY DEF ClassInv, RunsAreDated, IsRun

\* A run that has a phase of its own is dated.
LEMMA BusyRun ==
  ASSUME RunsAreDated, NEW r \in Runs, run[r].phase # "idle"
  PROVE  run[r].today \in Nat /\ run[r].today =< today
<1>1. run[r] # Idle
  BY DEF Idle
<1>2. QED
  BY <1>1 DEF RunsAreDated, IsRun

LEMMA CloseStep ==
  ASSUME ClassInv, NEW s \in sessions, NEW outcome, CloseSession(s, outcome)
  PROVE  ClassInv'
<1> DEFINE c == [s EXCEPT !.status = "completed"]
<1>1. /\ sessions' = (sessions \ {s}) \cup {c}
      /\ UNCHANGED <<today, revisions, run>>
  BY DEF CloseSession
<1>2. IsLesson(s)
  BY DEF ClassInv, Lessons
<1>3. IsLesson(c) /\ c.status = "completed"
  BY <1>2, ClosedShape
<1>4. \A x \in sessions' : x \in sessions \/ x = c
  BY <1>1
<1>5. Lessons'
  BY <1>1, <1>3, <1>4 DEF ClassInv, Lessons, IsLesson
<1>6. RunsAreDated'
  BY <1>1, FrameRuns
<1>7. ClassRevisions'
  BY <1>1, <1>3, <1>4 DEF ClassInv, ClassRevisions, LastIsActive
<1>8. QED
  BY <1>5, <1>6, <1>7 DEF ClassInv

LEMMA NextDayStep ==
  ASSUME ClassInv, NextDay
  PROVE  ClassInv'
<1>1. today \in Nat /\ today' = today + 1 /\ UNCHANGED <<sessions, revisions, run>>
  BY DEF ClassInv, Lessons, NextDay
<1>2. Lessons'
  BY <1>1 DEF ClassInv, Lessons, IsLesson
<1>3. ASSUME NEW r \in Runs
      PROVE  IsRun(run'[r], today')
  <2>1. IsRun(run[r], today) /\ run'[r] = run[r]
    BY <1>1 DEF ClassInv, RunsAreDated
  <2>2. QED
    BY <1>1, <2>1 DEF IsRun
<1>4. RunsAreDated'
  BY <1>1, <1>3 DEF ClassInv, RunsAreDated
<1>5. \A s \in sessions : s.day >= today' => s.day >= today
  BY <1>1 DEF ClassInv, Lessons, IsLesson
<1>6. ClassRevisions'
  BY <1>1, <1>5 DEF ClassInv, ClassRevisions, LastIsActive
<1>7. QED
  BY <1>2, <1>4, <1>6 DEF ClassInv

LEMMA ApplyStep ==
  ASSUME ClassInv, NEW r \in Runs, Apply(r)
  PROVE  ClassInv'
<1>1. /\ sessions' = (sessions \ Replaced(r)) \cup NewSessions(run[r].placed, NextRevision)
      /\ revisions' = [i \in 1..NextRevision |-> i = NextRevision]
      /\ run' = [run EXCEPT ![r] = Idle]
      /\ run[r].phase = "computed"
      /\ today' = today
  BY DEF Apply
<1>2. NextRevision \in Nat /\ NextRevision >= 1
  BY DEF ClassInv, ClassRevisions, LastIsActive, NextRevision
<1>3. LastIsActive(revisions') /\ Len(revisions') = NextRevision
  BY <1>1, <1>2, NewRevision
<1>4. run[r].today \in Nat /\ run[r].today =< today
  BY <1>1, BusyRun DEF ClassInv
<1>5. ASSUME NEW s \in sessions'
      PROVE  IsLesson(s) /\ (s.status = "planned" /\ s.day >= today => s.rev = NextRevision)
  <2>1. CASE s \in NewSessions(run[r].placed, NextRevision)
    BY <2>1, NewSessionsShape
  <2>2. CASE s \in sessions /\ s \notin Replaced(r)
    <3>1. IsLesson(s) /\ today \in Nat
      BY <2>2 DEF ClassInv, Lessons
    <3>2. s.status = "planned" => ~(s.day >= run[r].today)
      BY <2>2 DEF Replaced
    <3>3. QED
      BY <1>4, <3>1, <3>2 DEF IsLesson
  <2>3. QED
    BY <1>1, <2>1, <2>2
<1>6. Lessons'
  BY <1>1, <1>5 DEF ClassInv, Lessons, IsLesson
<1>7. run'[r] = Idle
  BY <1>1 DEF ClassInv, RunsAreDated
<1>8. RunsAreDated'
  BY <1>1, <1>7, RunUpdate DEF ClassInv, IsRun
<1>9. ClassRevisions'
  BY <1>1, <1>2, <1>3, <1>5 DEF ClassRevisions, LastIsActive
<1>10. QED
  BY <1>6, <1>8, <1>9 DEF ClassInv

\* Reading changes only what the run holds.
LEMMA ReadStep ==
  ASSUME ClassInv, NEW r \in Runs,
         StartAutomatic(r) \/ StartManual(r) \/ ReadSessions(r) \/ ReadProgress(r)
  PROVE  ClassInv'
<1>1. UNCHANGED <<today, sessions, revisions>>
  BY DEF StartAutomatic, StartManual, ReadCancellations, ReadSessions, ReadProgress
<1>2. /\ run' = [run EXCEPT ![r] = run'[r]]
      /\ run'[r].phase # "linked"
      /\ \/ run'[r].today = today
         \/ run'[r].today = run[r].today /\ run[r].phase # "idle"
  <2>1. CASE StartAutomatic(r)
    BY <2>1 DEF StartAutomatic, ReadCancellations, ClassInv, RunsAreDated
  <2>2. CASE StartManual(r)
    BY <2>2 DEF StartManual, ReadCancellations, ClassInv, RunsAreDated
  <2>3. CASE ReadSessions(r)
    BY <2>3 DEF ReadSessions, ClassInv, RunsAreDated
  <2>4. CASE ReadProgress(r)
    BY <2>4 DEF ReadProgress, ClassInv, RunsAreDated
  <2>5. QED
    BY <2>1, <2>2, <2>3, <2>4
<1>3. run'[r].today \in Nat /\ run'[r].today =< today
  BY <1>2, BusyRun DEF ClassInv, Lessons
<1>4. IsRun(run'[r], today)
  BY <1>2, <1>3 DEF IsRun
<1>5. RunsAreDated'
  BY <1>1, <1>2, <1>4, RunUpdate DEF ClassInv
<1>6. QED
  BY <1>1, <1>5, FrameLessons DEF ClassInv

\* A refused run changes no lesson.
LEMMA RefusedStep ==
  ASSUME ClassInv, NEW r \in Runs, Reject(r) \/ Propose(r)
  PROVE  ClassInv'
<1>1. UNCHANGED <<today, sessions, revisions>> /\ run' = [run EXCEPT ![r] = Idle]
  BY DEF Reject, Propose
<1>2. run'[r] = Idle
  BY <1>1 DEF ClassInv, RunsAreDated
<1>3. RunsAreDated'
  BY <1>1, <1>2, RunUpdate DEF ClassInv, IsRun
<1>4. QED
  BY <1>1, <1>3, FrameLessons DEF ClassInv

LEMMA CancellationStep ==
  ASSUME ClassInv, NEW e, ReportCancellation(e) \/ DismissCancellation(e)
  PROVE  ClassInv'
<1>1. UNCHANGED <<today, sessions, revisions, run>>
  BY DEF ReportCancellation, DismissCancellation
<1>2. QED
  BY <1>1, FrameLessons, FrameRuns DEF ClassInv

LEMMA ClassNext == ClassInv /\ GroupNext => ClassInv'
<1> SUFFICES ASSUME ClassInv, GroupNext PROVE ClassInv'
  OBVIOUS
<1>1. CASE \E s \in sessions : \E outcome \in [s.nodes -> Outcomes] : CloseSession(s, outcome)
  BY <1>1, CloseStep
<1>2. CASE \E e \in Cancellations : ReportCancellation(e) \/ DismissCancellation(e)
  BY <1>2, CancellationStep
<1>3. CASE \E r \in Runs : StartAutomatic(r) \/ StartManual(r) \/ RunStep(r)
  BY <1>3, ReadStep, RefusedStep, ApplyStep DEF RunStep
<1>4. CASE NextDay
  BY <1>4, NextDayStep
<1>5. QED
  BY <1>1, <1>2, <1>3, <1>4 DEF GroupNext

\* No step of a learner touches the class.
LEMMA LearnerFrame ==
  ASSUME LearnerStep
  PROVE  UNCHANGED classVars
  BY DEF LearnerStep, ChangeOverride, ChangeAbsence, StartLearnerAutomatic,
         StartLearnerManual, StartLearnerRun, ReadItems, RejectLearner,
         LinkLessons, ApplyLearner, AbortLearner

\* Closed lessons stay, and days do not go back.
LEMMA ClassHistory ==
  ASSUME ClassInv, GroupNext
  PROVE  /\ \A s \in sessions : s.status = "completed" => s \in sessions'
         /\ \A n \in Nodes : reported[n] \subseteq reported'[n]
         /\ today' \in Nat /\ today' >= today
<1>1. today \in Nat
  BY DEF ClassInv, Lessons
<1>2. CASE \E s \in sessions : \E outcome \in [s.nodes -> Outcomes] : CloseSession(s, outcome)
  BY <1>1, <1>2 DEF CloseSession
<1>3. CASE \E e \in Cancellations : ReportCancellation(e) \/ DismissCancellation(e)
  BY <1>1, <1>3 DEF ReportCancellation, DismissCancellation
<1>4. CASE \E r \in Runs : StartAutomatic(r) \/ StartManual(r) \/ RunStep(r)
  <2>1. PICK r \in Runs : StartAutomatic(r) \/ StartManual(r) \/ RunStep(r)
    BY <1>4
  <2>2. CASE Apply(r)
    BY <1>1, <2>2 DEF Apply, Replaced
  <2>3. CASE ~Apply(r)
    BY <1>1, <2>1, <2>3 DEF StartAutomatic, StartManual, ReadCancellations, RunStep,
                            ReadSessions, ReadProgress, Reject, Propose
  <2>4. QED
    BY <2>2, <2>3
<1>5. CASE NextDay
  BY <1>1, <1>5 DEF NextDay
<1>6. QED
  BY <1>2, <1>3, <1>4, <1>5 DEF GroupNext

-----------------------------------------------------------------------------
(* The schedule of the learner.                                            *)

IsItem(i) ==
    /\ i = [day |-> i.day, rev |-> i.rev, nodes |-> i.nodes, link |-> i.link]
    /\ i.day \in Nat
    /\ i.rev \in Nat \ {0}

ItemsTyped == \A i \in items : IsItem(i)

LearnerRevisionsInv ==
    /\ LastIsActive(learnerRevisions)
    /\ \A i \in items : i.day >= today /\ ~Closed(i) => i.rev = Len(learnerRevisions)

ScheduleInv == ClassInv /\ ItemsTyped /\ LearnerRevisionsInv

LEMMA ScheduleInit == Init => ScheduleInv
<1> SUFFICES ASSUME Init PROVE ScheduleInv
  OBVIOUS
<1>1. ClassInv
  BY ClassInit DEF Init
<1>2. items = {} /\ learnerRevisions = << >>
  BY DEF Init, LearnerInit
<1>3. Len(learnerRevisions) = 0 /\ learnerRevisions \in Seq(BOOLEAN)
  BY <1>2
<1>4. LastIsActive(learnerRevisions)
  BY <1>3 DEF LastIsActive
<1>5. QED
  BY <1>1, <1>2, <1>4 DEF ScheduleInv, ItemsTyped, LearnerRevisionsInv

\* A step of the class: what is linked to a closed lesson is left as it is.
LEMMA ClosedItemsStay ==
  ASSUME ScheduleInv, ClassStep, NEW i \in items, Closed(i)
  PROVE  /\ i \in items'
         /\ \E s \in sessions' : s.status = "completed" /\ LessonId(s) = i.link
<1>1. PICK s \in sessions : s.status = "completed" /\ LessonId(s) = i.link
  BY DEF Closed
<1>2. s \in sessions'
  BY <1>1, ClassHistory DEF ClassStep, ScheduleInv
<1>3. IsItem(i)
  BY DEF ScheduleInv, ItemsTyped
<1>4. i = [i EXCEPT !.link = i.link]
  BY <1>3 DEF IsItem
<1>5. i \in Relinked
  BY <1>1, <1>2, <1>4 DEF Relinked
<1>6. QED
  BY <1>1, <1>2, <1>5 DEF ClassStep

LEMMA ScheduleClassStep ==
  ASSUME ScheduleInv, ClassStep
  PROVE  ScheduleInv'
<1>1. ClassInv'
  BY ClassNext DEF ClassStep, ScheduleInv
<1>2. today \in Nat /\ today' \in Nat /\ today' >= today
  BY ClassHistory DEF ClassStep, ScheduleInv, ClassInv, Lessons
<1>3. ASSUME NEW j \in items'
      PROVE  /\ IsItem(j)
             /\ (j.day >= today' /\ ~(Closed(j)')) => j.rev = Len(learnerRevisions)
  <2>1. PICK i \in items :
           j = [i EXCEPT !.link = IF \E s \in sessions' : LessonId(s) = i.link
                                  THEN i.link ELSE NoLink]
    BY DEF ClassStep, Relinked
  <2>2. IsItem(i)
    BY DEF ScheduleInv, ItemsTyped
  <2>3. j = [day |-> i.day, rev |-> i.rev, nodes |-> i.nodes, link |-> j.link]
    BY <2>1, <2>2 DEF IsItem
  <2>4. IsItem(j) /\ j.day = i.day /\ j.rev = i.rev
    BY <2>2, <2>3 DEF IsItem
  <2>5. CASE Closed(i)
    <3>1. PICK s \in sessions' : s.status = "completed" /\ LessonId(s) = i.link
      BY <2>5, ClosedItemsStay
    <3>2. j.link = i.link
      BY <2>1, <2>2, <3>1 DEF IsItem
    <3>3. Closed(j)'
      BY <3>1, <3>2 DEF Closed, LessonId
    <3>4. QED
      BY <2>4, <3>3
  <2>6. CASE ~Closed(i)
    <3>1. i.day >= today => i.rev = Len(learnerRevisions)
      BY <2>6 DEF ScheduleInv, LearnerRevisionsInv
    <3>2. i.day >= today' => i.day >= today
      BY <1>2, <2>2 DEF IsItem
    <3>3. QED
      BY <2>4, <3>1, <3>2
  <2>7. QED
    BY <2>5, <2>6
<1>4. learnerRevisions' = learnerRevisions
  BY DEF ClassStep
<1>5. ItemsTyped'
  BY <1>3 DEF ItemsTyped, IsItem
<1>6. LearnerRevisionsInv'
  <2>1. LastIsActive(learnerRevisions')
    BY <1>4 DEF ScheduleInv, LearnerRevisionsInv
  <2>2. ASSUME NEW j \in items', j.day >= today', ~(Closed(j)')
        PROVE  j.rev = Len(learnerRevisions')
    BY <1>3, <1>4, <2>2
  <2>3. QED
    BY <2>1, <2>2 DEF LearnerRevisionsInv, LastIsActive
<1>7. QED
  BY <1>1, <1>5, <1>6 DEF ScheduleInv

\* A step of the learner that leaves the items and the revisions.
LEMMA FrameItems ==
  ASSUME ScheduleInv, RunsAreDated', UNCHANGED classVars,
         UNCHANGED <<items, learnerRevisions>>
  PROVE  ScheduleInv'
<1>1. UNCHANGED <<today, sessions, revisions>>
  BY DEF classVars
<1>2. ClassInv'
  BY <1>1, FrameLessons DEF ScheduleInv, ClassInv
<1>3. ItemsTyped' /\ LearnerRevisionsInv'
  BY <1>1 DEF ScheduleInv, ItemsTyped, IsItem, LearnerRevisionsInv, LastIsActive, Closed
<1>4. QED
  BY <1>2, <1>3 DEF ScheduleInv

LEMMA LearnerTeacherStep ==
  ASSUME ScheduleInv,
         \/ \E o \in DOMAIN Overrides : \/ ChangeOverride(o, "none", "active")
                                       \/ ChangeOverride(o, "active", "cancelled")
         \/ \E a \in Absences : \/ ChangeAbsence(a, {"none"}, "received")
                               \/ ChangeAbsence(a, {"received", "applied"}, "dismissed")
  PROVE  ScheduleInv'
<1>1. UNCHANGED classVars /\ UNCHANGED <<items, learnerRevisions, run>>
  BY DEF ChangeOverride, ChangeAbsence
<1>2. RunsAreDated'
  BY <1>1, FrameRuns DEF ScheduleInv, classVars
<1>3. QED
  BY <1>1, <1>2, FrameItems

LEMMA LearnerReadStep ==
  ASSUME ScheduleInv, NEW r \in Runs,
         \/ StartLearnerAutomatic(r)
         \/ StartLearnerManual(r)
         \/ ReadItems(r)
         \/ RejectLearner(r)
         \/ LinkLessons(r)
         \/ AbortLearner(r)
  PROVE  ScheduleInv'
<1>1. UNCHANGED classVars /\ UNCHANGED <<items, learnerRevisions>>
  BY DEF StartLearnerAutomatic, StartLearnerManual, StartLearnerRun, ReadItems,
         RejectLearner, LinkLessons, AbortLearner
<1>2. RunsAreDated /\ run = [q \in Runs |-> run[q]]
  BY DEF ScheduleInv, ClassInv, RunsAreDated
<1>3. run' = [run EXCEPT ![r] = run'[r]] /\ IsRun(run'[r], today)
  <2>1. CASE StartLearnerAutomatic(r) \/ StartLearnerManual(r)
    BY <1>2, <2>1 DEF StartLearnerAutomatic, StartLearnerManual, StartLearnerRun,
                      IsRun, ScheduleInv, ClassInv, Lessons
  <2>2. CASE ReadItems(r)
    BY <1>2, <2>2, BusyRun DEF ReadItems, IsRun
  <2>3. CASE RejectLearner(r) \/ AbortLearner(r)
    BY <1>2, <2>3 DEF RejectLearner, AbortLearner, IsRun
  <2>4. CASE LinkLessons(r)
    <3> DEFINE placed == run[r].placed
               days   == LessonDays(placed)
    <3>1. PICK link : run' = [run EXCEPT ![r] =
                    [phase |-> "linked", today |-> run[r].today,
                     absences |-> run[r].absences,
                     rows |-> {[day |-> d, link |-> link[d],
                                nodes |-> NodesOn(placed, d)] : d \in days}]]
      BY <2>4 DEF LinkLessons
    <3>2. run'[r] = [phase |-> "linked", today |-> run[r].today,
                     absences |-> run[r].absences,
                     rows |-> {[day |-> d, link |-> link[d],
                                nodes |-> NodesOn(placed, d)] : d \in days}]
      BY <1>2, <3>1
    <3>3. \A d \in days : d \in Nat
      BY DEF LessonDays, Days
    <3>4. \A w \in run'[r].rows : w.day \in Nat
      BY <3>2, <3>3
    <3>5. run[r].today \in Nat /\ run[r].today =< today
      BY <1>2, <2>4, BusyRun DEF LinkLessons
    <3>6. QED
      BY <1>2, <3>1, <3>2, <3>4, <3>5 DEF IsRun
  <2>5. QED
    BY <2>1, <2>2, <2>3, <2>4
<1>4. RunsAreDated'
  BY <1>1, <1>2, <1>3, RunUpdate DEF classVars
<1>5. QED
  BY <1>1, <1>4, FrameItems

LEMMA ApplyLearnerStep ==
  ASSUME ScheduleInv, NEW r \in Runs, ApplyLearner(r)
  PROVE  ScheduleInv'
<1> DEFINE n == NextLearnerRevision
<1>1. /\ items' = Kept(r) \cup {[day |-> w.day, rev |-> n, nodes |-> w.nodes,
                                 link |-> w.link] : w \in run[r].rows}
      /\ learnerRevisions' = [i \in 1..n |-> i = n]
      /\ run' = [run EXCEPT ![r] = Idle]
      /\ run[r].phase = "linked"
      /\ UNCHANGED classVars
  BY DEF ApplyLearner
<1>2. UNCHANGED <<today, sessions, revisions>>
  BY <1>1 DEF classVars
<1>3. run'[r] = Idle
  BY <1>1 DEF ScheduleInv, ClassInv, RunsAreDated
<1>4. RunsAreDated'
  BY <1>1, <1>2, <1>3, RunUpdate DEF ScheduleInv, ClassInv, IsRun
<1>5. ClassInv'
  BY <1>2, <1>4, FrameLessons DEF ScheduleInv, ClassInv
<1>6. n \in Nat \ {0}
  BY DEF NextLearnerRevision, ScheduleInv, LearnerRevisionsInv, LastIsActive
<1>7. LastIsActive(learnerRevisions') /\ Len(learnerRevisions') = n
  BY <1>1, <1>6, NewRevision
<1>8. /\ run[r].today \in Nat /\ run[r].today =< today
      /\ \A w \in run[r].rows : w.day \in Nat
  <2>1. run[r] # Idle
    BY <1>1 DEF Idle
  <2>2. QED
    BY <1>1, <2>1 DEF ScheduleInv, ClassInv, RunsAreDated, IsRun
<1>9. ASSUME NEW i \in items'
      PROVE  IsItem(i) /\ (i.day >= today /\ ~Closed(i) => i.rev = n)
  <2>1. CASE i \in Kept(r)
    <3>1. IsItem(i) /\ (i.day < run[r].today \/ Closed(i))
      BY <2>1 DEF Kept, ScheduleInv, ItemsTyped
    <3>2. today \in Nat
      BY DEF ScheduleInv, ClassInv, Lessons
    <3>3. QED
      BY <1>8, <3>1, <3>2 DEF IsItem
  <2>2. CASE i \notin Kept(r)
    <3>1. PICK w \in run[r].rows :
             i = [day |-> w.day, rev |-> n, nodes |-> w.nodes, link |-> w.link]
      BY <1>1, <2>2
    <3>2. QED
      BY <1>6, <1>8, <3>1 DEF IsItem
  <2>3. QED
    BY <2>1, <2>2
<1>10. ItemsTyped'
  BY <1>9 DEF ItemsTyped, IsItem
<1>11. LearnerRevisionsInv'
  BY <1>2, <1>7, <1>9 DEF LearnerRevisionsInv, LastIsActive, Closed
<1>12. QED
  BY <1>5, <1>10, <1>11 DEF ScheduleInv

LEMMA ScheduleNext == ScheduleInv /\ [Next]_vars => ScheduleInv'
<1> SUFFICES ASSUME ScheduleInv, [Next]_vars PROVE ScheduleInv'
  OBVIOUS
<1>1. CASE ClassStep
  BY <1>1, ScheduleClassStep
<1>2. CASE LearnerStep
  BY <1>2, LearnerTeacherStep, LearnerReadStep, ApplyLearnerStep DEF LearnerStep
<1>3. CASE UNCHANGED vars
  <2>1. UNCHANGED classVars /\ UNCHANGED <<run, items, learnerRevisions>>
    BY <1>3 DEF vars, groupVars, learnerVars, classVars
  <2>2. RunsAreDated'
    BY <2>1, FrameRuns DEF ScheduleInv, classVars
  <2>3. QED
    BY <2>1, <2>2, FrameItems
<1>4. QED
  BY <1>1, <1>2, <1>3 DEF Next

LEMMA ScheduleInvariant == Spec => []ScheduleInv
  BY ScheduleInit, ScheduleNext, PTL DEF Spec

-----------------------------------------------------------------------------
(* What recalculations have read.                                          *)

LEMMA ImageFinite ==
  ASSUME NEW f, IsFiniteSet(DOMAIN f)
  PROVE  IsFiniteSet({f[x] : x \in DOMAIN f})
<1> DEFINE g == [x \in DOMAIN f |-> f[x]]
<1>1. g \in Surjection(DOMAIN f, {f[x] : x \in DOMAIN f})
  BY DEF Surjection
<1> QED BY <1>1, FS_Surjection

\* Only finitely much is scheduled.
FiniteWork ==
    /\ IsFiniteSet(sessions) /\ \A s \in sessions : IsFiniteSet(s.nodes)
    /\ IsFiniteSet(items) /\ \A i \in items : IsFiniteSet(i.nodes)

\* In every phase a run holds what the next one takes: a proper snapshot, and
\* the schedule calculated from it.
IsReading(v) ==
    /\ v.phase = "progress" => IsFiniteSet(v.items)
    /\ v.phase = "items" => v.order \in Seq(Nat) /\ Distinct(v.order)
    /\ v.phase \in {"computed", "arranged"}
          => IsSnapshot(v.snapshot) /\ v.placed = CalculateSchedule(v.snapshot)
    /\ v.phase = "computed" => v.snapshot.carry \subseteq Targets(v.snapshot)
    /\ v.phase = "linked" => IsFiniteSet(v.rows) /\ \A w \in v.rows : IsFiniteSet(w.nodes)

ReadInv == FiniteWork /\ \A r \in Runs : IsReading(run[r])

LEMMA PlacedDomain ==
  ASSUME NEW s, IsSnapshot(s)
  PROVE  DOMAIN CalculateSchedule(s) = Targets(s) /\ IsFiniteSet(Targets(s))
<1>1. PICK after : AreRounds(after, s) /\ CalculateSchedule(s) = after[Len(s.order)].placed
  BY Calculation DEF IsSnapshot
<1>2. RoundInv(s, after[Len(s.order)], Len(s.order))
  BY <1>1, LastRound
<1>3. IsFiniteSet(Targets(s))
  BY TargetsFinite DEF IsSnapshot
<1> QED BY <1>1, <1>2, <1>3 DEF RoundInv

LEMMA LessonDaysFinite == \A placed : IsFiniteSet(LessonDays(placed))
<1>1. IsFiniteSet(Days)
  BY FS_Interval, EngineAssumption DEF Days
<1> QED BY <1>1, FS_Subset DEF LessonDays

LEMMA NodesOnFinite ==
  ASSUME NEW placed, IsFiniteSet(DOMAIN placed), NEW d
  PROVE  IsFiniteSet(NodesOn(placed, d))
  BY FS_Subset DEF NodesOn

\* A schedule makes finitely many lessons of finitely many nodes.
LEMMA NewSessionsFinite ==
  ASSUME NEW placed, IsFiniteSet(DOMAIN placed), NEW rev
  PROVE  /\ IsFiniteSet(NewSessions(placed, rev))
         /\ \A s \in NewSessions(placed, rev) : IsFiniteSet(s.nodes)
<1> DEFINE f == [d \in LessonDays(placed) |->
                   [day |-> d, rev |-> rev, nodes |-> NodesOn(placed, d), status |-> "planned"]]
<1>1. DOMAIN f = LessonDays(placed) /\ IsFiniteSet(DOMAIN f)
  BY LessonDaysFinite
<1>2. NewSessions(placed, rev) = {f[d] : d \in DOMAIN f}
  BY DEF NewSessions
<1>3. \A d \in LessonDays(placed) : IsFiniteSet(f[d].nodes)
  BY NodesOnFinite
<1> HIDE DEF f
<1> QED BY <1>1, <1>2, <1>3, ImageFinite

LEMMA FirstSnapshotIsOne == IsSnapshot(FirstSnapshot)
<1>1. FirstSnapshot.order = Route /\ FirstSnapshot.today = 1 /\ FirstSnapshot.items = {}
  BY DEF FirstSnapshot
<1>2. Len(Route) \in Nat
  BY RouteShape, GroupAssumption
<1> QED BY <1>1, <1>2, RouteShape, FS_EmptySet DEF IsSnapshot

LEMMA ReadInit == Init => ReadInv
<1> SUFFICES ASSUME Init PROVE ReadInv
  OBVIOUS
<1>1. sessions = NewSessions(CalculateSchedule(FirstSnapshot), 1)
  BY DEF Init, GroupInit
<1>2. IsFiniteSet(sessions) /\ \A s \in sessions : IsFiniteSet(s.nodes)
  BY <1>1, FirstSnapshotIsOne, PlacedDomain, NewSessionsFinite
<1>3. items = {} /\ IsFiniteSet(items)
  BY FS_EmptySet DEF Init, LearnerInit
<1>4. \A r \in Runs : run[r] = Idle
  BY DEF Init, GroupInit
<1> QED BY <1>2, <1>3, <1>4 DEF ReadInv, FiniteWork, IsReading, Idle

\* The lessons of a class and the items of a learner, one entry for each node.
LEMMA EntriesFinite ==
  ASSUME NEW T, IsFiniteSet(T), NEW F, DOMAIN F = T, \A t \in T : IsFiniteSet(F[t])
  PROVE  IsFiniteSet(UNION {F[t] : t \in T})
<1>1. IsFiniteSet({F[t] : t \in T})
  BY ImageFinite
<1> QED BY <1>1, FS_UNION

LEMMA ReadSessionsRead ==
  ASSUME ReadInv, ScheduleInv, NEW r \in Runs, ReadSessions(r)
  PROVE  IsReading(run'[r])
<1> DEFINE entries == [s \in sessions |-> {[node |-> n, day |-> s.day, rev |-> s.rev] : n \in s.nodes}]
<1>1. ASSUME NEW s \in sessions PROVE IsFiniteSet(entries[s])
  <2> DEFINE f == [n \in s.nodes |-> [node |-> n, day |-> s.day, rev |-> s.rev]]
  <2>1. entries[s] = {f[n] : n \in DOMAIN f}
    OBVIOUS
  <2>2. IsFiniteSet(DOMAIN f)
    BY DEF ReadInv, FiniteWork
  <2> HIDE DEF entries, f
  <2> QED BY <2>1, <2>2, ImageFinite
<1>2. IsFiniteSet(UNION {entries[s] : s \in sessions})
  <2>1. DOMAIN entries = sessions /\ IsFiniteSet(sessions)
    BY DEF ReadInv, FiniteWork
  <2> HIDE DEF entries
  <2> QED BY <1>1, <2>1, EntriesFinite
<1>3. run'[r].phase = "progress" /\ run'[r].items = UNION {entries[s] : s \in sessions}
  BY DEF ReadSessions, ScheduleInv, ClassInv, RunsAreDated
<1> QED BY <1>2, <1>3 DEF IsReading

\* Nodes to carry over are neither done nor preserved by a past lesson.
LEMMA ReadProgressRead ==
  ASSUME ReadInv, ScheduleInv, NEW r \in Runs, ReadProgress(r)
  PROVE  IsReading(run'[r])
<1> DEFINE q == run[r]
           s == Snapshot(q)
           open == {j \in q.items : ~(j.day < q.today /\ j.node \in CarryOver)}
           f == [i \in open |-> [node |-> i.node, day |-> i.day, rev |-> i.rev, done |-> i.node \in Done]]
<1>1. run'[r].phase = "computed" /\ run'[r].snapshot = s /\ run'[r].placed = CalculateSchedule(s)
  BY DEF ReadProgress, ScheduleInv, ClassInv, RunsAreDated
<1>2. q.today \in Nat /\ IsFiniteSet(q.items)
  BY BusyRun DEF ReadProgress, ReadInv, IsReading, ScheduleInv, ClassInv
<1>3. /\ s.order = Route /\ s.today = q.today /\ s.items = {f[i] : i \in DOMAIN f}
      /\ s.done = Done /\ s.carry = CarryOver
  BY DEF Snapshot
<1>4. IsFiniteSet(DOMAIN f)
  BY <1>2, FS_Subset
<1>5. IsFiniteSet(s.items)
  <2> HIDE DEF f, s
  <2> QED BY <1>3, <1>4, ImageFinite
<1>6. IsSnapshot(s)
  <2> HIDE DEF s
  <2>1. Len(Route) \in Nat
    BY RouteShape, GroupAssumption
  <2> QED BY <1>2, <1>3, <1>5, <2>1, RouteShape DEF IsSnapshot
<1>7. ASSUME NEW n \in s.carry PROVE n \in Targets(s)
  <2>1. n \in Nodes /\ n \notin Done /\ n \in CarryOver
    BY <1>3, <1>7 DEF CarryOver
  <2>2. n \in {s.order[k] : k \in 1..Len(s.order)}
    BY <1>3, <2>1, RouteShape DEF Elements
  <2>3. ASSUME NEW i \in Preserved(s), i.node = n PROVE FALSE
    <3>1. i \in s.items /\ (i.done \/ i.day < s.today)
      BY <2>3 DEF Preserved
    <3>2. PICK j \in open : i = f[j]
      BY <1>3, <3>1
    <3>3. i.node = j.node /\ i.day = j.day /\ (i.done <=> j.node \in Done)
      BY <3>2
    <3>4. j.day < q.today
      BY <1>3, <2>1, <2>3, <3>1, <3>3
    <3> QED BY <2>1, <2>3, <3>3, <3>4
  <2> QED BY <1>3, <2>1, <2>2, <2>3 DEF Targets
<1> QED BY <1>1, <1>6, <1>7 DEF IsReading

LEMMA ReadItemsRead ==
  ASSUME ReadInv, ScheduleInv, NEW r \in Runs, ReadItems(r)
  PROVE  IsReading(run'[r])
<1> DEFINE q == run[r]
           s == LearnerSnapshot(q)
           entries == [i \in items |-> {[node |-> n, day |-> i.day, rev |-> i.rev, done |-> Closed(i)] : n \in i.nodes}]
<1>1. run'[r].phase = "arranged" /\ run'[r].snapshot = s /\ run'[r].placed = CalculateSchedule(s)
  BY DEF ReadItems, ScheduleInv, ClassInv, RunsAreDated
<1>2. q.today \in Nat /\ q.order \in Seq(Nat) /\ Distinct(q.order)
  BY BusyRun DEF ReadItems, ReadInv, IsReading, ScheduleInv, ClassInv
<1>3. ASSUME NEW i \in items PROVE IsFiniteSet(entries[i])
  <2> DEFINE f == [n \in i.nodes |-> [node |-> n, day |-> i.day, rev |-> i.rev, done |-> Closed(i)]]
  <2>1. entries[i] = {f[n] : n \in DOMAIN f}
    OBVIOUS
  <2>2. IsFiniteSet(DOMAIN f)
    BY DEF ReadInv, FiniteWork
  <2> HIDE DEF entries, f
  <2> QED BY <2>1, <2>2, ImageFinite
<1>4. s.order = q.order /\ s.today = q.today /\ s.items = UNION {entries[i] : i \in items}
  BY DEF LearnerSnapshot
<1>5. IsFiniteSet(UNION {entries[i] : i \in items})
  <2>1. DOMAIN entries = items /\ IsFiniteSet(items)
    BY DEF ReadInv, FiniteWork
  <2> HIDE DEF entries
  <2> QED BY <1>3, <2>1, EntriesFinite
<1> HIDE DEF s, entries
<1>6. IsSnapshot(s)
  BY <1>2, <1>4, <1>5, LenProperties DEF IsSnapshot
<1> QED BY <1>1, <1>6 DEF IsReading

LEMMA LinkLessonsRead ==
  ASSUME ReadInv, ScheduleInv, NEW r \in Runs, LinkLessons(r)
  PROVE  IsReading(run'[r])
<1> DEFINE placed == run[r].placed
           days   == LessonDays(placed)
<1>1. PICK link : run' = [run EXCEPT ![r] =
                    [phase |-> "linked", today |-> run[r].today,
                     absences |-> run[r].absences,
                     rows |-> {[day |-> d, link |-> link[d],
                                nodes |-> NodesOn(placed, d)] : d \in days}]]
  BY DEF LinkLessons
<1> DEFINE f == [d \in days |-> [day |-> d, link |-> link[d], nodes |-> NodesOn(placed, d)]]
<1>2. run'[r].phase = "linked" /\ run'[r].rows = {f[d] : d \in DOMAIN f}
  BY <1>1 DEF ScheduleInv, ClassInv, RunsAreDated
<1>3. IsFiniteSet(DOMAIN placed)
  <2>1. IsSnapshot(run[r].snapshot) /\ placed = CalculateSchedule(run[r].snapshot)
    BY DEF LinkLessons, ReadInv, IsReading
  <2> QED BY <2>1, PlacedDomain
<1>4. IsFiniteSet(DOMAIN f) /\ \A d \in DOMAIN f : IsFiniteSet(f[d].nodes)
  BY <1>3, LessonDaysFinite, NodesOnFinite
<1> HIDE DEF f
<1> QED BY <1>2, <1>4, ImageFinite DEF IsReading

LEMMA ReadUpdate ==
  ASSUME ReadInv, ScheduleInv, NEW r \in Runs, IsReading(run'[r]),
         run' = [run EXCEPT ![r] = run'[r]], FiniteWork'
  PROVE  ReadInv'
<1>1. ASSUME NEW q \in Runs PROVE IsReading(run'[q])
  <2>1. run'[q] = IF q = r THEN run'[r] ELSE run[q]
    BY DEF ScheduleInv, ClassInv, RunsAreDated
  <2> QED BY <2>1 DEF ReadInv
<1> QED BY <1>1 DEF ReadInv, IsReading, FiniteWork

LEMMA IdleIsReading == IsReading(Idle)
  BY DEF IsReading, Idle

\* Closing a lesson and relinking items leave the work finite.
LEMMA ClassLeavesFinite ==
  ASSUME ReadInv, ClassStep, sessions' = sessions \/ (\E s \in sessions : \E o : CloseSession(s, o))
  PROVE  IsFiniteSet(sessions') /\ \A s \in sessions' : IsFiniteSet(s.nodes)
<1>1. CASE sessions' = sessions
  BY <1>1 DEF ReadInv, FiniteWork
<1>2. CASE \E s \in sessions : \E o : CloseSession(s, o)
  <2>1. PICK s \in sessions : \E o : CloseSession(s, o)
    BY <1>2
  <2> DEFINE c == [s EXCEPT !.status = "completed"]
  <2>2. sessions' = (sessions \ {s}) \cup {c}
    BY <2>1 DEF CloseSession
  <2>3. c.nodes = s.nodes \/ c = s
    OBVIOUS
  <2>4. IsFiniteSet(s.nodes) /\ IsFiniteSet(sessions)
    BY DEF ReadInv, FiniteWork
  <2>5. IsFiniteSet(sessions \ {s}) /\ IsFiniteSet({c})
    BY <2>4, FS_Difference, FS_Singleton
  <2>6. IsFiniteSet(sessions')
    BY <2>2, <2>5, FS_Union
  <2>7. ASSUME NEW x \in sessions' PROVE IsFiniteSet(x.nodes)
    <3>1. x \in sessions \/ x = c
      BY <2>2
    <3> HIDE DEF c
    <3> QED BY <2>3, <2>4, <3>1 DEF ReadInv, FiniteWork
  <2> QED BY <2>6, <2>7
<1> QED BY <1>1, <1>2

LEMMA RelinkedFinite ==
  ASSUME ReadInv, ScheduleInv
  PROVE  IsFiniteSet(Relinked) /\ \A i \in Relinked : IsFiniteSet(i.nodes)
<1> DEFINE f == [i \in items |->
                   [i EXCEPT !.link = IF \E s \in sessions' : LessonId(s) = i.link
                                      THEN i.link ELSE NoLink]]
<1>1. Relinked = {f[i] : i \in DOMAIN f}
  BY DEF Relinked
<1>2. IsFiniteSet(DOMAIN f)
  BY DEF ReadInv, FiniteWork
<1>3. ASSUME NEW i \in DOMAIN f PROVE IsFiniteSet(f[i].nodes)
  <2>1. f[i].nodes = i.nodes
    BY DEF ScheduleInv, ItemsTyped, IsItem
  <2>2. i \in items
    OBVIOUS
  <2> HIDE DEF f
  <2> QED BY <2>1, <2>2 DEF ReadInv, FiniteWork
<1> HIDE DEF f
<1> QED BY <1>1, <1>2, <1>3, ImageFinite

LEMMA ReadClassStep ==
  ASSUME ReadInv, ScheduleInv, ClassStep
  PROVE  ReadInv'
<1>1. IsFiniteSet(items') /\ \A i \in items' : IsFiniteSet(i.nodes)
  BY RelinkedFinite DEF ClassStep
<1>2. GroupNext
  BY DEF ClassStep
<1>3. run = [q \in Runs |-> run[q]]
  BY DEF ScheduleInv, ClassInv, RunsAreDated
<1>4. CASE \E s \in sessions : \E outcome \in [s.nodes -> Outcomes] : CloseSession(s, outcome)
  <2>1. PICK s \in sessions : \E o : CloseSession(s, o)
    BY <1>4
  <2>2. run' = run
    BY <2>1 DEF CloseSession
  <2>3. FiniteWork'
    BY <1>1, <2>1, ClassLeavesFinite DEF FiniteWork
  <2> QED BY <2>2, <2>3 DEF ReadInv, IsReading, FiniteWork
<1>5. CASE \/ \E e \in Cancellations : ReportCancellation(e) \/ DismissCancellation(e)
           \/ NextDay
  <2>1. UNCHANGED <<sessions, run>>
    BY <1>5 DEF ReportCancellation, DismissCancellation, NextDay
  <2>2. FiniteWork'
    BY <1>1, <2>1, ClassLeavesFinite DEF FiniteWork
  <2> QED BY <2>1, <2>2 DEF ReadInv, IsReading, FiniteWork
<1>6. ASSUME NEW r \in Runs, StartAutomatic(r) \/ StartManual(r) \/ RunStep(r)
      PROVE  ReadInv'
  <2>1. CASE Apply(r)
    <3>1. /\ sessions' = (sessions \ Replaced(r)) \cup NewSessions(run[r].placed, NextRevision)
          /\ run' = [run EXCEPT ![r] = Idle]
          /\ run[r].phase = "computed"
      BY <2>1 DEF Apply
    <3>2. IsFiniteSet(DOMAIN run[r].placed)
      BY <3>1, PlacedDomain DEF ReadInv, IsReading
    <3>3. /\ IsFiniteSet(NewSessions(run[r].placed, NextRevision))
          /\ \A s \in NewSessions(run[r].placed, NextRevision) : IsFiniteSet(s.nodes)
      BY <3>2, NewSessionsFinite
    <3>4. IsFiniteSet(sessions \ Replaced(r)) /\ \A s \in sessions : IsFiniteSet(s.nodes)
      BY FS_Difference DEF ReadInv, FiniteWork
    <3>5. IsFiniteSet(sessions') /\ \A s \in sessions' : IsFiniteSet(s.nodes)
      BY <3>1, <3>3, <3>4, FS_Union
    <3>6. FiniteWork'
      BY <1>1, <3>5 DEF FiniteWork
    <3>7. run'[r] = Idle
      BY <1>3, <3>1
    <3> QED BY <3>1, <3>6, <3>7, IdleIsReading, ReadUpdate
  <2>2. CASE ~Apply(r)
    <3>1. sessions' = sessions
      BY <1>6, <2>2 DEF StartAutomatic, StartManual, ReadCancellations, RunStep,
                        ReadSessions, ReadProgress, Reject, Propose
    <3>2. FiniteWork'
      BY <1>1, <3>1, ClassLeavesFinite DEF FiniteWork
    <3>3. run' = [run EXCEPT ![r] = run'[r]] /\ IsReading(run'[r])
      <4>1. CASE StartAutomatic(r) \/ StartManual(r)
        BY <1>3, <4>1 DEF StartAutomatic, StartManual, ReadCancellations, IsReading
      <4>2. CASE ReadSessions(r)
        BY <1>3, <4>2, ReadSessionsRead DEF ReadSessions
      <4>3. CASE ReadProgress(r)
        BY <1>3, <4>3, ReadProgressRead DEF ReadProgress
      <4>4. CASE Reject(r) \/ Propose(r)
        BY <1>3, <4>4, IdleIsReading DEF Reject, Propose
      <4> QED BY <1>6, <2>2, <4>1, <4>2, <4>3, <4>4 DEF RunStep
    <3> QED BY <3>2, <3>3, ReadUpdate
  <2> QED BY <2>1, <2>2
<1> QED BY <1>2, <1>4, <1>5, <1>6 DEF GroupNext

LEMMA ReadLearnerStep ==
  ASSUME ReadInv, ScheduleInv, LearnerStep
  PROVE  ReadInv'
<1>1. sessions' = sessions
  BY LearnerFrame DEF classVars
<1>2. run = [q \in Runs |-> run[q]]
  BY DEF ScheduleInv, ClassInv, RunsAreDated
<1>3. ASSUME \/ \E o \in DOMAIN Overrides : \/ ChangeOverride(o, "none", "active")
                                           \/ ChangeOverride(o, "active", "cancelled")
             \/ \E a \in Absences : \/ ChangeAbsence(a, {"none"}, "received")
                                   \/ ChangeAbsence(a, {"received", "applied"}, "dismissed")
      PROVE  ReadInv'
  <2>1. UNCHANGED <<items, run>>
    BY <1>3 DEF ChangeOverride, ChangeAbsence
  <2> QED BY <1>1, <2>1 DEF ReadInv, IsReading, FiniteWork
<1>4. ASSUME NEW r \in Runs,
             \/ StartLearnerAutomatic(r)
             \/ StartLearnerManual(r)
             \/ ReadItems(r)
             \/ RejectLearner(r)
             \/ LinkLessons(r)
             \/ AbortLearner(r)
      PROVE  ReadInv'
  <2>1. items' = items
    BY <1>4 DEF StartLearnerAutomatic, StartLearnerManual, StartLearnerRun, ReadItems,
                RejectLearner, LinkLessons, AbortLearner
  <2>2. FiniteWork'
    BY <1>1, <2>1 DEF ReadInv, FiniteWork
  <2>3. run' = [run EXCEPT ![r] = run'[r]] /\ IsReading(run'[r])
    <3>1. CASE StartLearnerAutomatic(r) \/ StartLearnerManual(r)
      <4>1. StartLearnerRun(r)
        BY <3>1 DEF StartLearnerAutomatic, StartLearnerManual
      <4>2. /\ run' = [run EXCEPT ![r] = run'[r]]
            /\ run'[r].phase = "items" /\ run'[r].order = LearnerOrder
        BY <1>2, <4>1 DEF StartLearnerRun
      <4> QED BY <4>2, LearnerOrderShape DEF IsReading
    <3>2. CASE ReadItems(r)
      BY <1>2, <3>2, ReadItemsRead DEF ReadItems
    <3>3. CASE RejectLearner(r) \/ AbortLearner(r)
      BY <1>2, <3>3, IdleIsReading DEF RejectLearner, AbortLearner
    <3>4. CASE LinkLessons(r)
      <4>1. PICK v : run' = [run EXCEPT ![r] = v]
        BY <3>4 DEF LinkLessons
      <4>2. run' = [run EXCEPT ![r] = run'[r]]
        BY <1>2, <4>1
      <4> QED BY <3>4, <4>2, LinkLessonsRead
    <3> QED BY <1>4, <3>1, <3>2, <3>3, <3>4
  <2> QED BY <2>2, <2>3, ReadUpdate
<1>5. ASSUME NEW r \in Runs, ApplyLearner(r)
      PROVE  ReadInv'
  <2> DEFINE f == [w \in run[r].rows |-> [day |-> w.day, rev |-> NextLearnerRevision,
                                          nodes |-> w.nodes, link |-> w.link]]
  <2>1. /\ items' = Kept(r) \cup {f[w] : w \in DOMAIN f}
        /\ run' = [run EXCEPT ![r] = Idle]
        /\ run[r].phase = "linked"
    BY <1>5 DEF ApplyLearner
  <2>2. IsFiniteSet(DOMAIN f) /\ \A w \in DOMAIN f : IsFiniteSet(f[w].nodes)
    BY <2>1 DEF ReadInv, IsReading
  <2>3. IsFiniteSet(Kept(r)) /\ \A i \in Kept(r) : IsFiniteSet(i.nodes)
    BY FS_Subset DEF Kept, ReadInv, FiniteWork
  <2> HIDE DEF f
  <2>4. IsFiniteSet({f[w] : w \in DOMAIN f})
    BY <2>2, ImageFinite
  <2>5. IsFiniteSet(items')
    BY <2>1, <2>3, <2>4, FS_Union
  <2>6. \A i \in items' : IsFiniteSet(i.nodes)
    BY <2>1, <2>2, <2>3
  <2>7. FiniteWork'
    BY <1>1, <2>5, <2>6 DEF ReadInv, FiniteWork
  <2>8. run'[r] = Idle
    BY <1>2, <2>1
  <2> QED BY <2>1, <2>7, <2>8, IdleIsReading, ReadUpdate
<1> QED BY <1>3, <1>4, <1>5 DEF LearnerStep

LEMMA ReadInvariant == Spec => []ReadInv
<1>1. ReadInv /\ ScheduleInv /\ [Next]_vars => ReadInv'
  <2> SUFFICES ASSUME ReadInv, ScheduleInv, [Next]_vars PROVE ReadInv'
    OBVIOUS
  <2>1. CASE UNCHANGED vars
    <3>1. UNCHANGED <<sessions, items, run>>
      BY <2>1 DEF vars, groupVars, learnerVars
    <3> QED BY <3>1 DEF ReadInv, IsReading, FiniteWork
  <2> QED BY <2>1, ReadClassStep, ReadLearnerStep DEF Next
<1> QED BY <1>1, ReadInit, ScheduleInvariant, PTL DEF Spec

-----------------------------------------------------------------------------
(* The theorems.                                                           *)

\* Whatever recalculations overlap and however stale their reads, the lessons
\* ahead are those of the one active revision (Apply of GroupSchedule).
THEOREM FutureLessons == Spec => []FutureFollowsTheActiveRevision
<1>1. ScheduleInv => FutureFollowsTheActiveRevision
  <2> SUFFICES ASSUME ScheduleInv PROVE FutureFollowsTheActiveRevision
    OBVIOUS
  <2>1. ClassRevisions /\ DOMAIN revisions = 1..Len(revisions)
    BY DEF ScheduleInv, ClassInv, ClassRevisions, LastIsActive
  <2>2. Len(revisions) \in 1..Len(revisions)
    BY DEF ScheduleInv, ClassInv, ClassRevisions, LastIsActive
  <2>3. QED
    BY <2>1, <2>2 DEF ClassRevisions, LastIsActive, FutureFollowsTheActiveRevision
<1>2. QED
  BY <1>1, ScheduleInvariant, PTL

\* The items ahead of a learner are those of the learner's active revision,
\* but for the work of closed lessons (ApplyLearner and the foreign key).
THEOREM FutureItems == Spec => []LearnerFutureIsActive
<1>1. ScheduleInv => LearnerFutureIsActive
  <2> SUFFICES ASSUME ScheduleInv PROVE LearnerFutureIsActive
    OBVIOUS
  <2>1. /\ LearnerRevisionsInv /\ ItemsTyped
        /\ DOMAIN learnerRevisions = 1..Len(learnerRevisions)
        /\ Len(learnerRevisions) \in Nat
    BY DEF ScheduleInv, LearnerRevisionsInv, LastIsActive
  <2>2. ASSUME NEW i \in items, i.day >= today, ~Closed(i)
        PROVE  learnerRevisions[i.rev]
    <3>1. i.rev = Len(learnerRevisions) /\ i.rev \in Nat \ {0}
      BY <2>1, <2>2 DEF LearnerRevisionsInv, ItemsTyped, IsItem
    <3>2. i.rev \in 1..Len(learnerRevisions)
      BY <2>1, <3>1
    <3>3. QED
      BY <2>1, <3>1, <3>2 DEF LearnerRevisionsInv, LastIsActive
  <2>3. QED
    BY <2>1, <2>2 DEF LearnerRevisionsInv, LastIsActive, LearnerFutureIsActive
<1>2. QED
  BY <1>1, ScheduleInvariant, PTL

\* No recalculation, however late, rewrites a closed lesson or a report (the
\* delete guards of domain/schedule.ts).
THEOREM HistoryKept == Spec => HistoryStays
<1>1. ScheduleInv /\ [Next]_vars =>
        [ /\ {s \in sessions : s.status = "completed"} \subseteq sessions'
          /\ \A n \in Nodes : reported[n] \subseteq reported'[n] ]_groupVars
  <2> SUFFICES ASSUME ScheduleInv, [Next]_vars
               PROVE  [ /\ {s \in sessions : s.status = "completed"} \subseteq sessions'
                        /\ \A n \in Nodes : reported[n] \subseteq reported'[n] ]_groupVars
    OBVIOUS
  <2>1. CASE ClassStep
    BY <2>1, ClassHistory DEF ClassStep, ScheduleInv
  <2>2. CASE LearnerStep
    BY <2>2, LearnerFrame DEF classVars
  <2>3. CASE UNCHANGED vars
    BY <2>3 DEF vars
  <2>4. QED
    BY <2>1, <2>2, <2>3 DEF Next
<1>2. QED
  BY <1>1, ScheduleInvariant, PTL DEF Spec, HistoryStays

\* Work of closed lessons stays on the learner's record, linked, whatever is
\* recalculated for the class or the learner.
THEOREM ClosedWorkKept == Spec => ClosedWorkStays
<1>1. ScheduleInv /\ [Next]_vars => [{i \in items : Closed(i)} \subseteq items']_vars
  <2> SUFFICES ASSUME ScheduleInv, [Next]_vars, NEW i \in items, Closed(i),
                      ~UNCHANGED vars
               PROVE  i \in items'
    OBVIOUS
  <2>1. CASE ClassStep
    BY <2>1, ClosedItemsStay
  <2>2. CASE LearnerStep
    BY <2>2 DEF LearnerStep, ChangeOverride, ChangeAbsence, StartLearnerAutomatic,
                StartLearnerManual, StartLearnerRun, ReadItems, RejectLearner,
                LinkLessons, ApplyLearner, Kept, AbortLearner
  <2>3. QED
    BY <2>1, <2>2 DEF Next
<1>2. QED
  BY <1>1, ScheduleInvariant, PTL DEF Spec, ClosedWorkStays

\* A schedule without conflicts keeps every limit, in every state and for
\* every route, override, absence and holiday: days are free, none is overfull
\* and the order of the route holds (calculateSchedule against its promises).
THEOREM SchedulesHold == Spec => []SchedulesAreSound
<1>1. ReadInv => SchedulesAreSound
  BY SchedulesKeepTheLimits DEF ReadInv, IsReading, SchedulesAreSound, Computed
<1> QED BY <1>1, ReadInvariant, PTL

\* Where the existing places are sound together, a recalculation moves nothing
\* (4a of calculateSchedule).
THEOREM PlacesStay == Spec => []NothingMovesWithoutCause
<1>1. ReadInv => NothingMovesWithoutCause
  BY SoundPlacesAreKept DEF ReadInv, IsReading, NothingMovesWithoutCause, Computed
<1> QED BY <1>1, ReadInvariant, PTL

\* A node reported as unfinished is among those that get a new place, whatever
\* lesson it was in (deriveProgress and the items withheld from the engine).
THEOREM CarriedOver == Spec => []CarriedOverNodesReturn
<1>1. ReadInv => CarriedOverNodesReturn
  BY PlacedDomain DEF ReadInv, IsReading, CarriedOverNodesReturn
<1> QED BY <1>1, ReadInvariant, PTL

\* Whatever overrides are in force, extra work stays on the learner's route
\* unless one of them skips it by name (applyOverrides).
THEOREM ExtraWorkStays == Spec => []ExtraWorkIsKept
  BY ExtraWorkOnOrder, PTL
=============================================================================
