------------------------- MODULE RouteBuilderProofs -------------------------
(* Proofs about RouteBuilder, for any plan, bounds and number of requests. *)
EXTENDS RouteBuilder, FunctionTheorems, FiniteSetTheorems, NaturalsInduction,
        WellFoundedInduction, TLAPS

-----------------------------------------------------------------------------
(* Induction, and sums over finite sets.                                   *)

\* Induction up to a bound, over the set of numbers that have the property.
LEMMA UpTo ==
  ASSUME NEW L \in Nat, NEW S, 0 \in S, \A k \in 1..L : k - 1 \in S => k \in S
  PROVE  \A k \in 0..L : k \in S
<1> DEFINE Bad == (0..L) \ S
<1> SUFFICES ASSUME Bad # {} PROVE FALSE
  OBVIOUS
<1>1. Bad \subseteq Nat
  OBVIOUS
<1>2. PICK x \in Bad : \A y \in Bad : ~(<<y, x>> \in OpToRel(<, Nat))
  BY <1>1, NatLessThanWellFounded, WFMin
<1>3. x \in 1..L /\ x - 1 \in 0..L /\ x - 1 \in Nat /\ x - 1 < x
  OBVIOUS
<1>4. <<x - 1, x>> \in OpToRel(<, Nat)
  BY <1>3 DEF OpToRel
<1>5. x - 1 \in S
  BY <1>2, <1>3, <1>4
<1> QED BY <1>3, <1>5

\* f gives every part of S the total weight of those of its elements in T.
AddsUp(f, S, W, T) ==
    /\ f \in [SUBSET S -> Int]
    /\ f[{}] = 0
    /\ \A s \in SUBSET S : \A x \in s : f[s] = f[s \ {x}] + (IF x \in T THEN W[x] ELSE 0)

LEMMA ShorterRange ==
  ASSUME NEW N \in Nat, NEW k \in 1..N
  PROVE  (1..k) \ {k} = 1..(k - 1)
<1> k \in Int
  OBVIOUS
<1>1. ASSUME NEW i
      PROVE  i \in (1..k) \ {k} <=> i \in 1..(k - 1)
  OBVIOUS
<1> QED BY <1>1

\* One more element adds its weight to the sum.
LEMMA AddOne ==
  ASSUME NEW S, NEW W \in [S -> Int], NEW T \in SUBSET S, NEW e \in S, e \notin T,
         NEW f, AddsUp(f, S, W, T)
  PROVE  \E g : AddsUp(g, S, W, T \cup {e})
<1> DEFINE g == [s \in SUBSET S |-> f[s] + (IF e \in s THEN W[e] ELSE 0)]
<1>1. f \in [SUBSET S -> Int] /\ W[e] \in Int
  BY DEF AddsUp
<1>2. g \in [SUBSET S -> Int]
  BY <1>1
<1>3. g[{}] = 0
  BY DEF AddsUp
<1>4. ASSUME NEW s \in SUBSET S, NEW x \in s
      PROVE  g[s] = g[s \ {x}] + (IF x \in T \cup {e} THEN W[x] ELSE 0)
  <2>1. s \ {x} \in SUBSET S /\ W[x] \in Int /\ f[s] \in Int /\ f[s \ {x}] \in Int
    BY <1>1
  <2>2. f[s] = f[s \ {x}] + (IF x \in T THEN W[x] ELSE 0)
    BY DEF AddsUp
  <2>3. CASE x = e
    <3>1. g[s] = f[s] + W[e] /\ g[s \ {x}] = f[s \ {x}] + 0 /\ f[s] = f[s \ {x}] + 0
      BY <2>1, <2>2, <2>3
    <3> QED BY <3>1, <2>1, <2>3, <1>1
  <2>4. CASE x # e
    <3>1. (e \in s \ {x}) = (e \in s) /\ (x \in T \cup {e}) = (x \in T)
      BY <2>4
    <3>2. g[s \ {x}] = f[s \ {x}] + (IF e \in s THEN W[e] ELSE 0)
      BY <3>1, <2>1
    <3>3. CASE e \in s
      BY <3>1, <3>2, <3>3, <2>1, <2>2, <1>1
    <3>4. CASE e \notin s
      BY <3>1, <3>2, <3>4, <2>1, <2>2, <1>1
    <3> QED BY <3>3, <3>4
  <2> QED BY <2>3, <2>4
<1> HIDE DEF g
<1>5. AddsUp(g, S, W, T \cup {e})
  BY <1>2, <1>3, <1>4 DEF AddsUp
<1> QED BY <1>5

\* Every finite set has a sum for every part of it.
LEMMA SumExists ==
  ASSUME NEW S, IsFiniteSet(S), NEW W \in [S -> Int]
  PROVE  \E f : AddsUp(f, S, W, S)
<1> DEFINE N == Cardinality(S)
<1>1. N \in Nat /\ ExistsBijection(1..N, S)
  BY FS_CardinalityType
<1>2. PICK e \in Bijection(1..N, S) : TRUE
  BY <1>1 DEF ExistsBijection
<1>3. /\ e \in [1..N -> S]
      /\ \A i, j \in 1..N : e[i] = e[j] => i = j
      /\ \A x \in S : \E i \in 1..N : e[i] = x
  BY <1>2 DEF Bijection, Injection, Surjection, IsInjective
<1> DEFINE First(k) == {e[j] : j \in 1..k}
           Good == {k \in 0..N : \E f : AddsUp(f, S, W, First(k))}
<1> HIDE DEF N
<1>4. 0 \in Good
  <2> DEFINE z == [s \in SUBSET S |-> 0]
  <2>1. First(0) = {}
    OBVIOUS
  <2>2. AddsUp(z, S, W, {})
    BY DEF AddsUp
  <2> HIDE DEF First, z
  <2>3. \E f : AddsUp(f, S, W, First(0))
    BY <2>1, <2>2
  <2> QED BY <2>3, <1>1
<1>5. ASSUME NEW k \in 1..N, k - 1 \in Good
      PROVE  k \in Good
  <2>1. PICK f : AddsUp(f, S, W, First(k - 1))
    BY <1>5
  <2>2. First(k) = First(k - 1) \cup {e[k]} /\ e[k] \in S
    BY <1>1, <1>3
  <2>3. First(k - 1) \in SUBSET S /\ e[k] \notin First(k - 1)
    BY <1>1, <1>3
  <2> HIDE DEF First
  <2>4. \E g : AddsUp(g, S, W, First(k))
    <3>1. \E g : AddsUp(g, S, W, First(k - 1) \cup {e[k]})
      BY <2>1, <2>2, <2>3, AddOne
    <3> QED BY <2>2, <3>1
  <2> QED BY <2>4
<1>6. First(N) = S
  BY <1>1, <1>3
<1>7. N \in Good
  <2> HIDE DEF Good
  <2>1. \A k \in 0..N : k \in Good
    BY <1>1, <1>4, <1>5, UpTo
  <2> QED BY <2>1, <1>1
<1> QED BY <1>6, <1>7

\* g adds the weight of one element to that of the others.
AddsOneByOne(g, S, W) ==
    /\ g[{}] = 0
    /\ \A s \in SUBSET S : s # {} =>
          \E x \in s : g[s] = g[s \ {x}] + W[x] \/ g[s] = W[x] + g[s \ {x}]

\* In whatever order it takes the elements, it is the same function.
LEMMA SumIsUnique ==
  ASSUME NEW S, IsFiniteSet(S), NEW W \in [S -> Int], NEW f, AddsUp(f, S, W, S),
         NEW g, AddsOneByOne(g, S, W)
  PROVE  g[S] = f[S]
<1> DEFINE N == Cardinality(S)
           Good == {k \in 0..N : \A s \in SUBSET S : Cardinality(s) = k => g[s] = f[s]}
<1>1. N \in Nat /\ \A s \in SUBSET S : IsFiniteSet(s)
  BY FS_CardinalityType, FS_Subset
<1>2. 0 \in Good
  <2>1. ASSUME NEW s \in SUBSET S, Cardinality(s) = 0 PROVE g[s] = f[s]
    <3>1. s = {}
      BY <1>1, <2>1, FS_EmptySet
    <3> QED BY <3>1 DEF AddsUp, AddsOneByOne
  <2> QED BY <1>1, <2>1
<1>3. ASSUME NEW k \in 1..N, k - 1 \in Good
      PROVE  k \in Good
  <2>1. ASSUME NEW s \in SUBSET S, Cardinality(s) = k PROVE g[s] = f[s]
    <3>1. IsFiniteSet(s) /\ s # {}
      BY <1>1, <2>1, FS_EmptySet
    <3>2. PICK x \in s : g[s] = g[s \ {x}] + W[x] \/ g[s] = W[x] + g[s \ {x}]
      BY <3>1 DEF AddsOneByOne
    <3>3. Cardinality(s \ {x}) = k - 1
      BY <2>1, <3>1, FS_RemoveElement
    <3>4. g[s \ {x}] = f[s \ {x}]
      BY <1>3, <3>3
    <3>5. f[s] = f[s \ {x}] + W[x] /\ f[s \ {x}] \in Int /\ W[x] \in Int
      BY DEF AddsUp
    <3> QED BY <3>2, <3>4, <3>5
  <2> QED BY <2>1
<1>4. N \in Good
  <2> HIDE DEF Good, N
  <2>1. \A k \in 0..N : k \in Good
    BY <1>1, <1>2, <1>3, UpTo
  <2> QED BY <2>1, <1>1
<1> QED BY <1>4

-----------------------------------------------------------------------------
(* Rows in order.                                                          *)

\* The contents of a version: finitely many rows with their sort orders.
IsRows(rows) ==
    /\ rows \in [DOMAIN rows -> Int]
    /\ DOMAIN rows \subseteq Nat
    /\ IsFiniteSet(DOMAIN rows)

\* Sort order, then identity, orders any two rows.
LEMMA RowsAreOrdered ==
  ASSUME NEW rows, IsRows(rows)
  PROVE  /\ \A m, n \in DOMAIN rows : m = n \/ Before(rows, m, n) \/ Before(rows, n, m)
         /\ \A m, n \in DOMAIN rows : Before(rows, m, n) => m # n /\ ~Before(rows, n, m)
         /\ \A k, m, n \in DOMAIN rows :
               Before(rows, k, m) /\ Before(rows, m, n) => Before(rows, k, n)
<1>1. \A n \in DOMAIN rows : n \in Nat /\ rows[n] \in Int
  BY DEF IsRows
<1> QED BY <1>1 DEF Before

\* The rows in front of n.
RowsBefore(rows, n) == {m \in DOMAIN rows : Before(rows, m, n)}

\* The rows before a row are the front of the list up to it.
LEMMA IndexIsFront ==
  ASSUME NEW rows, NEW n PROVE IndexOf(rows, n) = Cardinality(RowsBefore(rows, n))
<1>1. {m \in DOMAIN rows \cap DOMAIN rows : Before(rows, m, n)} = RowsBefore(rows, n)
  BY DEF RowsBefore
<1> QED BY <1>1 DEF IndexOf, RankAmong

\* The index of a row counts from 0, and says what the order says.
LEMMA IndexIsOrder ==
  ASSUME NEW rows, IsRows(rows)
  PROVE  /\ Cardinality(DOMAIN rows) \in Nat
         /\ \A n \in DOMAIN rows : IndexOf(rows, n) \in 0..(Cardinality(DOMAIN rows) - 1)
         /\ \A m, n \in DOMAIN rows : Before(rows, m, n) <=> IndexOf(rows, m) < IndexOf(rows, n)
         /\ \A m, n \in DOMAIN rows : IndexOf(rows, m) = IndexOf(rows, n) => m = n
<1> DEFINE D == DOMAIN rows
<1>1. IsFiniteSet(D) /\ Cardinality(D) \in Nat
  BY FS_CardinalityType DEF IsRows
<1>2. \A n \in D : RowsBefore(rows, n) \subseteq D \ {n}
  BY RowsAreOrdered DEF RowsBefore
<1>3. ASSUME NEW n \in D
      PROVE  IsFiniteSet(RowsBefore(rows, n)) /\ Cardinality(RowsBefore(rows, n)) \in 0..(Cardinality(D) - 1)
  <2>1. IsFiniteSet(D \ {n}) /\ Cardinality(D \ {n}) = Cardinality(D) - 1
    BY <1>1, FS_RemoveElement
  <2>2. /\ IsFiniteSet(RowsBefore(rows, n))
        /\ Cardinality(RowsBefore(rows, n)) <= Cardinality(D \ {n})
    BY <1>2, <2>1, FS_Subset
  <2>3. Cardinality(RowsBefore(rows, n)) \in Nat
    BY <2>2, FS_CardinalityType
  <2> QED BY <1>1, <2>1, <2>2, <2>3
<1>4. ASSUME NEW m \in D, NEW n \in D, Before(rows, m, n)
      PROVE  IndexOf(rows, m) < IndexOf(rows, n)
  <2>1. RowsBefore(rows, m) \subseteq RowsBefore(rows, n) /\ m \in RowsBefore(rows, n) /\ m \notin RowsBefore(rows, m)
    BY <1>4, RowsAreOrdered DEF RowsBefore
  <2>2. /\ Cardinality(RowsBefore(rows, m)) <= Cardinality(RowsBefore(rows, n))
        /\ Cardinality(RowsBefore(rows, m)) = Cardinality(RowsBefore(rows, n))
              => RowsBefore(rows, m) = RowsBefore(rows, n)
    BY <1>3, <2>1, FS_Subset
  <2>3. Cardinality(RowsBefore(rows, m)) # Cardinality(RowsBefore(rows, n))
    BY <2>1, <2>2
  <2>4. Cardinality(RowsBefore(rows, m)) \in Int /\ Cardinality(RowsBefore(rows, n)) \in Int
    BY <1>3
  <2> QED BY <2>2, <2>3, <2>4, IndexIsFront
<1>5. \A n \in D : IndexOf(rows, n) \in 0..(Cardinality(D) - 1)
  BY <1>3, IndexIsFront
<1>6. \A m, n \in D : IndexOf(rows, m) < IndexOf(rows, n) => Before(rows, m, n)
  BY <1>1, <1>4, <1>5, RowsAreOrdered
<1>7. \A m, n \in D : IndexOf(rows, m) = IndexOf(rows, n) => m = n
  BY <1>1, <1>4, <1>5, RowsAreOrdered
<1> QED BY <1>1, <1>4, <1>5, <1>6, <1>7

IsInOrder(rows, list) ==
    /\ list \in [1..Cardinality(DOMAIN rows) -> DOMAIN rows]
    /\ \A i, j \in DOMAIN list : i < j => Before(rows, list[i], list[j])

\* Every set of rows has a list in which each row is where its index says.
LEMMA ListExists ==
  ASSUME NEW rows, IsRows(rows)
  PROVE  \E list : IsInOrder(rows, list)
<1> DEFINE D == DOMAIN rows
           N == Cardinality(D)
           index == [n \in D |-> IndexOf(rows, n)]
<1>1. N \in Nat /\ index \in [D -> 0..(N - 1)]
  BY IndexIsOrder
<1>2. index \in Injection(D, 0..(N - 1))
  <2>1. \A m, n \in D : index[m] = index[n] => m = n
    BY IndexIsOrder
  <2> QED BY <1>1, <2>1 DEF Injection, IsInjective
<1>3. IsFiniteSet(0..(N - 1)) /\ Cardinality(0..(N - 1)) = N
  <2>1. 0 \in Int /\ N - 1 \in Int
    BY <1>1
  <2>2. /\ IsFiniteSet(0..(N - 1))
        /\ Cardinality(0..(N - 1)) = IF 0 > N - 1 THEN 0 ELSE (N - 1) - 0 + 1
    BY <2>1, FS_Interval
  <2> HIDE DEF N
  <2> QED BY <1>1, <2>2
<1>4. index \in Surjection(D, 0..(N - 1))
  BY <1>2, <1>3, FS_Injection
<1>5. \A i \in 1..N : \E n \in D : IndexOf(rows, n) = i - 1
  <2> SUFFICES ASSUME NEW i \in 1..N PROVE \E n \in D : IndexOf(rows, n) = i - 1
    OBVIOUS
  <2>1. i - 1 \in 0..(N - 1)
    BY <1>1
  <2>2. PICK n \in D : index[n] = i - 1
    BY <1>4, <2>1 DEF Surjection
  <2> QED BY <2>2
<1> DEFINE list == [i \in 1..N |-> CHOOSE n \in D : IndexOf(rows, n) = i - 1]
<1> HIDE DEF N
<1>6. \A i \in 1..N : list[i] \in D /\ IndexOf(rows, list[i]) = i - 1
  BY <1>5
<1>7. list \in [1..N -> D]
  BY <1>6
<1>8. \A i, j \in 1..N : i < j => Before(rows, list[i], list[j])
  <2> SUFFICES ASSUME NEW i \in 1..N, NEW j \in 1..N, i < j PROVE Before(rows, list[i], list[j])
    OBVIOUS
  <2>1. IndexOf(rows, list[i]) < IndexOf(rows, list[j])
    BY <1>6, <1>1
  <2> QED BY <1>6, <2>1, IndexIsOrder
<1> HIDE DEF list
<1>9. IsInOrder(rows, list)
  BY <1>7, <1>8 DEF IsInOrder, N
<1> QED BY <1>9

\* InOrder lists the rows by their indices.
LEMMA InOrderLists ==
  ASSUME NEW rows, IsRows(rows)
  PROVE  /\ InOrder(rows) \in [1..Cardinality(DOMAIN rows) -> DOMAIN rows]
         /\ \A i \in 1..Cardinality(DOMAIN rows) : IndexOf(rows, InOrder(rows)[i]) = i - 1
         /\ \A n \in DOMAIN rows : /\ IndexOf(rows, n) + 1 \in 1..Cardinality(DOMAIN rows)
                                   /\ InOrder(rows)[IndexOf(rows, n) + 1] = n
<1> DEFINE N == Cardinality(DOMAIN rows)
           L == InOrder(rows)
<1>1. IsInOrder(rows, L)
  <2>1. PICK list : IsInOrder(rows, list)
    BY ListExists
  <2>2. \E l \in [1..N -> DOMAIN rows] :
           \A i, j \in DOMAIN l : i < j => Before(rows, l[i], l[j])
    BY <2>1 DEF IsInOrder
  <2> QED BY <2>2 DEF IsInOrder, InOrder
<1>2. /\ N \in Nat /\ L \in [1..N -> DOMAIN rows]
      /\ \A i, j \in 1..N : i < j => Before(rows, L[i], L[j])
  BY <1>1, IndexIsOrder DEF IsInOrder
<1> DEFINE at(i) == IndexOf(rows, L[i])
<1> HIDE DEF L, N
<1>3. \A i \in 1..N : at(i) \in 0..(N - 1)
  BY <1>2, IndexIsOrder DEF N
<1>4. \A i, j \in 1..N : i < j => at(i) < at(j)
  BY <1>2, IndexIsOrder
<1> HIDE DEF at
<1>5. \A i \in 1..N : at(i) >= i - 1
  <2> DEFINE Good == {k \in 0..N : k > 0 => at(k) >= k - 1}
  <2>1. 0 \in Good
    BY <1>2
  <2>2. ASSUME NEW k \in 1..N, k - 1 \in Good PROVE k \in Good
    <3>1. CASE k = 1
      BY <1>2, <1>3, <3>1
    <3>2. CASE k # 1
      <4>1. k - 1 \in 1..N /\ at(k - 1) >= (k - 1) - 1 /\ at(k - 1) < at(k)
        BY <1>2, <1>4, <2>2, <3>2
      <4>2. at(k - 1) \in Int /\ at(k) \in Int
        BY <1>2, <1>3, <4>1
      <4> QED BY <1>2, <4>1, <4>2
    <3> QED BY <3>1, <3>2
  <2> HIDE DEF Good
  <2>3. \A k \in 0..N : k \in Good
    BY <1>2, <2>1, <2>2, UpTo
  <2> QED BY <2>3, <1>2 DEF Good
<1>6. \A i \in 1..N : at(i) <= i - 1
  <2> DEFINE Good == {k \in 0..N : k < N => at(N - k) <= (N - k) - 1}
  <2>1. 0 \in Good
    BY <1>2, <1>3
  <2>2. ASSUME NEW k \in 1..N, k - 1 \in Good PROVE k \in Good
    <3>1. CASE k = N
      BY <1>2, <3>1
    <3>2. CASE k # N
      <4>1. N - k \in 1..N /\ N - (k - 1) \in 1..N /\ N - k < N - (k - 1)
        BY <1>2, <3>2
      <4>2. at(N - (k - 1)) <= (N - (k - 1)) - 1 /\ at(N - k) < at(N - (k - 1))
        BY <1>2, <1>4, <2>2, <3>2, <4>1
      <4>3. at(N - (k - 1)) \in Int /\ at(N - k) \in Int
        BY <1>2, <1>3, <4>1
      <4>4. at(N - k) <= (N - k) - 1
        BY <1>2, <4>2, <4>3
      <4> QED BY <1>2, <4>4
    <3> QED BY <3>1, <3>2
  <2> HIDE DEF Good
  <2>3. \A k \in 0..N : k \in Good
    BY <1>2, <2>1, <2>2, UpTo
  <2>4. ASSUME NEW i \in 1..N PROVE at(i) <= i - 1
    <3>1. N - i \in 0..N /\ N - i < N /\ N - (N - i) = i
      BY <1>2
    <3>2. at(N - (N - i)) <= (N - (N - i)) - 1
      BY <2>3, <3>1 DEF Good
    <3> QED BY <3>1, <3>2
  <2> QED BY <2>4
<1>7. \A i \in 1..N : at(i) = i - 1
  BY <1>2, <1>3, <1>5, <1>6
<1>8. ASSUME NEW n \in DOMAIN rows
      PROVE  IndexOf(rows, n) + 1 \in 1..N /\ L[IndexOf(rows, n) + 1] = n
  <2>1. IndexOf(rows, n) \in 0..(N - 1)
    BY IndexIsOrder DEF N
  <2>2. IndexOf(rows, n) + 1 \in 1..N
    BY <1>2, <2>1
  <2>3. at(IndexOf(rows, n) + 1) = IndexOf(rows, n) /\ L[IndexOf(rows, n) + 1] \in DOMAIN rows
    BY <1>2, <1>7, <2>1, <2>2
  <2> QED BY <2>2, <2>3, IndexIsOrder DEF at
<1> QED BY <1>2, <1>7, <1>8 DEF at, L, N

\* The minutes of a route: rows summed in any order, and items along the list.
MinutesAre(rows, f) ==
    AddsUp(f, DOMAIN rows, [n \in DOMAIN rows |-> MinutesOf[ItemOf(n)]], DOMAIN rows)

HasItems(rows) == \A n \in DOMAIN rows : ItemOf(n) \in Items

LEMMA MinutesAreNumbers == \A i \in Items : MinutesOf[i] \in Nat /\ MinutesOf[i] \in Int
BY ContentsAssumption

\* The total of a version's rows is their sum, whatever order it is taken in.
LEMMA TotalAddsUp ==
  ASSUME NEW rows, IsRows(rows), HasItems(rows), NEW f, MinutesAre(rows, f)
  PROVE  TotalMinutes(rows) = f[DOMAIN rows]
<1> DEFINE D == DOMAIN rows
           W == [n \in D |-> MinutesOf[ItemOf(n)]]
           next(it) == [s \in SUBSET D |->
                          IF s = {} THEN 0
                          ELSE LET x == CHOOSE x \in s : TRUE IN MinutesOf[ItemOf(x)] + it[s \ {x}]]
           it == CHOOSE g : g = next(g)
<1>1. W \in [D -> Int] /\ IsFiniteSet(D)
  BY MinutesAreNumbers DEF IsRows, HasItems
<1>2. TotalMinutes(rows) = it[D]
  BY DEF TotalMinutes, MapThenSumSet, MapThenFoldSet
<1>3. f = next(f)
  <2>1. f = [s \in SUBSET D |-> f[s]]
    BY DEF MinutesAre, AddsUp
  <2>2. ASSUME NEW s \in SUBSET D PROVE f[s] = next(f)[s]
    <3>1. CASE s = {}
      BY <3>1 DEF MinutesAre, AddsUp
    <3>2. CASE s # {}
      <4> DEFINE x == CHOOSE x \in s : TRUE
      <4>1. x \in s
        BY <3>2
      <4>2. f[s] = f[s \ {x}] + (IF x \in D THEN W[x] ELSE 0)
        BY <4>1 DEF MinutesAre, AddsUp
      <4>3. next(f)[s] = MinutesOf[ItemOf(x)] + f[s \ {x}]
        BY <3>2
      <4>4. W[x] = MinutesOf[ItemOf(x)] /\ W[x] \in Int /\ x \in D
        BY <1>1, <4>1
      <4>5. f[s \ {x}] \in Int
        BY <4>1 DEF MinutesAre, AddsUp
      <4> HIDE DEF x, next, W
      <4> QED BY <4>2, <4>3, <4>4, <4>5
    <3> QED BY <3>1, <3>2
  <2>3. next(f) = [s \in SUBSET D |-> next(f)[s]]
    OBVIOUS
  <2> HIDE DEF next
  <2> QED BY <2>1, <2>2, <2>3
<1>4. it = next(it)
  <2> HIDE DEF next
  <2> QED BY <1>3
<1> HIDE DEF it
<1>5. it[{}] = 0
  BY <1>4
<1>6. ASSUME NEW s \in SUBSET D, s # {} PROVE \E x \in s : it[s] = W[x] + it[s \ {x}]
  <2> DEFINE x == CHOOSE x \in s : TRUE
  <2>1. x \in s
    BY <1>6
  <2>2. it[s] = MinutesOf[ItemOf(x)] + it[s \ {x}]
    BY <1>4, <1>6
  <2>3. W[x] = MinutesOf[ItemOf(x)]
    BY <2>1
  <2> HIDE DEF x
  <2> QED BY <2>1, <2>2, <2>3
<1>7. AddsUp(f, D, W, D)
  BY DEF MinutesAre
<1> HIDE DEF W
<1>8. it[D] = f[D]
  <2>1. AddsOneByOne(it, D, W)
    BY <1>5, <1>6 DEF AddsOneByOne
  <2> HIDE DEF D
  <2> QED BY <1>1, <1>7, <2>1, SumIsUnique
<1> QED BY <1>2, <1>8

\* A set of numbers up to a bound has a largest one.
LEMMA LargestExists ==
  ASSUME NEW N \in Nat, NEW s \in SUBSET (1..N), s # {}
  PROVE  \E x \in s : \A z \in s : x >= z
<1> DEFINE gaps == {N - x : x \in s}
<1>1. gaps \subseteq Nat /\ gaps # {}
  <2>1. \A x \in s : N - x \in Nat
    OBVIOUS
  <2> QED BY <2>1
<1>2. \E y \in gaps : \A z \in gaps : ~(<<z, y>> \in OpToRel(<, Nat))
  <2> HIDE DEF gaps
  <2> QED BY <1>1, NatLessThanWellFounded, WFMin
<1>3. PICK y \in gaps : \A z \in gaps : ~(<<z, y>> \in OpToRel(<, Nat))
  BY <1>2
<1>4. \A z \in gaps : y <= z
  <2> HIDE DEF gaps
  <2>1. \A a, b \in Nat : ~(<<a, b>> \in OpToRel(<, Nat)) => b <= a
    BY DEF OpToRel
  <2>2. y \in Nat /\ \A z \in gaps : z \in Nat
    BY <1>1
  <2> QED BY <1>3, <2>1, <2>2
<1>5. PICK x \in s : y = N - x
  OBVIOUS
<1>6. ASSUME NEW z \in s PROVE x >= z
  <2>1. y <= N - z
    BY <1>4
  <2>2. z \in 1..N /\ x \in 1..N
    OBVIOUS
  <2> HIDE DEF gaps
  <2> QED BY <1>5, <2>1, <2>2
<1> QED BY <1>6

\* The total of a list of items is the sum over its places.
LEMMA AlongAddsUp ==
  ASSUME NEW N \in Nat, NEW route \in [1..N -> Items], NEW f,
         AddsUp(f, 1..N, [i \in 1..N |-> MinutesOf[route[i]]], 1..N)
  PROVE  FoldLeft(LAMBDA sum, i : sum + MinutesOf[i], 0, route) = f[1..N]
<1> DEFINE D == 1..N
           W == [i \in D |-> MinutesOf[route[i]]]
           next(it) == [s \in SUBSET D |->
                          IF s = {} THEN 0
                          ELSE LET x == Max(s) IN it[s \ {x}] + MinutesOf[route[x]]]
           it == CHOOSE g : g = next(g)
<1>1. W \in [D -> Int] /\ IsFiniteSet(D)
  <2>1. \A i \in D : route[i] \in Items /\ MinutesOf[route[i]] \in Int
    BY MinutesAreNumbers
  <2>2. IsFiniteSet(D)
    BY FS_Interval
  <2> QED BY <2>1, <2>2
<1>2. FoldLeft(LAMBDA sum, i : sum + MinutesOf[i], 0, route) = it[D]
  BY DEF FoldLeft, MapThenFoldSet
<1>0. ASSUME NEW s \in SUBSET D, s # {} PROVE Max(s) \in s
  BY <1>0, LargestExists DEF Max
<1>3. f = next(f)
  <2>1. f = [s \in SUBSET D |-> f[s]]
    BY DEF AddsUp
  <2>2. ASSUME NEW s \in SUBSET D PROVE f[s] = next(f)[s]
    <3>1. CASE s = {}
      BY <3>1 DEF AddsUp
    <3>2. CASE s # {}
      <4> DEFINE x == Max(s)
      <4>1. x \in s
        BY <1>0, <3>2
      <4>2. f[s] = f[s \ {x}] + (IF x \in D THEN W[x] ELSE 0)
        BY <4>1 DEF AddsUp
      <4>3. next(f)[s] = f[s \ {x}] + MinutesOf[route[x]]
        BY <3>2
      <4>4. W[x] = MinutesOf[route[x]] /\ x \in D
        BY <1>1, <4>1
      <4> HIDE DEF x, next, W
      <4> QED BY <4>2, <4>3, <4>4
    <3> QED BY <3>1, <3>2
  <2>3. next(f) = [s \in SUBSET D |-> next(f)[s]]
    OBVIOUS
  <2> HIDE DEF next
  <2> QED BY <2>1, <2>2, <2>3
<1>4. it = next(it)
  <2> HIDE DEF next
  <2> QED BY <1>3
<1> HIDE DEF it
<1>5. it[{}] = 0
  BY <1>4
<1>6. ASSUME NEW s \in SUBSET D, s # {} PROVE \E x \in s : it[s] = it[s \ {x}] + W[x]
  <2> DEFINE x == Max(s)
  <2>1. x \in s
    BY <1>0, <1>6
  <2>2. it[s] = it[s \ {x}] + MinutesOf[route[x]]
    BY <1>4, <1>6
  <2>3. W[x] = MinutesOf[route[x]]
    BY <2>1
  <2> HIDE DEF x
  <2> QED BY <2>1, <2>2, <2>3
<1>7. AddsUp(f, D, W, D)
  OBVIOUS
<1> HIDE DEF W
<1>8. it[D] = f[D]
  <2>1. AddsOneByOne(it, D, W)
    BY <1>5, <1>6 DEF AddsOneByOne
  <2> HIDE DEF D
  <2> QED BY <1>1, <1>7, <2>1, SumIsUnique
<1> QED BY <1>2, <1>8

\* What the checks count and what the class spends is the same time.
LEMMA MinutesAlong ==
  ASSUME NEW rows, IsRows(rows), HasItems(rows)
  PROVE  FoldLeft(LAMBDA sum, i : sum + MinutesOf[i], 0, ItemsInOrder(rows)) = TotalMinutes(rows)
<1> DEFINE D == DOMAIN rows
           N == Cardinality(D)
           L == InOrder(rows)
           W == [n \in D |-> MinutesOf[ItemOf(n)]]
           V == [i \in 1..N |-> MinutesOf[ItemsInOrder(rows)[i]]]
<1>1. /\ N \in Nat /\ L \in [1..N -> D]
      /\ \A i \in 1..N : IndexOf(rows, L[i]) = i - 1
      /\ \A n \in D : IndexOf(rows, n) + 1 \in 1..N /\ L[IndexOf(rows, n) + 1] = n
  BY InOrderLists, IndexIsOrder
<1>2. /\ ItemsInOrder(rows) \in [1..N -> Items]
      /\ \A i \in 1..N : ItemsInOrder(rows)[i] = ItemOf(L[i])
  BY <1>1 DEF ItemsInOrder, HasItems
<1>3. W \in [D -> Int] /\ V \in [1..N -> Int] /\ IsFiniteSet(D) /\ IsFiniteSet(1..N)
  <2>1. W \in [D -> Int]
    BY MinutesAreNumbers DEF HasItems
  <2>2. V \in [1..N -> Int]
    <3>1. \A i \in 1..N : MinutesOf[ItemsInOrder(rows)[i]] \in Int
      BY <1>2, MinutesAreNumbers
    <3> QED BY <3>1
  <2> QED BY <1>1, <2>1, <2>2, FS_Interval DEF IsRows
<1>4. \A i \in 1..N : V[i] = W[L[i]] /\ V[i] \in Int
  BY <1>1, <1>2, <1>3
<1>5. PICK f : AddsUp(f, D, W, D)
  BY <1>3, SumExists
<1>6. PICK g : AddsUp(g, 1..N, V, 1..N)
  BY <1>3, SumExists
<1>7. TotalMinutes(rows) = f[D]
  BY <1>5, TotalAddsUp DEF MinutesAre
<1>8. FoldLeft(LAMBDA sum, i : sum + MinutesOf[i], 0, ItemsInOrder(rows)) = g[1..N]
  BY <1>1, <1>2, <1>6, AlongAddsUp
<1>9. \A i, j \in 1..N : L[i] = L[j] => i = j
  BY <1>1
<1> DEFINE First(k) == {L[i] : i \in 1..k}
           Good == {k \in 0..N : f[First(k)] = g[1..k]}
<1> HIDE DEF W, V, N, L
<1>10. 0 \in Good
  <2>1. First(0) = {} /\ 1..0 = {}
    OBVIOUS
  <2>2. f[{}] = 0 /\ g[{}] = 0
    BY <1>5, <1>6 DEF AddsUp
  <2>3. f[First(0)] = g[1..0]
    BY <2>1, <2>2
  <2> HIDE DEF First
  <2> QED BY <1>1, <2>3
<1>11. ASSUME NEW k \in 1..N, k - 1 \in Good
       PROVE  k \in Good
  <2>1. First(k) \ {L[k]} = First(k - 1)
    <3>1. ASSUME NEW n \in First(k) \ {L[k]}
          PROVE  n \in First(k - 1)
      <4>1. PICK i \in 1..k : n = L[i]
        OBVIOUS
      <4>2. i \in 1..(k - 1)
        BY <1>1, <4>1
      <4> QED BY <4>1, <4>2
    <3>2. ASSUME NEW n \in First(k - 1)
          PROVE  n \in First(k) \ {L[k]}
      <4>1. PICK i \in 1..(k - 1) : n = L[i]
        OBVIOUS
      <4>2. i \in 1..k /\ i \in 1..N /\ i # k
        BY <1>1
      <4> QED BY <1>9, <4>1, <4>2
    <3> QED BY <3>1, <3>2
  <2>2. (1..k) \ {k} = 1..(k - 1)
    BY <1>1, ShorterRange
  <2>3. First(k) \in SUBSET D /\ L[k] \in First(k) /\ L[k] \in D
    BY <1>1
  <2>4. 1..k \in SUBSET (1..N) /\ k \in 1..k /\ k \in 1..N
    BY <1>1
  <2> HIDE DEF First, D
  <2>5. f[First(k)] = f[First(k) \ {L[k]}] + W[L[k]]
    BY <1>5, <2>3 DEF AddsUp
  <2>6. g[1..k] = g[(1..k) \ {k}] + V[k]
    BY <1>6, <2>4 DEF AddsUp
  <2>7. f[First(k - 1)] = g[1..(k - 1)]
    BY <1>11
  <2>8. f[First(k)] = g[1..k]
    BY <1>4, <2>1, <2>2, <2>3, <2>4, <2>5, <2>6, <2>7
  <2> QED BY <2>8
<1>12. N \in Good
  <2> HIDE DEF Good
  <2>1. \A k \in 0..N : k \in Good
    BY <1>1, <1>10, <1>11, UpTo
  <2> QED BY <2>1, <1>1
<1>13. First(N) = D
  BY <1>1
<1> QED BY <1>7, <1>8, <1>12, <1>13

-----------------------------------------------------------------------------
(* A route that passes the checks can be taught as it is.                  *)

\* A row made from an item is of that item.
LEMMA ItemIsItsOwn == \A i \in Items : ItemOf(i) = i
<1>1. ASSUME NEW i \in 0 .. (ItemLimit - 1) PROVE i % ItemLimit = i
  BY ContentsAssumption
<1> QED BY <1>1, ContentsAssumption DEF ItemOf

\* Position i of the list holds the row with index i - 1.
LEMMA RouteIsList ==
  ASSUME NEW rows, IsRows(rows), HasItems(rows), NEW N, N = Cardinality(DOMAIN rows),
         NEW L, L = InOrder(rows), NEW route, route = ItemsInOrder(rows)
  PROVE  /\ N \in Nat
         /\ L \in [1..N -> DOMAIN rows] /\ route \in [1..N -> Items]
         /\ \A i \in 1..N : /\ IndexOf(rows, L[i]) = i - 1
                            /\ route[i] = ItemOf(L[i])
                            /\ IsLesson(route[i]) <=> IsLesson(L[i])
                            /\ IsCheckpoint(route[i]) <=> IsCheckpoint(L[i])
         /\ \A n \in DOMAIN rows : \E i \in 1..N : n = L[i]
         /\ \A i, j \in 1..N : Before(rows, L[i], L[j]) <=> i < j
<1>1. /\ N \in Nat /\ L \in [1..N -> DOMAIN rows]
      /\ \A i \in 1..N : IndexOf(rows, L[i]) = i - 1
      /\ \A n \in DOMAIN rows : IndexOf(rows, n) + 1 \in 1..N /\ L[IndexOf(rows, n) + 1] = n
  BY InOrderLists, IndexIsOrder
<1>2. route \in [1..N -> Items] /\ \A i \in 1..N : route[i] = ItemOf(L[i])
  BY <1>1 DEF ItemsInOrder, HasItems
<1>3. \A i \in 1..N : ItemOf(route[i]) = ItemOf(L[i])
  BY <1>2, ItemIsItsOwn
<1>4. \A i \in 1..N : /\ IsLesson(route[i]) <=> IsLesson(L[i])
                      /\ IsCheckpoint(route[i]) <=> IsCheckpoint(L[i])
  BY <1>3 DEF IsLesson, IsCheckpoint
<1>5. \A n \in DOMAIN rows : \E i \in 1..N : n = L[i]
  BY <1>1
<1>6. \A i, j \in 1..N : Before(rows, L[i], L[j]) <=> i < j
  <2> SUFFICES ASSUME NEW i \in 1..N, NEW j \in 1..N PROVE Before(rows, L[i], L[j]) <=> i < j
    OBVIOUS
  <2>1. Before(rows, L[i], L[j]) <=> IndexOf(rows, L[i]) < IndexOf(rows, L[j])
    BY <1>1, IndexIsOrder
  <2> QED BY <1>1, <2>1
<1> QED BY <1>1, <1>2, <1>4, <1>5, <1>6

\* Without a prerequisite conflict, prerequisites come earlier in the list.
LEMMA PrerequisitesComeFirst ==
  ASSUME NEW rows, IsRows(rows), HasItems(rows), PrerequisiteGaps(rows) = {},
         NEW i \in DOMAIN ItemsInOrder(rows),
         NEW c \in ConceptsOf[ItemsInOrder(rows)[i]] \ TaughtBefore(ItemsInOrder(rows), i),
         NEW e \in StrongEdges, e.to = c
  PROVE  e.from \in TaughtBefore(ItemsInOrder(rows), i)
<1> DEFINE N == Cardinality(DOMAIN rows)
           L == InOrder(rows)
           route == ItemsInOrder(rows)
<1>1. /\ N \in Nat /\ L \in [1..N -> DOMAIN rows] /\ route \in [1..N -> Items]
      /\ \A k \in 1..N : IndexOf(rows, L[k]) = k - 1 /\ route[k] = ItemOf(L[k])
      /\ \A n \in DOMAIN rows : \E k \in 1..N : n = L[k]
  BY RouteIsList
<1> HIDE DEF N, L, route
<1>2. i \in 1..N
  BY <1>1 DEF route
<1>3. L[i] \in Covering(rows, c)
  BY <1>1, <1>2 DEF Covering, route
<1>4. ASSUME NEW n \in Covering(rows, c) PROVE IndexOf(rows, n) \in Int /\ IndexOf(rows, n) >= i - 1
  <2>1. PICK k \in 1..N : n = L[k]
    BY <1>1 DEF Covering
  <2>2. c \in ConceptsOf[route[k]]
    BY <1>1, <2>1 DEF Covering
  <2>3. ~(k \in 1..(i - 1))
    BY <2>2 DEF TaughtBefore, route
  <2> QED BY <1>1, <1>2, <2>1, <2>3
<1>5. FirstIndex(rows, c) >= i - 1 /\ FirstIndex(rows, c) <= i - 1 /\ FirstIndex(rows, c) \in Int
  <2> DEFINE indices == {IndexOf(rows, n) : n \in Covering(rows, c)}
  <2>1. i - 1 \in indices /\ \A y \in indices : i - 1 <= y /\ y \in Int
    BY <1>1, <1>2, <1>3, <1>4
  <2> HIDE DEF indices
  <2>2. Min(indices) \in indices /\ \A y \in indices : Min(indices) <= y
    BY <2>1 DEF Min
  <2>3. FirstIndex(rows, c) = Min(indices)
    BY DEF FirstIndex, indices
  <2> QED BY <1>1, <1>2, <2>1, <2>2, <2>3
<1>6. Covering(rows, e.from) # {} /\ ~(FirstIndex(rows, e.from) >= FirstIndex(rows, c))
  BY <1>3 DEF PrerequisiteGaps
<1>7. \E m \in Covering(rows, e.from) : IndexOf(rows, m) = FirstIndex(rows, e.from)
  <2> DEFINE indices == {IndexOf(rows, n) : n \in Covering(rows, e.from)}
  <2>1. indices \subseteq Nat /\ indices # {}
    <3>1. \A n \in Covering(rows, e.from) : IndexOf(rows, n) \in Nat
      <4> SUFFICES ASSUME NEW n \in Covering(rows, e.from) PROVE IndexOf(rows, n) \in Nat
        OBVIOUS
      <4>1. PICK k \in 1..N : n = L[k]
        BY <1>1 DEF Covering
      <4> QED BY <1>1, <4>1
    <3> QED BY <1>6, <3>1
  <2>2. FirstIndex(rows, e.from) = Min(indices)
    BY DEF FirstIndex
  <2>3. Min(indices) \in indices
    <3> HIDE DEF indices
    <3>1. PICK y \in indices : \A z \in indices : ~(<<z, y>> \in OpToRel(<, Nat))
      BY <2>1, NatLessThanWellFounded, WFMin
    <3>2. \A a, b \in Nat : ~(<<a, b>> \in OpToRel(<, Nat)) => b <= a
      BY DEF OpToRel
    <3>3. \A z \in indices : y <= z
      BY <2>1, <3>1, <3>2
    <3> QED BY <3>3 DEF Min
  <2> QED BY <2>2, <2>3
<1>8. PICK m \in Covering(rows, e.from) : IndexOf(rows, m) = FirstIndex(rows, e.from)
  BY <1>7
<1>9. PICK k \in 1..N : m = L[k]
  BY <1>1 DEF Covering
<1>10. k - 1 < i - 1
  BY <1>1, <1>2, <1>5, <1>6, <1>8, <1>9
<1>11. k \in 1..(i - 1)
  BY <1>1, <1>2, <1>10
<1>12. e.from \in ConceptsOf[route[k]]
  BY <1>1, <1>8, <1>9 DEF Covering
<1> QED BY <1>11, <1>12 DEF TaughtBefore, route

\* Without a streak conflict, no difficulty is repeated for too long.
LEMMA StreaksAreShort ==
  ASSUME NEW rows, IsRows(rows), HasItems(rows),
         \A n \in DOMAIN rows : IsLesson(n) => ~(Cardinality(Streak(rows, n)) > MaxNodesBetweenCheckpoints),
         NEW i \in DOMAIN ItemsInOrder(rows), NEW j \in DOMAIN ItemsInOrder(rows), i <= j,
         \A k \in i..j : ~IsCheckpoint(ItemsInOrder(rows)[k])
  PROVE  Cardinality({k \in i..j : IsLesson(ItemsInOrder(rows)[k])}) <= MaxNodesBetweenCheckpoints
<1> DEFINE N == Cardinality(DOMAIN rows)
           L == InOrder(rows)
           route == ItemsInOrder(rows)
           K == {k \in i..j : IsLesson(route[k])}
<1>1. /\ N \in Nat /\ L \in [1..N -> DOMAIN rows] /\ route \in [1..N -> Items]
      /\ \A k \in 1..N : /\ IndexOf(rows, L[k]) = k - 1
                         /\ IsLesson(route[k]) <=> IsLesson(L[k])
                         /\ IsCheckpoint(route[k]) <=> IsCheckpoint(L[k])
      /\ \A n \in DOMAIN rows : \E k \in 1..N : n = L[k]
      /\ \A k, p \in 1..N : Before(rows, L[k], L[p]) <=> k < p
  BY RouteIsList
<1>2. i \in 1..N /\ j \in 1..N
  <2> HIDE DEF N
  <2> QED BY <1>1
<1>3. MaxNodesBetweenCheckpoints \in Nat
  BY ContentsAssumption
<1> HIDE DEF N, L, route
<1>4. K \in SUBSET (1..N)
  BY <1>1, <1>2
<1>5. CASE K = {}
  BY <1>3, <1>5, FS_EmptySet DEF route
<1>6. CASE K # {}
  <2>1. PICK top \in K : \A k \in K : top >= k
    BY <1>1, <1>4, <1>6, LargestExists
  <2>2. top \in 1..N /\ top \in i..j /\ IsLesson(L[top])
    BY <1>1, <1>4, <2>1
  <2>3. ASSUME NEW k \in K PROVE L[k] \in Streak(rows, L[top])
    <3>1. k \in 1..N /\ k <= top /\ k \in i..j /\ IsLesson(L[k])
      BY <1>1, <1>4, <2>1
    <3>2. L[k] = L[top] \/ Before(rows, L[k], L[top])
      BY <1>1, <2>2, <3>1
    <3>3. ASSUME NEW c \in DOMAIN rows, IsCheckpoint(c),
                 Before(rows, L[k], c), Before(rows, c, L[top])
          PROVE  FALSE
      <4>1. PICK p \in 1..N : c = L[p]
        BY <1>1
      <4>2. k < p /\ p < top
        BY <1>1, <2>2, <3>1, <3>3, <4>1
      <4>3. p \in i..j
        <5>1. /\ i \in Int /\ j \in Int /\ k \in Int /\ p \in Int /\ top \in Int
              /\ i <= k /\ top <= j
          BY <1>1, <1>2, <2>2, <3>1
        <5> QED BY <4>2, <5>1
      <4> QED BY <1>1, <3>3, <4>1, <4>3 DEF route
    <3> QED BY <1>1, <3>1, <3>2, <3>3 DEF Streak
  <2> DEFINE f == [k \in K |-> L[k]]
             S == Streak(rows, L[top])
  <2>4. f \in Injection(K, S)
    <3>1. f \in [K -> S]
      BY <2>3
    <3>2. \A k, p \in K : f[k] = f[p] => k = p
      <4> SUFFICES ASSUME NEW k \in K, NEW p \in K, L[k] = L[p] PROVE k = p
        OBVIOUS
      <4>1. k \in 1..N /\ p \in 1..N
        BY <1>4
      <4> QED BY <1>1, <4>1
    <3> HIDE DEF f, K, S
    <3> QED BY <3>1, <3>2 DEF Injection, IsInjective
  <2>5. IsFiniteSet(S)
    <3>1. S \in SUBSET (DOMAIN rows)
      BY DEF Streak
    <3> HIDE DEF S
    <3> QED BY <3>1, FS_Subset DEF IsRows
  <2>6. IsFiniteSet(K) /\ Cardinality(K) <= Cardinality(S)
    <3> HIDE DEF f, K, S
    <3> QED BY <2>4, <2>5, FS_Injection
  <2>7. Cardinality(K) \in Int /\ Cardinality(S) \in Int
    BY <2>5, <2>6, FS_CardinalityType
  <2>8. Cardinality(S) <= MaxNodesBetweenCheckpoints
    <3>1. L[top] \in DOMAIN rows
      BY <1>1, <2>2
    <3>2. ~(Cardinality(S) > MaxNodesBetweenCheckpoints)
      BY <2>2, <3>1
    <3> QED BY <1>3, <2>7, <3>2
  <2>9. Cardinality(K) <= MaxNodesBetweenCheckpoints
    <3> HIDE DEF K, S
    <3> QED BY <1>3, <2>6, <2>7, <2>8
  <2> QED BY <2>9 DEF route
<1> QED BY <1>5, <1>6

\* Whatever the items, their concepts and minutes, the edges between concepts
\* and the class's calendar: a route without findings can be taught in its order.
THEOREM ValidRoutesCanBeTaught ==
  ASSUME NEW rows, IsRows(rows), HasItems(rows), ValidateRoute(rows) = {}
  PROVE  Teachable(rows)
<1> DEFINE codes == {"OVER_CAPACITY", "WEEKLY_OVERLOAD", "PREREQUISITE_GAP", "CHECKPOINT_GAP"}
           route == ItemsInOrder(rows)
<1>1. ~(TotalMinutes(rows) > AvailableMinutes)
  BY DEF ValidateRoute
<1>2. ~(TotalMinutes(rows) > Weeks * WeeklyMinutes)
  BY DEF ValidateRoute
<1>3. PrerequisiteGaps(rows) = {}
  BY DEF ValidateRoute
<1>4. \A n \in DOMAIN rows : IsLesson(n) => ~(Cardinality(Streak(rows, n)) > MaxNodesBetweenCheckpoints)
  BY DEF ValidateRoute
<1>5. \A i \in DOMAIN route : \A c \in ConceptsOf[route[i]] \ TaughtBefore(route, i) :
         {e.from : e \in {d \in StrongEdges : d.to = c}} \subseteq TaughtBefore(route, i)
  BY <1>3, PrerequisitesComeFirst
<1>6. FoldLeft(LAMBDA sum, i : sum + MinutesOf[i], 0, route)
         <= Min({AvailableMinutes, Weeks * WeeklyMinutes})
  <2>1. FoldLeft(LAMBDA sum, i : sum + MinutesOf[i], 0, route) = TotalMinutes(rows)
    BY MinutesAlong
  <2>2. TotalMinutes(rows) \in Int
    <3> DEFINE W == [n \in DOMAIN rows |-> MinutesOf[ItemOf(n)]]
    <3>1. W \in [DOMAIN rows -> Int]
      BY MinutesAreNumbers DEF HasItems
    <3>2. PICK f : AddsUp(f, DOMAIN rows, W, DOMAIN rows)
      <4> HIDE DEF W
      <4> QED BY <3>1, SumExists DEF IsRows
    <3>3. TotalMinutes(rows) = f[DOMAIN rows]
      BY <3>2, TotalAddsUp DEF MinutesAre
    <3> QED BY <3>2, <3>3 DEF AddsUp
  <2>3. AvailableMinutes \in Nat /\ Weeks \in Nat /\ WeeklyMinutes \in Nat
    BY ContentsAssumption
  <2>4. Weeks * WeeklyMinutes \in Nat
    BY <2>3
  <2> DEFINE limit == Weeks * WeeklyMinutes
  <2> HIDE DEF limit
  <2>5. Min({AvailableMinutes, limit}) \in {AvailableMinutes, limit}
    BY <2>3, <2>4 DEF Min, limit
  <2>6. TotalMinutes(rows) <= AvailableMinutes /\ TotalMinutes(rows) <= limit
    <3>1. ~(TotalMinutes(rows) > limit)
      BY <1>2 DEF limit
    <3>2. limit \in Nat
      BY <2>4 DEF limit
    <3> QED BY <1>1, <2>2, <2>3, <3>1, <3>2
  <2>7. TotalMinutes(rows) <= Min({AvailableMinutes, limit})
    BY <2>5, <2>6
  <2> QED BY <2>1, <2>7 DEF limit
<1>7. \A i, j \in DOMAIN route :
         i <= j /\ (\A k \in i..j : ~IsCheckpoint(route[k]))
         => Cardinality({k \in i..j : IsLesson(route[k])}) <= MaxNodesBetweenCheckpoints
  BY <1>4, StreaksAreShort
<1> HIDE DEF route
<1> QED BY <1>5, <1>6, <1>7 DEF Teachable, route

-----------------------------------------------------------------------------
(* What holds between the statements of the handlers.                      *)

\* What the variables hold: rows with their sort orders, versions, requests.
Contents == UNION {[S -> Nat] : S \in SUBSET Rows}
RowsOf(v) == {RowId(v, i) : i \in Items}

\* The steps of an edit after its form was accepted.
EditSteps == {"bump", "read", "write", "invalidate"}

RequestType ==
    [step : {"idle", "page", "conflict", "judge", "supersede", "wait", "commit", "copy"} \cup EditSteps,
     intent : Intents \cup {NoIntent},
     token : Nat,
     settled : BOOLEAN,
     page : Contents,
     ready : BOOLEAN,
     version : Versions \cup {None},
     start : Contents,
     swap : Contents,
     olds : SUBSET Versions]

\* The plan, its versions and their rows; a version has its own rows only.
PlanTyped ==
    /\ lock \in Nat
    /\ active \in Versions \cup {None}
    /\ status \in [Versions -> {"absent", "draft", "needs_fix", "publishable", "published", "superseded"}]
    /\ DOMAIN report = Versions /\ DOMAIN blank = Versions /\ DOMAIN frozen = Versions
    /\ nodes \in [Versions -> Contents]
    /\ \A v \in Versions : DOMAIN nodes[v] \subseteq RowsOf(v)
    /\ DOMAIN slips = Versions

AtEdit(r) == request[r].step \in EditSteps /\ IsEdit(request[r].intent)

\* What a request carries from one of its statements to the next.
Coherent(q) ==
    /\ q.step \in {"idle", "page"} => q.intent = NoIntent
    /\ q.step \in {"bump", "read", "conflict"} => q.intent \in Intents
    /\ q.step \in {"write", "invalidate"} => IsEdit(q.intent)
    /\ q.step \in {"judge", "supersede", "wait", "commit", "copy"} =>
          ~IsEdit(q.intent) /\ q.version \in Versions
    /\ q.step \in EditSteps /\ IsEdit(q.intent) => q.version \in Versions

RequestsTyped ==
    /\ request \in [Requests -> RequestType]
    /\ \A r \in Requests : Coherent(request[r])

\* No form carries a token that was not given out yet, and an accepted edit spent its own.
TokensPast ==
    \A r \in Requests :
        /\ request[r].token <= lock
        /\ request[r].step \in {"read", "write", "invalidate"} => request[r].token < lock

\* Requests work on versions that are there; what was published has its
\* contents on record.
Known ==
    /\ \E v \in Versions : status[v] # "absent"
    /\ active # None => status[active] # "absent"
    /\ \A v \in Versions : /\ status[v] = "absent" => frozen[v] = {}
                           /\ status[v] \in {"published", "superseded"} => frozen[v] # {}
    /\ \A r \in Requests :
          /\ request[r].version # None => status[request[r].version] # "absent"
          /\ \A v \in request[r].olds : frozen[v] # {}

\* A version can only be published with the contents that passed, as its edits
\* withdraw the verdict before they end; a published one stays as it was, as no
\* edit of it is left.
Verdict(v) ==
    /\ status[v] = "publishable" =>
          /\ report[v].ok
          /\ ValidateRoute(report[v].on) = {}
          /\ \/ report[v].on = nodes[v]
             \/ \E q \in Requests : request[q].step = "invalidate" /\ request[q].version = v
    /\ frozen[v] # {} =>
          /\ status[v] \in {"published", "superseded"}
          /\ frozen[v] = {nodes[v]}
          /\ report[v].ok /\ report[v].on = nodes[v]
          /\ ValidateRoute(nodes[v]) = {}
          /\ \A q \in Requests : ~Editing(q, v)

\* No race was lost that PublishedAsValidated excepts.
Sound(v) == slips[v] \cap {"cut off", "outdated", "overruled", "edited", "withdrawn"} = {}
VerdictsStand == \A v \in Versions : Sound(v) => Verdict(v)

\* One version is published, one edited; who publishes the one that is edited
\* supersedes the one that is published.
OneOfEach ==
    /\ {v \in Versions : status[v] = "published"} = {active} \ {None}
    /\ \A v, w \in Editable : v = w
    /\ \A r \in Requests :
          request[r].step \in {"wait", "commit"} /\ request[r].version \in Editable =>
              request[r].olds = Superseded

\* No race was lost that ActiveIsPublished excepts.
Alone == \A v \in Versions : slips[v] \cap {"overruled", "republished", "second"} = {}

\* As long as the token of a page that was read undisturbed is the latest, the
\* draft is still the one it shows: nobody is where it could be changed.
Shown(r) ==
    /\ DraftVersion # None
    /\ \A q \in Requests \ {r} :
          /\ request[q].step \in Screens \cup {"bump", "judge"}
          /\ request[q].step = "judge" => request[q].version = DraftVersion
    /\ request[r].step \in {"page", "bump"} => request[r].page = DraftNodes
    /\ request[r].step \in {"conflict", "bump"} => request[r].start = DraftNodes
    /\ request[r].step = "bump" => request[r].version = DraftVersion
Calm(r) ==
    request[r].settled /\ request[r].token = lock /\ request[r].step \in {"page", "conflict", "bump"} => Shown(r)

\* An item to add is new to the rows the edit started from.
AddsAreNew ==
    \A r \in Requests :
        request[r].intent.op = "add" /\ request[r].step \in {"bump", "write"} =>
            \A n \in DOMAIN request[r].start : ItemOf(n) # request[r].intent.node

\* An accepted edit: about to write rows of its version, or past it.
AtRows(q) == IsEdit(request[q].intent) /\ request[q].step \in {"read", "write", "invalidate"}

\* An edit made on such a page finds the rows as they were shown, unless another
\* increment has followed, and leaves what its preview says.
Foreseen(r) ==
    LET v == request[r].version
        intent == request[r].intent
    IN  /\ \A q \in Requests \ {r} : ~AtRows(q)
        /\ request[r].step \in {"read", "write"} => request[r].start = nodes[v]
        /\ request[r].step = "write" /\ intent.op = "move" =>
              \E m \in Neighbours(nodes[v], intent.node, intent.direction) :
                 request[r].swap = Swapped([k \in {m, intent.node} |-> nodes[v][k]], m, intent.node)
        /\ request[r].step = "invalidate" /\ IsInjective(request[r].start) =>
              /\ ItemsInOrder(nodes[v]) = ItemsInOrder(ApplyIntent(request[r].start, intent))
              /\ ReapplyPossible(request[r].start, intent)
Undisturbed(r) ==
    /\ request[r].settled /\ lock = request[r].token + 1
    /\ request[r].step \in {"read", "write", "invalidate"} /\ IsEdit(request[r].intent)
Previewed(r) == Undisturbed(r) => Foreseen(r)

RouteInv ==
    /\ PlanTyped /\ RequestsTyped /\ TokensPast /\ Known
    /\ VerdictsStand
    /\ Alone => OneOfEach
    /\ AddsAreNew
    /\ \A r \in Requests : Calm(r) /\ Previewed(r)

LEMMA RowsFinite == Rows \subseteq Nat /\ IsFiniteSet(Rows)
<1>1. ASSUME NEW v \in Versions, NEW i \in Items
      PROVE  RowId(v, i) \in 0 .. (ItemLimit * MaxVersions + ItemLimit)
  <2>1. v \in 1..MaxVersions /\ MaxVersions \in Nat /\ i \in 0 .. (ItemLimit - 1) /\ ItemLimit \in Nat
    BY BuilderAssumption, ContentsAssumption DEF Versions
  <2>2. ItemLimit * v <= ItemLimit * MaxVersions /\ ItemLimit * v \in Nat /\ ItemLimit * MaxVersions \in Nat
    BY <2>1
  <2> QED BY <2>1, <2>2 DEF RowId
<1> DEFINE last == ItemLimit * MaxVersions + ItemLimit
<1>2. Rows \subseteq 0..last
  BY <1>1 DEF Rows
<1>3. last \in Nat
  BY BuilderAssumption, ContentsAssumption
<1> HIDE DEF last
<1>4. IsFiniteSet(0..last)
  BY <1>3, FS_Interval
<1>5. 0..last \subseteq Nat
  BY <1>3
<1>6. IsFiniteSet(Rows)
  BY <1>2, <1>4, FS_Subset
<1> QED BY <1>2, <1>5, <1>6

\* A row's id tells its version and its item.
LEMMA RowIds ==
  ASSUME NEW v \in Nat, NEW i \in Items
  PROVE  ItemOf(RowId(v, i)) = i /\ RowId(v, i) \in Nat
<1>1. i \in 0 .. (ItemLimit - 1) /\ ItemLimit \in Nat \ {0}
  BY ContentsAssumption
<1>2. (ItemLimit * v + i) % ItemLimit = i /\ ItemLimit * v + i \in Nat
  BY <1>1
<1> QED BY <1>2 DEF ItemOf, RowId

LEMMA ContentsAreRows ==
  ASSUME NEW rows
  PROVE  /\ rows \in Contents <=> DOMAIN rows \in SUBSET Rows /\ rows \in [DOMAIN rows -> Nat]
         /\ rows \in Contents => IsRows(rows) /\ HasItems(rows)
<1>1. rows \in Contents <=> DOMAIN rows \in SUBSET Rows /\ rows \in [DOMAIN rows -> Nat]
  BY DEF Contents
<1>2. ASSUME rows \in Contents PROVE IsRows(rows)
  <2>1. DOMAIN rows \subseteq Rows /\ rows \in [DOMAIN rows -> Nat]
    BY <1>1, <1>2
  <2>2. IsFiniteSet(DOMAIN rows) /\ DOMAIN rows \subseteq Nat
    BY <2>1, RowsFinite, FS_Subset
  <2>3. rows \in [DOMAIN rows -> Int]
    BY <2>1
  <2> QED BY <2>2, <2>3 DEF IsRows
<1>3. ASSUME rows \in Contents PROVE HasItems(rows)
  <2>1. \A n \in Rows : ItemOf(n) \in Items
    BY RowIds, BuilderAssumption DEF Rows, Versions
  <2> QED BY <1>1, <1>3, <2>1 DEF HasItems
<1> QED BY <1>1, <1>2, <1>3

LEMMA EmptyIsContents == Empty \in Contents /\ DOMAIN Empty = {}
BY ContentsAreRows DEF Empty

\* The last row of the list has the greatest sort order.
LEMMA LastIsGreatest ==
  ASSUME NEW rows, IsRows(rows), \A n \in DOMAIN rows : rows[n] \in Nat
  PROVE  LastOrder(rows) \in Nat /\ \A n \in DOMAIN rows : rows[n] <= LastOrder(rows)
<1> DEFINE N == Cardinality(DOMAIN rows)
           L == InOrder(rows)
           orders == {0} \cup {rows[n] : n \in DOMAIN rows}
<1>1. \E x \in orders : \A y \in orders : x >= y
  <2>1. CASE DOMAIN rows = {}
    BY <2>1
  <2>2. CASE DOMAIN rows # {}
    <3>1. /\ N \in Nat /\ L \in [1..N -> DOMAIN rows]
          /\ \A n \in DOMAIN rows : IndexOf(rows, n) + 1 \in 1..N /\ L[IndexOf(rows, n) + 1] = n
          /\ \A i \in 1..N : IndexOf(rows, L[i]) = i - 1
      BY InOrderLists, IndexIsOrder
    <3> HIDE DEF L, N
    <3>2. N \in 1..N /\ L[N] \in DOMAIN rows /\ IndexOf(rows, L[N]) = N - 1
      BY <3>1, <2>2
    <3>3. ASSUME NEW n \in DOMAIN rows PROVE rows[n] <= rows[L[N]]
      <4>1. IndexOf(rows, n) + 1 \in 1..N
        BY <3>1
      <4>2. IndexOf(rows, n) \in Int
        BY IndexIsOrder
      <4>3. ~(IndexOf(rows, L[N]) < IndexOf(rows, n))
        BY <3>1, <3>2, <4>1, <4>2
      <4>4. ~Before(rows, L[N], n)
        BY <3>2, <4>3, IndexIsOrder
      <4> QED BY <3>2, <4>4 DEF Before
    <3>4. \A y \in orders : rows[L[N]] >= y
      BY <3>2, <3>3
    <3> QED BY <3>2, <3>4
  <2> QED BY <2>1, <2>2
<1>2. orders \subseteq Nat
  OBVIOUS
<1>3. LastOrder(rows) = Max(orders)
  BY DEF LastOrder
<1>4. Max(orders) \in orders /\ \A y \in orders : Max(orders) >= y
  <2> HIDE DEF orders
  <2> QED BY <1>1 DEF Max
<1>5. \A n \in DOMAIN rows : rows[n] \in orders
  OBVIOUS
<1> HIDE DEF orders
<1> QED BY <1>2, <1>3, <1>4, <1>5

\* The draft is an editable version, if there is one.
LEMMA DraftIsEditable ==
  /\ Editable # {} => DraftVersion \in Editable /\ DraftNodes = nodes[DraftVersion]
  /\ Editable = {} => DraftVersion = None /\ DraftNodes = Empty
  /\ None \notin Versions
<1>1. ASSUME Editable # {} PROVE DraftVersion \in Editable
  <2>1. Editable \in SUBSET (1..MaxVersions) /\ MaxVersions \in Nat
    BY BuilderAssumption DEF Editable, Versions
  <2>2. \E x \in Editable : \A z \in Editable : x >= z
    BY <1>1, <2>1, LargestExists
  <2>3. Max(Editable) \in Editable
    BY <2>2 DEF Max
  <2> QED BY <1>1, <2>3 DEF DraftVersion
<1>2. None \notin Versions
  BY BuilderAssumption DEF None, Versions
<1>3. \A v \in Editable : v \in Versions
  BY DEF Editable
<1>4. Editable = {} => DraftVersion = None
  BY DEF DraftVersion
<1> QED BY <1>1, <1>2, <1>3, <1>4 DEF DraftNodes

LEMMA DraftTyped ==
  ASSUME PlanTyped
  PROVE  DraftNodes \in Contents /\ DraftVersion \in Versions \cup {None}
<1>1. CASE Editable = {}
  BY <1>1, DraftIsEditable, EmptyIsContents
<1>2. CASE Editable # {}
  BY <1>2, DraftIsEditable DEF PlanTyped, Editable
<1> QED BY <1>1, <1>2

-----------------------------------------------------------------------------
(* Rows, versions and requests stay what they are.                         *)

\* What an edit may make of a version's rows.
LEMMA AddedRows ==
  ASSUME NEW rows \in Contents, NEW v \in Versions, DOMAIN rows \subseteq RowsOf(v), NEW i \in Items
  PROVE  /\ Added(rows, RowId(v, i)) \in Contents
         /\ DOMAIN Added(rows, RowId(v, i)) = DOMAIN rows \cup {RowId(v, i)}
         /\ DOMAIN Added(rows, RowId(v, i)) \subseteq RowsOf(v)
<1>1. IsRows(rows) /\ DOMAIN rows \in SUBSET Rows /\ rows \in [DOMAIN rows -> Nat]
  BY ContentsAreRows
<1>2. LastOrder(rows) + 1 \in Nat
  BY <1>1, LastIsGreatest
<1>3. RowId(v, i) \in Rows /\ RowId(v, i) \in RowsOf(v)
  BY DEF Rows, RowsOf
<1> DEFINE new == Added(rows, RowId(v, i))
<1>4. new \in [DOMAIN rows \cup {RowId(v, i)} -> Nat]
  BY <1>1, <1>2 DEF Added
<1> HIDE DEF new
<1>5. DOMAIN new = DOMAIN rows \cup {RowId(v, i)} /\ DOMAIN new \in SUBSET Rows /\ new \in [DOMAIN new -> Nat]
  BY <1>1, <1>3, <1>4
<1>6. new \in Contents
  BY <1>5, ContentsAreRows
<1> QED BY <1>3, <1>5, <1>6 DEF new

\* Deleting a row leaves the others.
LEMMA RemovedRows ==
  ASSUME NEW rows \in Contents, NEW n
  PROVE  Removed(rows, n) \in Contents /\ DOMAIN Removed(rows, n) = DOMAIN rows \ {n}
<1>1. DOMAIN rows \in SUBSET Rows /\ rows \in [DOMAIN rows -> Nat]
  BY ContentsAreRows
<1> DEFINE new == Removed(rows, n)
<1>2. new \in [DOMAIN rows \ {n} -> Nat]
  BY <1>1 DEF Removed
<1> HIDE DEF new
<1>3. DOMAIN new = DOMAIN rows \ {n} /\ DOMAIN new \in SUBSET Rows /\ new \in [DOMAIN new -> Nat]
  BY <1>1, <1>2
<1> QED BY <1>3, ContentsAreRows DEF new

\* The rows that change places, and what is written over them.
LEMMA SwapRows ==
  ASSUME NEW rows \in Contents, NEW m \in DOMAIN rows, NEW n \in DOMAIN rows
  PROVE  Swapped([k \in {m, n} |-> rows[k]], m, n) \in Contents
<1>1. DOMAIN rows \in SUBSET Rows /\ rows \in [DOMAIN rows -> Nat]
  BY ContentsAreRows
<1> DEFINE pair == [k \in {m, n} |-> rows[k]]
           new == Swapped(pair, m, n)
<1>2. new \in [{m, n} -> Nat]
  BY <1>1 DEF Swapped
<1> HIDE DEF new
<1>3. DOMAIN new \in SUBSET Rows /\ new \in [DOMAIN new -> Nat]
  BY <1>1, <1>2
<1> QED BY <1>3, ContentsAreRows DEF new

\* What the statements make of a version.
Overwritten(rows, swap) == [n \in DOMAIN rows |-> IF n \in DOMAIN swap THEN swap[n] ELSE rows[n]]

\* Writing sort orders leaves the rows themselves.
LEMMA OverwrittenRows ==
  ASSUME NEW rows \in Contents, NEW swap \in Contents
  PROVE  Overwritten(rows, swap) \in Contents /\ DOMAIN Overwritten(rows, swap) = DOMAIN rows
<1>1. /\ DOMAIN rows \in SUBSET Rows /\ rows \in [DOMAIN rows -> Nat]
      /\ swap \in [DOMAIN swap -> Nat]
  BY ContentsAreRows
<1> DEFINE new == Overwritten(rows, swap)
<1>2. new \in [DOMAIN rows -> Nat]
  BY <1>1 DEF Overwritten
<1> HIDE DEF new
<1>3. DOMAIN new = DOMAIN rows /\ DOMAIN new \in SUBSET Rows /\ new \in [DOMAIN new -> Nat]
  BY <1>1, <1>2
<1> QED BY <1>3, ContentsAreRows DEF new

\* The next draft has a new row for every row of the version it is copied from.
Copied(source, v, new) ==
    [n \in {RowId(new, ItemOf(m)) : m \in DOMAIN source} |-> source[RowId(v, ItemOf(n))]]

\* A new draft has the rows of its source, under its own identity.
LEMMA CopiedRows ==
  ASSUME NEW v \in Versions, NEW new \in Versions, NEW source \in Contents, DOMAIN source \subseteq RowsOf(v)
  PROVE  /\ Copied(source, v, new) \in Contents
         /\ DOMAIN Copied(source, v, new) \subseteq RowsOf(new)
         /\ \A n \in DOMAIN Copied(source, v, new) :
               /\ RowId(v, ItemOf(n)) \in DOMAIN source
               /\ Copied(source, v, new)[n] = source[RowId(v, ItemOf(n))]
               /\ n = RowId(new, ItemOf(n))
<1>1. DOMAIN source \in SUBSET Rows /\ source \in [DOMAIN source -> Nat]
  BY ContentsAreRows
<1> DEFINE copy == Copied(source, v, new)
<1>2. DOMAIN copy = {RowId(new, ItemOf(m)) : m \in DOMAIN source}
  BY DEF Copied
<1>3. v \in Nat /\ new \in Nat
  BY BuilderAssumption DEF Versions
<1>4. ASSUME NEW n \in DOMAIN copy
      PROVE  /\ n \in RowsOf(new) /\ n \in Rows
             /\ RowId(v, ItemOf(n)) \in DOMAIN source
             /\ copy[n] = source[RowId(v, ItemOf(n))]
             /\ copy[n] \in Nat
             /\ n = RowId(new, ItemOf(n))
  <2>1. PICK m \in DOMAIN source : n = RowId(new, ItemOf(m))
    BY <1>2
  <2>2. PICK i \in Items : m = RowId(v, i)
    BY DEF RowsOf
  <2>3. ItemOf(m) = i /\ ItemOf(n) = i
    BY <1>3, <2>1, <2>2, RowIds
  <2>4. RowId(v, ItemOf(n)) = m
    BY <2>2, <2>3
  <2>5. copy[n] = source[RowId(v, ItemOf(n))]
    BY <1>2 DEF Copied
  <2>6. n \in RowsOf(new) /\ n \in Rows
    BY <2>1, <2>3 DEF RowsOf, Rows
  <2>7. n = RowId(new, ItemOf(n))
    BY <2>1, <2>3
  <2>8. copy[n] \in Nat
    BY <1>1, <2>4, <2>5
  <2> QED BY <2>4, <2>5, <2>6, <2>7, <2>8
<1>5. copy = [n \in DOMAIN copy |-> copy[n]]
  BY DEF Copied
<1> HIDE DEF copy
<1>6. copy \in [DOMAIN copy -> Nat] /\ DOMAIN copy \in SUBSET Rows
  BY <1>4, <1>5
<1>7. copy \in Contents
  BY <1>6, ContentsAreRows
<1> QED BY <1>4, <1>7 DEF copy

\* The number of the next draft is not in use.
LEMMA NewVersion ==
  ASSUME NEW new, new = Max({v \in Versions : status[v] # "absent"}) + 1, new \in Versions,
         \E v \in Versions : status[v] # "absent"
  PROVE  status[new] = "absent"
<1> DEFINE used == {v \in Versions : status[v] # "absent"}
<1>1. used \in SUBSET (1..MaxVersions) /\ MaxVersions \in Nat /\ used # {}
  BY BuilderAssumption DEF Versions
<1> HIDE DEF used
<1>2. \E x \in used : \A z \in used : x >= z
  BY <1>1, LargestExists
<1>3. Max(used) \in used /\ \A z \in used : Max(used) >= z
  BY <1>2 DEF Max
<1>4. new \notin used
  BY <1>1, <1>3 DEF used
<1> QED BY <1>4 DEF used

LEMMA PlanInit == Init => PlanTyped
<1> SUFFICES ASSUME Init PROVE PlanTyped
  OBVIOUS
<1>1. 1 \in Versions
  BY BuilderAssumption DEF Versions
<1>2. nodes \in [Versions -> Contents] /\ \A v \in Versions : DOMAIN nodes[v] \subseteq RowsOf(v)
  BY EmptyIsContents DEF Init
<1> QED BY <1>1, <1>2 DEF Init, PlanTyped

\* Every step leaves versions, rows and verdicts of their types.
LEMMA PlanStep ==
  ASSUME PlanTyped, RequestsTyped, [Next]_vars
  PROVE  PlanTyped'
<1> USE DEF PlanTyped
<1>2. ASSUME NEW r \in Requests, OpenPage(r) \/ LeavePage(r) \/ Refuse(r) \/ ReadMove(r)
                              \/ ReadPublish(r) \/ Supersede(r) \/ ObtainLocks(r)
      PROVE  PlanTyped'
  BY <1>2 DEF OpenPage, LeavePage, Refuse, ReadMove, ReadPublish, Supersede, ObtainLocks, planVars
<1>3. ASSUME NEW r \in Requests, NEW intent, Submit(r, intent) PROVE PlanTyped'
  BY <1>3 DEF Submit, planVars
<1>4. ASSUME NEW r \in Requests, Reapply(r) \/ StartValidation(r) \/ StartDraft(r) PROVE PlanTyped'
  BY <1>4 DEF Reapply, StartValidation, StartDraft, planVars
<1>5. ASSUME NEW r \in Requests, Bump(r) PROVE PlanTyped'
  BY <1>5 DEF Bump, versionVars
<1>6. ASSUME NEW r \in Requests, Die(r) PROVE PlanTyped'
  BY <1>6 DEF Die, Slips, planVars
<1>7. ASSUME NEW r \in Requests, Invalidate(r) \/ Judge(r) \/ CommitPublish(r) PROVE PlanTyped'
  <2>1. CASE Invalidate(r)
    BY <2>1 DEF Invalidate
  <2>2. CASE Judge(r)
    BY <2>2 DEF Judge, Slips
  <2>3. CASE CommitPublish(r)
    <3>1. request[r].version \in Versions
      BY <2>3 DEF CommitPublish, RequestsTyped, Coherent
    <3> QED BY <2>3, <3>1 DEF CommitPublish, Slips
  <2> QED BY <1>7, <2>1, <2>2, <2>3
<1>8. ASSUME NEW v \in Versions, NEW rows \in Contents, DOMAIN rows \subseteq RowsOf(v),
             nodes' = [nodes EXCEPT ![v] = rows]
      PROVE  /\ nodes' \in [Versions -> Contents]
             /\ \A u \in Versions : DOMAIN nodes'[u] \subseteq RowsOf(u)
  BY <1>8
<1>9. ASSUME NEW r \in Requests, request[r].step = "write"
      PROVE  /\ request[r].version \in Versions /\ nodes[request[r].version] \in Contents
             /\ DOMAIN nodes[request[r].version] \subseteq RowsOf(request[r].version)
             /\ request[r].intent \in Intents \cup {NoIntent} /\ request[r].swap \in Contents
  <2>1. request[r] \in RequestType
    BY DEF RequestsTyped, Coherent
  <2>2. AtEdit(r)
    BY <1>9 DEF RequestsTyped, Coherent, AtEdit, EditSteps
  <2>3. request[r].version \in Versions
    BY <2>2 DEF RequestsTyped, Coherent, AtEdit
  <2> QED BY <2>1, <2>3 DEF RequestType
<1>10. ASSUME NEW r \in Requests, WriteMove(r) PROVE PlanTyped'
  <2> DEFINE v == request[r].version
             rows == Overwritten(nodes[v], request[r].swap)
  <2>1. nodes' = [nodes EXCEPT ![v] = rows]
    BY <1>10 DEF WriteMove, Overwritten
  <2>2. v \in Versions /\ rows \in Contents /\ DOMAIN rows \subseteq RowsOf(v)
    BY <1>9, <1>10, OverwrittenRows DEF WriteMove
  <2> HIDE DEF v, rows
  <2>3. /\ nodes' \in [Versions -> Contents]
        /\ \A u \in Versions : DOMAIN nodes'[u] \subseteq RowsOf(u)
    BY <1>8, <2>1, <2>2
  <2> QED BY <1>10, <2>3 DEF WriteMove
<1>11. ASSUME NEW r \in Requests, WriteAdd(r) PROVE PlanTyped'
  <2> DEFINE v == request[r].version
             rows == Added(nodes[v], RowId(v, request[r].intent.node))
  <2>1. nodes' = [nodes EXCEPT ![v] = rows]
    BY <1>9, <1>11 DEF WriteAdd, Added, NextOrder
  <2>2. request[r].intent.node \in Items
    BY <1>9, <1>11 DEF WriteAdd, Intents, NoIntent
  <2>3. v \in Versions /\ rows \in Contents /\ DOMAIN rows \subseteq RowsOf(v)
    BY <1>9, <1>11, <2>2, AddedRows DEF WriteAdd
  <2> HIDE DEF v, rows
  <2>4. /\ nodes' \in [Versions -> Contents]
        /\ \A u \in Versions : DOMAIN nodes'[u] \subseteq RowsOf(u)
    BY <1>8, <2>1, <2>3
  <2> QED BY <1>11, <2>4 DEF WriteAdd
<1>12. ASSUME NEW r \in Requests, WriteDelete(r) PROVE PlanTyped'
  <2> DEFINE v == request[r].version
             rows == Removed(nodes[v], request[r].intent.node)
  <2>1. nodes' = [nodes EXCEPT ![v] = rows]
    BY <1>9, <1>12 DEF WriteDelete
  <2>2. v \in Versions /\ rows \in Contents /\ DOMAIN rows \subseteq RowsOf(v)
    <3>1. v \in Versions /\ nodes[v] \in Contents /\ DOMAIN nodes[v] \subseteq RowsOf(v)
      BY <1>9, <1>12 DEF WriteDelete
    <3>2. rows \in Contents /\ DOMAIN rows = DOMAIN nodes[v] \ {request[r].intent.node}
      BY <3>1, RemovedRows
    <3> HIDE DEF rows
    <3> QED BY <3>1, <3>2
  <2> HIDE DEF v, rows
  <2>3. /\ nodes' \in [Versions -> Contents]
        /\ \A u \in Versions : DOMAIN nodes'[u] \subseteq RowsOf(u)
    BY <1>8, <2>1, <2>2
  <2> QED BY <1>12, <2>3 DEF WriteDelete
<1>13. ASSUME NEW r \in Requests, CopyDraft(r) PROVE PlanTyped'
  <2> DEFINE new == Max({v \in Versions : status[v] # "absent"}) + 1
             v == request[r].version
             rows == Copied(nodes[v], v, new)
  <2>1. new \in Versions /\ v \in Versions
    BY <1>13 DEF CopyDraft, RequestsTyped, Coherent
  <2>2. nodes' = [nodes EXCEPT ![new] = rows] /\ status' = [status EXCEPT ![new] = "draft"]
    BY <1>13 DEF CopyDraft, Copied
  <2>3. rows \in Contents /\ DOMAIN rows \subseteq RowsOf(new)
    BY <2>1, CopiedRows
  <2>4. DOMAIN blank' = Versions /\ DOMAIN slips' = Versions
    BY <1>13 DEF CopyDraft, Slips
  <2> HIDE DEF v, new, rows
  <2>5. /\ nodes' \in [Versions -> Contents]
        /\ \A u \in Versions : DOMAIN nodes'[u] \subseteq RowsOf(u)
    BY <1>8, <2>1, <2>2, <2>3
  <2>6. status' \in [Versions -> {"absent", "draft", "needs_fix", "publishable", "published", "superseded"}]
    BY <2>1, <2>2
  <2> QED BY <1>13, <2>4, <2>5, <2>6 DEF CopyDraft
<1>14. CASE UNCHANGED vars
  BY <1>14 DEF vars
<1>15. CASE Next
  BY <1>2, <1>3, <1>4, <1>5, <1>6, <1>7, <1>10, <1>11, <1>12, <1>13, <1>15 DEF Next
<1> QED BY <1>14, <1>15

\* A step changes one request.
Changes(r) ==
    /\ request' \in [Requests -> RequestType]
    /\ \A q \in Requests \ {r} : request'[q] = request[q]

LEMMA ChangesOne ==
  ASSUME RequestsTyped, NEW r \in Requests, NEW q \in RequestType, request' = [request EXCEPT ![r] = q]
  PROVE  Changes(r) /\ request'[r] = q
BY DEF RequestsTyped, Coherent, Changes

LEMMA IdleIsTyped == Idle \in RequestType
BY EmptyIsContents DEF Idle, RequestType

\* What a request carries on.
Keeps(r) ==
    /\ request'[r].intent = request[r].intent /\ request'[r].version = request[r].version
    /\ request'[r].start = request[r].start /\ request'[r].token = request[r].token
    /\ request'[r].settled = request[r].settled /\ request'[r].olds = request[r].olds

\* What each handler makes of its own request; the others are not touched.
LEMMA EndsChanges ==
  ASSUME RequestsTyped, NEW r \in Requests, Ends(r)
  PROVE  Changes(r) /\ request'[r] = Idle
BY IdleIsTyped, ChangesOne DEF Ends

LEMMA GoesChanges ==
  ASSUME RequestsTyped, NEW r \in Requests, Goes(r, "invalidate")
  PROVE  /\ Changes(r)
         /\ request'[r].step = "invalidate" /\ Keeps(r)
<1> DEFINE q == [request[r] EXCEPT !.step = "invalidate"]
<1>1. request[r] \in RequestType
  BY DEF RequestsTyped, Coherent
<1>2. q \in RequestType
  BY <1>1 DEF RequestType, EditSteps
<1>3. request' = [request EXCEPT ![r] = q]
  BY DEF Goes
<1>4. request'[r] = q
  BY <1>2, <1>3, ChangesOne
<1>5. /\ q.step = "invalidate" /\ q.intent = request[r].intent
      /\ q.version = request[r].version /\ q.start = request[r].start
      /\ q.token = request[r].token /\ q.settled = request[r].settled /\ q.olds = request[r].olds
  BY <1>1 DEF RequestType
<1> HIDE DEF q
<1> QED BY <1>2, <1>3, <1>4, <1>5, ChangesOne DEF Keeps

LEMMA OpenChanges ==
  ASSUME PlanTyped, RequestsTyped, NEW r \in Requests, OpenPage(r)
  PROVE  /\ Changes(r) /\ request'[r].step = "page" /\ request'[r].intent = NoIntent
         /\ request'[r].token = lock /\ request'[r].page = DraftNodes /\ request'[r].settled = Settled(r)
         /\ request'[r].version = None /\ request'[r].olds = {}
<1> DEFINE q == [Idle EXCEPT !.step = "page", !.token = lock, !.page = DraftNodes, !.settled = Settled(r),
                   !.ready = status[DraftVersion] = "publishable" /\ report[DraftVersion].ok]
<1>1. lock \in Nat /\ DraftNodes \in Contents
  BY DraftTyped DEF PlanTyped
<1>2. (status[DraftVersion] = "publishable" /\ report[DraftVersion].ok) \in BOOLEAN /\ Settled(r) \in BOOLEAN
  BY DEF Settled
<1>3. q \in RequestType
  BY <1>1, <1>2, EmptyIsContents DEF RequestType, Idle
<1>4. request' = [request EXCEPT ![r] = q]
  BY DEF OpenPage
<1>5. /\ q.step = "page" /\ q.intent = NoIntent
      /\ q.token = lock /\ q.page = DraftNodes /\ q.settled = Settled(r)
      /\ q.version = None /\ q.olds = {}
  BY DEF Idle
<1> HIDE DEF q
<1> QED BY <1>3, <1>4, <1>5, ChangesOne

LEMMA SubmitChanges ==
  ASSUME PlanTyped, RequestsTyped, NEW r \in Requests, NEW intent \in Intents, Submit(r, intent)
  PROVE  /\ Changes(r)
         /\ \/ request'[r] = Idle
            \/ /\ request'[r].step = "bump" /\ request'[r].intent = intent
               /\ request'[r].version = DraftVersion /\ request'[r].start = DraftNodes
               /\ request'[r].token = request[r].token /\ request'[r].settled = request[r].settled
               /\ request'[r].page = request[r].page /\ request'[r].olds = request[r].olds
               /\ intent.op # "publish" => DraftVersion # None
<1>1. CASE intent.op # "publish" /\ DraftVersion = None
  <2>1. Ends(r)
    BY <1>1 DEF Submit
  <2> QED BY <2>1, EndsChanges
<1>2. CASE ~(intent.op # "publish" /\ DraftVersion = None)
  <2> DEFINE q == [request[r] EXCEPT !.step = "bump", !.ready = FALSE,
                     !.intent = intent, !.version = DraftVersion, !.start = DraftNodes]
  <2>1. request[r] \in RequestType
    BY DEF RequestsTyped, Coherent
  <2>2. q \in RequestType
    BY <2>1, DraftTyped DEF RequestType, EditSteps
  <2>3. request' = [request EXCEPT ![r] = q]
    BY <1>2 DEF Submit
  <2>4. /\ q.step = "bump" /\ q.intent = intent /\ q.version = DraftVersion /\ q.start = DraftNodes
        /\ q.token = request[r].token /\ q.settled = request[r].settled
        /\ q.page = request[r].page /\ q.olds = request[r].olds
    BY <2>1 DEF RequestType
  <2> HIDE DEF q
  <2> QED BY <1>2, <2>2, <2>3, <2>4, ChangesOne
<1> QED BY <1>1, <1>2

LEMMA BumpChanges ==
  ASSUME RequestsTyped, NEW r \in Requests, Bump(r)
  PROVE  /\ Changes(r)
         /\ request'[r].step = IF request[r].intent.op \in {"move", "publish"} THEN "read" ELSE "write"
         /\ request'[r].intent = request[r].intent
         /\ request[r].intent.op # "publish" => Keeps(r)
         /\ request[r].intent.op = "publish" => /\ request'[r].version = None /\ request'[r].olds = {}
                                                /\ request'[r].token = 0 /\ ~request'[r].settled
<1>1. request[r] \in RequestType
  BY DEF RequestsTyped
<1>2. CASE request[r].intent.op = "publish"
  <2> DEFINE q == [Idle EXCEPT !.step = "read", !.intent = request[r].intent]
  <2>1. q \in RequestType
    BY <1>1, EmptyIsContents DEF RequestType, Idle, EditSteps
  <2>2. request' = [request EXCEPT ![r] = q]
    BY <1>2 DEF Bump
  <2>3. /\ q.step = "read" /\ q.intent = request[r].intent
        /\ q.version = None /\ q.olds = {} /\ q.token = 0 /\ q.settled = FALSE
    BY DEF Idle
  <2> HIDE DEF q
  <2> QED BY <1>2, <2>1, <2>2, <2>3, ChangesOne
<1>3. CASE request[r].intent.op # "publish"
  <2> DEFINE step == IF request[r].intent.op = "move" THEN "read" ELSE "write"
             q == [request[r] EXCEPT !.step = step, !.page = Empty]
  <2>1. step \in EditSteps
    BY DEF EditSteps
  <2>2. request' = [request EXCEPT ![r] = q]
    BY <1>3 DEF Bump
  <2> HIDE DEF step
  <2>3. q \in RequestType
    BY <1>1, <2>1, EmptyIsContents DEF RequestType
  <2>4. /\ q.step = step /\ q.intent = request[r].intent
        /\ q.version = request[r].version /\ q.start = request[r].start
        /\ q.token = request[r].token /\ q.settled = request[r].settled /\ q.olds = request[r].olds
    BY <1>1 DEF RequestType
  <2> HIDE DEF q
  <2>5. Changes(r) /\ request'[r] = q
    BY <2>2, <2>3, ChangesOne
  <2> QED BY <1>3, <2>4, <2>5 DEF Keeps, step
<1> QED BY <1>2, <1>3

LEMMA RefuseChanges ==
  ASSUME PlanTyped, RequestsTyped, NEW r \in Requests, Refuse(r)
  PROVE  /\ Changes(r)
         /\ request'[r].step = "conflict" /\ request'[r].intent = request[r].intent
         /\ request'[r].token = lock /\ request'[r].settled = Settled(r)
         /\ request'[r].start = DraftNodes /\ request'[r].version = None /\ request'[r].olds = {}
<1> DEFINE q == [Idle EXCEPT !.step = "conflict", !.intent = request[r].intent,
                   !.token = lock, !.settled = Settled(r), !.page = request[r].page, !.start = DraftNodes]
<1>1. request[r] \in RequestType /\ lock \in Nat /\ DraftNodes \in Contents /\ Settled(r) \in BOOLEAN
  BY DraftTyped DEF RequestsTyped, Coherent, PlanTyped, Settled
<1>2. q \in RequestType
  BY <1>1, EmptyIsContents DEF RequestType, Idle
<1>3. request' = [request EXCEPT ![r] = q]
  BY DEF Refuse
<1>4. /\ q.step = "conflict" /\ q.intent = request[r].intent
      /\ q.token = lock /\ q.settled = Settled(r)
      /\ q.start = DraftNodes /\ q.version = None /\ q.olds = {}
  BY DEF Idle
<1> HIDE DEF q
<1> QED BY <1>2, <1>3, <1>4, ChangesOne

LEMMA ReapplyChanges ==
  ASSUME PlanTyped, RequestsTyped, NEW r \in Requests, Reapply(r)
  PROVE  /\ Changes(r)
         /\ \/ request'[r] = Idle
            \/ /\ request'[r].step = "bump" /\ request'[r].intent = request[r].intent
               /\ request'[r].version = DraftVersion /\ request'[r].start = DraftNodes
               /\ request'[r].token = request[r].token /\ request'[r].settled = request[r].settled
               /\ request'[r].page = request[r].start /\ request'[r].olds = request[r].olds
               /\ request[r].intent.op # "publish" => DraftVersion # None
<1> DEFINE stops == \/ request[r].intent.op = "add" /\ request[r].intent.node \in NeedsPayload
                    \/ request[r].intent.op # "publish" /\ DraftVersion = None
<1>1. CASE stops
  <2>1. Ends(r)
    BY <1>1 DEF Reapply
  <2> QED BY <2>1, EndsChanges
<1>2. CASE ~stops
  <2> DEFINE q == [request[r] EXCEPT !.step = "bump", !.page = request[r].start,
                     !.version = DraftVersion, !.start = DraftNodes]
  <2>1. request[r] \in RequestType
    BY DEF RequestsTyped, Coherent
  <2>2. q \in RequestType
    BY <2>1, DraftTyped DEF RequestType, EditSteps
  <2>3. request' = [request EXCEPT ![r] = q]
    BY <1>2 DEF Reapply
  <2>4. /\ q.step = "bump" /\ q.intent = request[r].intent /\ q.version = DraftVersion /\ q.start = DraftNodes
        /\ q.token = request[r].token /\ q.settled = request[r].settled
        /\ q.page = request[r].start /\ q.olds = request[r].olds
    BY <2>1 DEF RequestType
  <2> HIDE DEF q
  <2> QED BY <1>2, <2>2, <2>3, <2>4, ChangesOne
<1> QED BY <1>1, <1>2

\* The neighbour a move finds, and the rows it is to write.
LEMMA ReadMoveChanges ==
  ASSUME PlanTyped, RequestsTyped, NEW r \in Requests, ReadMove(r)
  PROVE  /\ Changes(r)
         /\ \/ request'[r] = Idle
            \/ LET rows == nodes[request[r].version]
                   n == request[r].intent.node
               IN  /\ request'[r].step = "write" /\ Keeps(r)
                   /\ \E m \in Neighbours(rows, n, request[r].intent.direction) :
                         request'[r].swap = Swapped([k \in {m, n} |-> rows[k]], m, n)
<1> DEFINE rows == nodes[request[r].version]
           n == request[r].intent.node
           found == Neighbours(rows, n, request[r].intent.direction)
<1>1. CASE found = {}
  <2>1. Ends(r)
    BY <1>1 DEF ReadMove
  <2> QED BY <2>1, EndsChanges
<1>2. CASE found # {}
  <2>1. request[r].version \in Versions /\ request[r] \in RequestType
    BY DEF ReadMove, RequestsTyped, Coherent, AtEdit, EditSteps, IsEdit
  <2>2. rows \in Contents
    BY <2>1 DEF PlanTyped
  <2>3. PICK m \in found : request' = [request EXCEPT ![r].step = "write",
                                         ![r].swap = Swapped([k \in {m, n} |-> rows[k]], m, n)]
    BY <1>2 DEF ReadMove
  <2>4. m \in DOMAIN rows /\ n \in DOMAIN rows
    BY DEF Neighbours, Beyond
  <2> DEFINE swap == Swapped([k \in {m, n} |-> rows[k]], m, n)
             q == [request[r] EXCEPT !.step = "write", !.swap = swap]
  <2>5. swap \in Contents
    BY <2>2, <2>4, SwapRows
  <2>6. request' = [request EXCEPT ![r] = q]
    BY <2>3
  <2> HIDE DEF swap
  <2>7. q \in RequestType
    BY <2>1, <2>5 DEF RequestType, EditSteps
  <2>8. /\ q.step = "write" /\ q.intent = request[r].intent
        /\ q.version = request[r].version /\ q.start = request[r].start /\ q.swap = swap
        /\ q.token = request[r].token /\ q.settled = request[r].settled /\ q.olds = request[r].olds
    BY <2>1 DEF RequestType
  <2> HIDE DEF q
  <2>9. Changes(r) /\ request'[r] = q
    BY <2>6, <2>7, ChangesOne
  <2>10. \E k \in found : request'[r].swap = Swapped([j \in {k, n} |-> rows[j]], k, n)
    BY <2>8, <2>9 DEF swap
  <2>11. Keeps(r)
    BY <2>8, <2>9 DEF Keeps
  <2> QED BY <2>8, <2>9, <2>10, <2>11
<1> QED BY <1>1, <1>2

LEMMA ValidationChanges ==
  ASSUME PlanTyped, RequestsTyped, NEW r \in Requests, StartValidation(r)
  PROVE  /\ Changes(r)
         /\ request'[r].step = "judge" /\ request'[r].intent = request[r].intent
         /\ request'[r].version = DraftVersion /\ request'[r].start = DraftNodes
         /\ DraftVersion # None
         /\ request'[r].token = request[r].token /\ request'[r].olds = request[r].olds
<1> DEFINE q == [request[r] EXCEPT !.step = "judge", !.version = DraftVersion, !.start = DraftNodes]
<1>1. request[r] \in RequestType
  BY DEF RequestsTyped, Coherent
<1>2. q \in RequestType
  BY <1>1, DraftTyped DEF RequestType
<1>3. request' = [request EXCEPT ![r] = q] /\ DraftVersion # None
  BY DEF StartValidation
<1>4. /\ q.step = "judge" /\ q.intent = request[r].intent
      /\ q.version = DraftVersion /\ q.start = DraftNodes
      /\ q.token = request[r].token /\ q.olds = request[r].olds
  BY <1>1 DEF RequestType
<1> HIDE DEF q
<1> QED BY <1>2, <1>3, <1>4, ChangesOne

LEMMA ReadPublishChanges ==
  ASSUME PlanTyped, RequestsTyped, NEW r \in Requests, ReadPublish(r)
  PROVE  /\ Changes(r)
         /\ \/ request'[r] = Idle
            \/ /\ request'[r].step = "supersede" /\ request'[r].intent = request[r].intent
               /\ request'[r].version \in Publishable
               /\ request'[r].token = request[r].token /\ request'[r].olds = request[r].olds
<1>1. CASE Ends(r)
  BY <1>1, EndsChanges
<1>2. CASE ~Ends(r)
  <2> DEFINE v == Max(Publishable)
             q == [request[r] EXCEPT !.step = "supersede", !.version = v]
  <2>1. Publishable # {} /\ request' = [request EXCEPT ![r] = q]
    BY <1>2 DEF ReadPublish
  <2>2. v \in Publishable
    <3>1. Publishable \in SUBSET (1..MaxVersions) /\ MaxVersions \in Nat
      BY BuilderAssumption DEF Publishable, Versions
    <3>2. \E x \in Publishable : \A z \in Publishable : x >= z
      BY <2>1, <3>1, LargestExists
    <3> QED BY <3>2 DEF Max
  <2> HIDE DEF v
  <2>3. request[r] \in RequestType
    BY DEF RequestsTyped, Coherent
  <2>4. q \in RequestType
    BY <2>2, <2>3 DEF RequestType, Publishable
  <2>5. /\ q.step = "supersede" /\ q.intent = request[r].intent /\ q.version = v
        /\ q.token = request[r].token /\ q.olds = request[r].olds
    BY <2>3 DEF RequestType
  <2> HIDE DEF q
  <2> QED BY <2>1, <2>2, <2>4, <2>5, ChangesOne
<1> QED BY <1>1, <1>2

LEMMA SupersedeChanges ==
  ASSUME PlanTyped, RequestsTyped, NEW r \in Requests, Supersede(r) \/ ObtainLocks(r)
  PROVE  /\ Changes(r)
         /\ request'[r].step = IF Supersede(r) THEN "wait" ELSE "commit"
         /\ request'[r].olds = IF Supersede(r) THEN Superseded ELSE request[r].olds \cap Superseded
         /\ request'[r].intent = request[r].intent /\ request'[r].version = request[r].version
         /\ request'[r].token = request[r].token
<1> DEFINE step == IF Supersede(r) THEN "wait" ELSE "commit"
           olds == IF Supersede(r) THEN Superseded ELSE request[r].olds \cap Superseded
           q == [request[r] EXCEPT !.step = step, !.olds = olds]
<1>1. request[r] \in RequestType
  BY DEF RequestsTyped, Coherent
<1>2. olds \in SUBSET Versions /\ step \in {"wait", "commit"}
  BY DEF Superseded
<1>3. request' = [request EXCEPT ![r] = q]
  BY DEF Supersede, ObtainLocks
<1> HIDE DEF step, olds
<1>4. q \in RequestType
  BY <1>1, <1>2 DEF RequestType
<1>5. /\ q.step = step /\ q.intent = request[r].intent
      /\ q.version = request[r].version /\ q.olds = olds /\ q.token = request[r].token
  BY <1>1 DEF RequestType
<1> HIDE DEF q
<1> QED BY <1>3, <1>4, <1>5, ChangesOne DEF step, olds

LEMMA StartDraftChanges ==
  ASSUME PlanTyped, RequestsTyped, NEW r \in Requests, StartDraft(r)
  PROVE  /\ Changes(r)
         /\ request'[r].step = "copy" /\ request'[r].intent = request[r].intent
         /\ request'[r].version = active /\ active \in Versions
         /\ request'[r].token = request[r].token /\ request'[r].olds = request[r].olds
<1> DEFINE q == [request[r] EXCEPT !.step = "copy", !.version = active]
<1>1. request[r] \in RequestType /\ active \in Versions
  BY DEF RequestsTyped, Coherent, PlanTyped, StartDraft
<1>2. q \in RequestType
  BY <1>1 DEF RequestType
<1>3. request' = [request EXCEPT ![r] = q]
  BY DEF StartDraft
<1>4. /\ q.step = "copy" /\ q.intent = request[r].intent /\ q.version = active
      /\ q.token = request[r].token /\ q.olds = request[r].olds
  BY <1>1 DEF RequestType
<1> HIDE DEF q
<1> QED BY <1>1, <1>2, <1>3, <1>4, ChangesOne

LEMMA WriteChanges ==
  ASSUME RequestsTyped, NEW r \in Requests, WriteMove(r) \/ WriteAdd(r) \/ WriteDelete(r)
  PROVE  /\ Changes(r)
         /\ \/ request'[r] = Idle
            \/ request'[r].step = "invalidate" /\ Keeps(r)
<1>1. Goes(r, "invalidate") \/ Ends(r)
  BY DEF WriteMove, WriteAdd, WriteDelete
<1> QED BY <1>1, GoesChanges, EndsChanges

LEMMA LastStepChanges ==
  ASSUME RequestsTyped, NEW r \in Requests,
         LeavePage(r) \/ Invalidate(r) \/ Judge(r) \/ CommitPublish(r) \/ CopyDraft(r) \/ Die(r)
  PROVE  Changes(r) /\ request'[r] = Idle
<1>1. Ends(r)
  BY DEF LeavePage, Invalidate, Judge, CommitPublish, CopyDraft, Die
<1> QED BY <1>1, EndsChanges

LEMMA IdleIsCoherent == Coherent(Idle)
BY DEF Coherent, Idle, NoIntent, IsEdit, EditSteps

LEMMA ChangesCoherent ==
  ASSUME RequestsTyped, NEW r \in Requests, Changes(r), Coherent(request'[r])
  PROVE  RequestsTyped'
<1>1. request' \in [Requests -> RequestType]
  BY DEF Changes
<1>2. ASSUME NEW q \in Requests PROVE Coherent(request'[q])
  <2>1. CASE q = r
    BY <2>1
  <2>2. CASE q # r
    <3>1. request'[q] = request[q]
      BY <2>2 DEF Changes
    <3> QED BY <3>1 DEF RequestsTyped
  <2> QED BY <2>1, <2>2
<1> QED BY <1>1, <1>2 DEF RequestsTyped, Coherent

\* Intents of forms: an edit or a publication.
LEMMA IntentOps ==
  ASSUME NEW intent \in Intents
  PROVE  /\ intent.op \in {"add", "delete", "move", "publish"}
         /\ intent # NoIntent
         /\ intent.op = "add" => /\ intent.node \in Items
                                 /\ intent = [op |-> "add", node |-> intent.node, direction |-> "none"]
         /\ intent.op = "move" => intent.direction \in {"up", "down"}
<1> USE DEF NoIntent
<1>1. CASE intent \in [op : {"add"}, node : Items, direction : {"none"}]
  BY <1>1
<1>2. CASE intent \in [op : {"delete"}, node : Rows, direction : {"none"}]
  BY <1>2
<1>3. CASE intent \in [op : {"move"}, node : Rows, direction : {"up", "down"}]
  BY <1>3
<1>4. CASE intent = [op |-> "publish", node |-> 0, direction |-> "none"]
  BY <1>4
<1> QED BY <1>1, <1>2, <1>3, <1>4 DEF Intents

LEMMA RequestsInit == Init => RequestsTyped
<1> SUFFICES ASSUME Init PROVE RequestsTyped
  OBVIOUS
<1>1. request = [r \in Requests |-> Idle]
  BY DEF Init
<1>2. \A r \in Requests : request[r] = Idle
  BY <1>1
<1>3. request \in [Requests -> RequestType]
  BY <1>1, IdleIsTyped
<1> QED BY <1>2, <1>3, IdleIsCoherent DEF RequestsTyped

\* A request carries what its next statement needs.
LEMMA RequestsStep ==
  ASSUME PlanTyped, RequestsTyped, [Next]_vars
  PROVE  RequestsTyped'
<1>0. \A r \in Requests : Coherent(request[r])
  BY DEF RequestsTyped
<1>v. DraftVersion \in Versions \cup {None}
  BY DraftTyped
<1>1. ASSUME NEW r \in Requests, OpenPage(r) PROVE RequestsTyped'
  <2>1. Coherent(request'[r])
    BY <1>1, OpenChanges DEF Coherent, EditSteps
  <2> QED BY <1>1, <2>1, OpenChanges, ChangesCoherent
<1>2. ASSUME NEW r \in Requests,
             LeavePage(r) \/ Invalidate(r) \/ Judge(r) \/ CommitPublish(r) \/ CopyDraft(r) \/ Die(r)
      PROVE  RequestsTyped'
  BY <1>2, LastStepChanges, IdleIsCoherent, ChangesCoherent
<1>3. ASSUME NEW r \in Requests, NEW intent \in Intents, Submit(r, intent) PROVE RequestsTyped'
  <2>1. Changes(r)
    BY <1>3, SubmitChanges
  <2>2. Coherent(request'[r])
    <3>1. CASE request'[r] = Idle
      BY <3>1, IdleIsCoherent
    <3>2. CASE request'[r] # Idle
      <4>1. /\ request'[r].step = "bump" /\ request'[r].intent = intent
            /\ request'[r].version = DraftVersion
            /\ intent.op # "publish" => DraftVersion # None
        BY <1>3, <3>2, SubmitChanges
      <4> QED BY <1>v, <4>1 DEF Coherent, EditSteps, IsEdit
    <3> QED BY <3>1, <3>2
  <2> QED BY <2>1, <2>2, ChangesCoherent
<1>4. ASSUME NEW r \in Requests, Bump(r) PROVE RequestsTyped'
  <2>1. /\ Changes(r)
        /\ request'[r].step = IF request[r].intent.op \in {"move", "publish"} THEN "read" ELSE "write"
        /\ request'[r].intent = request[r].intent
        /\ request[r].intent.op # "publish" => request'[r].version = request[r].version
    BY <1>4, BumpChanges DEF Keeps
  <2>2. request[r].step = "bump" /\ request[r].intent \in Intents
    BY <1>0, <1>4 DEF Bump, Coherent
  <2>3. request[r].intent.op \in {"add", "delete", "move", "publish"}
    BY <2>2, IntentOps
  <2>4. IsEdit(request[r].intent) => request[r].version \in Versions
    BY <1>0, <2>2 DEF Coherent, EditSteps
  <2>5. Coherent(request'[r])
    BY <2>1, <2>2, <2>3, <2>4 DEF Coherent, EditSteps, IsEdit
  <2> QED BY <2>1, <2>5, ChangesCoherent
<1>5. ASSUME NEW r \in Requests, Refuse(r) PROVE RequestsTyped'
  <2>1. Changes(r) /\ request'[r].step = "conflict" /\ request'[r].intent = request[r].intent
    BY <1>5, RefuseChanges
  <2>2. request[r].intent \in Intents
    BY <1>0, <1>5 DEF Refuse, Coherent
  <2>3. Coherent(request'[r])
    BY <2>1, <2>2 DEF Coherent, EditSteps
  <2> QED BY <2>1, <2>3, ChangesCoherent
<1>6. ASSUME NEW r \in Requests, Reapply(r) PROVE RequestsTyped'
  <2>1. Changes(r)
    BY <1>6, ReapplyChanges
  <2>2. Coherent(request'[r])
    <3>1. CASE request'[r] = Idle
      BY <3>1, IdleIsCoherent
    <3>2. CASE request'[r] # Idle
      <4>1. /\ request'[r].step = "bump" /\ request'[r].intent = request[r].intent
            /\ request'[r].version = DraftVersion
            /\ request[r].intent.op # "publish" => DraftVersion # None
        BY <1>6, <3>2, ReapplyChanges
      <4>2. request[r].intent \in Intents
        BY <1>0, <1>6 DEF Reapply, Coherent
      <4> QED BY <1>v, <4>1, <4>2 DEF Coherent, EditSteps, IsEdit
    <3> QED BY <3>1, <3>2
  <2> QED BY <2>1, <2>2, ChangesCoherent
<1>7. ASSUME NEW r \in Requests, ReadMove(r) PROVE RequestsTyped'
  <2>1. Changes(r)
    BY <1>7, ReadMoveChanges
  <2>2. Coherent(request'[r])
    <3>1. CASE request'[r] = Idle
      BY <3>1, IdleIsCoherent
    <3>2. CASE request'[r] # Idle
      <4>1. /\ request'[r].step = "write" /\ request'[r].intent = request[r].intent
            /\ request'[r].version = request[r].version
        BY <1>7, <3>2, ReadMoveChanges DEF Keeps
      <4>2. IsEdit(request[r].intent)
        BY <1>7 DEF ReadMove, IsEdit
      <4>3. request[r].version \in Versions
        BY <1>0, <1>7, <4>2 DEF ReadMove, Coherent, EditSteps
      <4> QED BY <4>1, <4>2, <4>3 DEF Coherent, EditSteps
    <3> QED BY <3>1, <3>2
  <2> QED BY <2>1, <2>2, ChangesCoherent
<1>8. ASSUME NEW r \in Requests, WriteMove(r) \/ WriteAdd(r) \/ WriteDelete(r) PROVE RequestsTyped'
  <2>1. Changes(r)
    BY <1>8, WriteChanges
  <2>2. Coherent(request'[r])
    <3>1. CASE request'[r] = Idle
      BY <3>1, IdleIsCoherent
    <3>2. CASE request'[r] # Idle
      <4>1. /\ request'[r].step = "invalidate" /\ request'[r].intent = request[r].intent
            /\ request'[r].version = request[r].version
        BY <1>8, <3>2, WriteChanges DEF Keeps
      <4>2. request[r].step = "write"
        BY <1>8 DEF WriteMove, WriteAdd, WriteDelete
      <4>3. IsEdit(request[r].intent) /\ request[r].version \in Versions
        BY <1>0, <4>2 DEF Coherent, EditSteps
      <4> QED BY <4>1, <4>3 DEF Coherent, EditSteps
    <3> QED BY <3>1, <3>2
  <2> QED BY <2>1, <2>2, ChangesCoherent
<1>9. ASSUME NEW r \in Requests, StartValidation(r) PROVE RequestsTyped'
  <2>1. /\ Changes(r) /\ request'[r].step = "judge" /\ request'[r].intent = request[r].intent
        /\ request'[r].version = DraftVersion /\ DraftVersion # None
    BY <1>9, ValidationChanges
  <2>2. request[r].intent = NoIntent
    BY <1>0, <1>9 DEF StartValidation, Coherent
  <2>3. Coherent(request'[r])
    BY <1>v, <2>1, <2>2 DEF Coherent, EditSteps, NoIntent, IsEdit
  <2> QED BY <2>1, <2>3, ChangesCoherent
<1>10. ASSUME NEW r \in Requests, ReadPublish(r) PROVE RequestsTyped'
  <2>1. Changes(r)
    BY <1>10, ReadPublishChanges
  <2>2. Coherent(request'[r])
    <3>1. CASE request'[r] = Idle
      BY <3>1, IdleIsCoherent
    <3>2. CASE request'[r] # Idle
      <4>1. /\ request'[r].step = "supersede" /\ request'[r].intent = request[r].intent
            /\ request'[r].version \in Versions
        BY <1>10, <3>2, ReadPublishChanges DEF Publishable
      <4>2. request[r].intent.op = "publish"
        BY <1>10 DEF ReadPublish
      <4> QED BY <4>1, <4>2 DEF Coherent, EditSteps, IsEdit
    <3> QED BY <3>1, <3>2
  <2> QED BY <2>1, <2>2, ChangesCoherent
<1>11. ASSUME NEW r \in Requests, Supersede(r) \/ ObtainLocks(r) PROVE RequestsTyped'
  <2>1. /\ Changes(r) /\ request'[r].step \in {"wait", "commit"} /\ request'[r].intent = request[r].intent
        /\ request'[r].version = request[r].version
    BY <1>11, SupersedeChanges
  <2>2. ~IsEdit(request[r].intent) /\ request[r].version \in Versions
    BY <1>0, <1>11 DEF Supersede, ObtainLocks, Coherent
  <2>3. Coherent(request'[r])
    BY <2>1, <2>2 DEF Coherent, EditSteps
  <2> QED BY <2>1, <2>3, ChangesCoherent
<1>12. ASSUME NEW r \in Requests, StartDraft(r) PROVE RequestsTyped'
  <2>1. /\ Changes(r) /\ request'[r].step = "copy" /\ request'[r].intent = request[r].intent
        /\ request'[r].version = active /\ active \in Versions
    BY <1>12, StartDraftChanges
  <2>2. request[r].intent = NoIntent
    BY <1>0, <1>12 DEF StartDraft, Coherent
  <2>3. Coherent(request'[r])
    BY <2>1, <2>2 DEF Coherent, EditSteps, NoIntent, IsEdit
  <2> QED BY <2>1, <2>3, ChangesCoherent
<1>13. CASE UNCHANGED vars
  BY <1>13 DEF vars, RequestsTyped, Coherent
<1>14. CASE Next
  BY <1>1, <1>2, <1>3, <1>4, <1>5, <1>6, <1>7, <1>8, <1>9, <1>10, <1>11, <1>12, <1>14 DEF Next
<1> QED BY <1>13, <1>14

-----------------------------------------------------------------------------
(* What a request carries, and what stays of a version.                    *)

\* A step of the handlers on behalf of one tab.
Acts(r) ==
    \/ OpenPage(r) \/ LeavePage(r)
    \/ \E intent \in Intents : CanIntend(r, intent) /\ Submit(r, intent)
    \/ Bump(r) \/ Refuse(r) \/ Reapply(r)
    \/ ReadMove(r) \/ WriteMove(r) \/ WriteAdd(r) \/ WriteDelete(r) \/ Invalidate(r)
    \/ StartValidation(r) \/ Judge(r)
    \/ ReadPublish(r) \/ Supersede(r) \/ ObtainLocks(r) \/ CommitPublish(r)
    \/ StartDraft(r) \/ CopyDraft(r)
    \/ Die(r)

LEMMA NextIsAStep ==
  ASSUME Next
  PROVE  \E r \in Requests : Acts(r)
BY DEF Next, Acts

\* Tokens, versions and rows to supersede come from the database as it is.
LEMMA CarriesWhatIsThere ==
  ASSUME PlanTyped, RequestsTyped, NEW r \in Requests, Acts(r)
  PROVE  /\ Changes(r)
         /\ request'[r].token \in {0, lock, request[r].token}
         /\ request'[r].version \in {None, request[r].version, DraftVersion, active} \cup Publishable
         /\ request'[r].olds \subseteq request[r].olds \cup Superseded
         /\ request'[r].step \in {"wait", "commit"} => Supersede(r) \/ ObtainLocks(r)
<1>0. /\ Idle.token = 0 /\ Idle.version = None /\ Idle.olds = {} /\ Idle.step = "idle"
  BY DEF Idle
<1>1. CASE OpenPage(r)
  BY <1>1, OpenChanges
<1>2. CASE \/ LeavePage(r) \/ Invalidate(r) \/ Judge(r) \/ CommitPublish(r) \/ CopyDraft(r) \/ Die(r)
  BY <1>0, <1>2, LastStepChanges
<1>3. CASE \E intent \in Intents : CanIntend(r, intent) /\ Submit(r, intent)
  <2>1. PICK intent \in Intents : Submit(r, intent)
    BY <1>3
  <2>2. /\ Changes(r)
        /\ \/ request'[r] = Idle
           \/ /\ request'[r].step = "bump"
              /\ request'[r].version = DraftVersion
              /\ request'[r].token = request[r].token /\ request'[r].olds = request[r].olds
    BY <2>1, SubmitChanges
  <2> QED BY <1>0, <2>2
<1>4. CASE Bump(r)
  <2>1. /\ Changes(r)
        /\ request'[r].step \in {"read", "write"}
        /\ request[r].intent.op # "publish" => Keeps(r)
        /\ request[r].intent.op = "publish" => /\ request'[r].version = None /\ request'[r].olds = {}
                                               /\ request'[r].token = 0
    BY <1>4, BumpChanges
  <2> QED BY <2>1 DEF Keeps
<1>5. CASE Refuse(r)
  BY <1>5, RefuseChanges
<1>6. CASE Reapply(r)
  <2>1. /\ Changes(r)
        /\ \/ request'[r] = Idle
           \/ /\ request'[r].step = "bump"
              /\ request'[r].version = DraftVersion
              /\ request'[r].token = request[r].token /\ request'[r].olds = request[r].olds
    BY <1>6, ReapplyChanges
  <2> QED BY <1>0, <2>1
<1>7. CASE ReadMove(r)
  <2>1. Changes(r) /\ (request'[r] = Idle \/ (request'[r].step = "write" /\ Keeps(r)))
    BY <1>7, ReadMoveChanges
  <2> QED BY <1>0, <2>1 DEF Keeps
<1>8. CASE WriteMove(r) \/ WriteAdd(r) \/ WriteDelete(r)
  <2>1. Changes(r) /\ (request'[r] = Idle \/ (request'[r].step = "invalidate" /\ Keeps(r)))
    BY <1>8, WriteChanges
  <2> QED BY <1>0, <2>1 DEF Keeps
<1>9. CASE StartValidation(r)
  BY <1>9, ValidationChanges
<1>10. CASE ReadPublish(r)
  <2>1. /\ Changes(r)
        /\ \/ request'[r] = Idle
           \/ /\ request'[r].step = "supersede" /\ request'[r].version \in Publishable
              /\ request'[r].token = request[r].token /\ request'[r].olds = request[r].olds
    BY <1>10, ReadPublishChanges
  <2> QED BY <1>0, <2>1
<1>11. CASE Supersede(r) \/ ObtainLocks(r)
  BY <1>11, SupersedeChanges
<1>12. CASE StartDraft(r)
  BY <1>12, StartDraftChanges
<1> QED BY <1>1, <1>2, <1>3, <1>4, <1>5, <1>6, <1>7, <1>8, <1>9, <1>10, <1>11, <1>12 DEF Acts

\* Who is about to write rows was accepted in this step or before.
LEMMA StepsOfEdits ==
  ASSUME PlanTyped, RequestsTyped, NEW r \in Requests, Acts(r),
         request'[r].step \in {"read", "write", "invalidate"}
  PROVE  \/ Bump(r)
         \/ ReadMove(r) /\ request[r].step = "read" /\ request'[r].step = "write" /\ Keeps(r)
         \/ /\ WriteMove(r) \/ WriteAdd(r) \/ WriteDelete(r)
            /\ request[r].step = "write" /\ request'[r].step = "invalidate" /\ Keeps(r)
<1>0. Idle.step = "idle"
  BY DEF Idle
<1>1. CASE OpenPage(r)
  BY <1>1, OpenChanges
<1>2. CASE \/ LeavePage(r) \/ Invalidate(r) \/ Judge(r) \/ CommitPublish(r) \/ CopyDraft(r) \/ Die(r)
  BY <1>0, <1>2, LastStepChanges
<1>3. CASE \E intent \in Intents : CanIntend(r, intent) /\ Submit(r, intent)
  <2>1. PICK intent \in Intents : Submit(r, intent)
    BY <1>3
  <2>2. request'[r] = Idle \/ request'[r].step = "bump"
    BY <2>1, SubmitChanges
  <2> QED BY <1>0, <2>2
<1>4. CASE Refuse(r)
  BY <1>4, RefuseChanges
<1>5. CASE Reapply(r)
  <2>1. request'[r] = Idle \/ request'[r].step = "bump"
    BY <1>5, ReapplyChanges
  <2> QED BY <1>0, <2>1
<1>6. CASE ReadMove(r)
  <2>1. request'[r] = Idle \/ (request'[r].step = "write" /\ Keeps(r))
    BY <1>6, ReadMoveChanges
  <2>2. request[r].step = "read"
    BY <1>6 DEF ReadMove
  <2> QED BY <1>0, <1>6, <2>1, <2>2
<1>7. CASE WriteMove(r) \/ WriteAdd(r) \/ WriteDelete(r)
  <2>1. request'[r] = Idle \/ (request'[r].step = "invalidate" /\ Keeps(r))
    BY <1>7, WriteChanges
  <2>2. request[r].step = "write"
    BY <1>7 DEF WriteMove, WriteAdd, WriteDelete
  <2> QED BY <1>0, <1>7, <2>1, <2>2
<1>8. CASE StartValidation(r) \/ StartDraft(r)
  BY <1>8, ValidationChanges, StartDraftChanges
<1>9. CASE ReadPublish(r)
  <2>1. request'[r] = Idle \/ request'[r].step = "supersede"
    BY <1>9, ReadPublishChanges
  <2> QED BY <1>0, <2>1
<1>10. CASE Supersede(r) \/ ObtainLocks(r)
  BY <1>10, SupersedeChanges
<1> QED BY <1>1, <1>2, <1>3, <1>4, <1>5, <1>6, <1>7, <1>8, <1>9, <1>10 DEF Acts

\* Steps of which nothing but the request itself tells.
OwnStep(r) ==
    \/ OpenPage(r) \/ LeavePage(r)
    \/ \E intent \in Intents : CanIntend(r, intent) /\ Submit(r, intent)
    \/ Refuse(r) \/ Reapply(r) \/ ReadMove(r)
    \/ StartValidation(r) \/ ReadPublish(r) \/ Supersede(r) \/ ObtainLocks(r) \/ StartDraft(r)

LEMMA OwnStepsKeepThePlan ==
  ASSUME NEW r \in Requests, OwnStep(r)
  PROVE  UNCHANGED <<planVars, slips>> /\ request[r].step # "invalidate"
<1>1. CASE OpenPage(r) \/ LeavePage(r)
  BY <1>1 DEF OpenPage, LeavePage
<1>2. CASE \E intent \in Intents : CanIntend(r, intent) /\ Submit(r, intent)
  BY <1>2 DEF Submit
<1>3. CASE Refuse(r) \/ Reapply(r) \/ ReadMove(r)
  BY <1>3 DEF Refuse, Reapply, ReadMove
<1>4. CASE StartValidation(r) \/ ReadPublish(r) \/ Supersede(r) \/ ObtainLocks(r) \/ StartDraft(r)
  BY <1>4 DEF StartValidation, ReadPublish, Supersede, ObtainLocks, StartDraft
<1> QED BY <1>1, <1>2, <1>3, <1>4 DEF OwnStep

LEMMA TokensStep ==
  ASSUME PlanTyped, RequestsTyped, TokensPast, NEW r \in Requests, Acts(r)
  PROVE  TokensPast' /\ lock' \in {lock, lock + 1}
<1>1. lock' \in {lock, lock + 1}
  <2>1. CASE OwnStep(r)
    BY <2>1, OwnStepsKeepThePlan DEF planVars
  <2>2. CASE Bump(r)
    BY <2>2 DEF Bump
  <2>3. CASE WriteMove(r) \/ WriteAdd(r) \/ WriteDelete(r) \/ Invalidate(r) \/ Judge(r)
    BY <2>3 DEF WriteMove, WriteAdd, WriteDelete, Invalidate, Judge
  <2>4. CASE CommitPublish(r) \/ CopyDraft(r) \/ Die(r)
    BY <2>4 DEF CommitPublish, CopyDraft, Die, planVars
  <2> QED BY <2>1, <2>2, <2>3, <2>4 DEF Acts, OwnStep
<1>2. ASSUME NEW q \in Requests
      PROVE  /\ request'[q].token <= lock'
             /\ request'[q].step \in {"read", "write", "invalidate"} => request'[q].token < lock'
  <2>1. /\ request[q].token \in Nat /\ lock \in Nat /\ request[q].token <= lock
        /\ request[q].step \in {"read", "write", "invalidate"} => request[q].token < lock
    BY DEF PlanTyped, RequestsTyped, RequestType, TokensPast
  <2>2. request'[q].token \in {0, lock, request[q].token}
    BY CarriesWhatIsThere DEF Changes
  <2>3. request'[q].token <= lock'
    BY <1>1, <2>1, <2>2
  <2>4. ASSUME request'[q].step \in {"read", "write", "invalidate"} PROVE request'[q].token < lock'
    <3>1. CASE q # r
      <4>1. request'[q] = request[q]
        BY <3>1, CarriesWhatIsThere DEF Changes
      <4> QED BY <1>1, <2>1, <2>4, <4>1
    <3>2. CASE q = r
      <4>1. CASE Bump(r)
        <5>1. lock' = lock + 1
          BY <4>1 DEF Bump
        <5> QED BY <2>1, <2>2, <3>2, <5>1
      <4>2. CASE ~Bump(r)
        <5>1. request[r].step \in {"read", "write"} /\ request'[r].token = request[r].token
          BY <2>4, <3>2, <4>2, StepsOfEdits DEF Keeps
        <5> QED BY <1>1, <2>1, <3>2, <5>1
      <4> QED BY <4>1, <4>2
    <3> QED BY <3>1, <3>2
  <2> QED BY <2>3, <2>4
<1> QED BY <1>1, <1>2 DEF TokensPast

LEMMA SlipsAdd ==
  ASSUME PlanTyped, NEW v \in Versions, NEW names, Slips(v, names)
  PROVE  slips'[v] = slips[v] \cup names /\ \A u \in Versions \ {v} : slips'[u] = slips[u]
BY DEF PlanTyped, Slips

\* A publication's effect on the versions.
LEMMA PublicationEffect ==
  ASSUME PlanTyped, RequestsTyped, NEW r \in Requests, CommitPublish(r)
  PROVE  LET v == request[r].version
         IN  /\ v \in Versions /\ request[r].step = "commit" /\ active' = v
             /\ UNCHANGED <<lock, report, nodes>>
             /\ status'[v] = "published"
             /\ frozen'[v] = IF frozen[v] = {} THEN {nodes[v]} ELSE frozen[v]
             /\ \A u \in Versions \ {v} :
                   /\ status'[u] = IF u \in request[r].olds THEN "superseded" ELSE status[u]
                   /\ frozen'[u] = frozen[u]
<1> DEFINE v == request[r].version
<1>1. request[r].step = "commit" /\ v \in Versions
  BY DEF CommitPublish, RequestsTyped, Coherent
<1>2. \A u \in Versions : status'[u] = IF u = v THEN "published"
                             ELSE IF u \in request[r].olds THEN "superseded" ELSE status[u]
  BY DEF CommitPublish
<1>3. frozen' = [frozen EXCEPT ![v] = IF @ = {} THEN {nodes[v]} ELSE @] /\ DOMAIN frozen = Versions
  BY DEF CommitPublish, PlanTyped
<1>4. /\ frozen'[v] = IF frozen[v] = {} THEN {nodes[v]} ELSE frozen[v]
      /\ \A u \in Versions \ {v} : frozen'[u] = frozen[u]
  BY <1>1, <1>3
<1>5. active' = v /\ UNCHANGED <<lock, report, nodes>>
  BY DEF CommitPublish
<1> QED BY <1>1, <1>2, <1>4, <1>5

\* A new draft is a version that was not there.
LEMMA CopyEffect ==
  ASSUME PlanTyped, RequestsTyped, Known, NEW r \in Requests, CopyDraft(r)
  PROVE  \E new \in Versions :
            /\ status[new] = "absent" /\ status'[new] = "draft"
            /\ Slips(new, IF Editable = {} THEN {} ELSE {"second"})
            /\ UNCHANGED <<lock, active, report, frozen>>
            /\ \A u \in Versions \ {new} : status'[u] = status[u] /\ nodes'[u] = nodes[u]
<1> DEFINE new == Max({v \in Versions : status[v] # "absent"}) + 1
<1>1. new \in Versions /\ status' = [status EXCEPT ![new] = "draft"]
      /\ Slips(new, IF Editable = {} THEN {} ELSE {"second"})
      /\ UNCHANGED <<lock, active, report, frozen>>
      /\ \E copy : nodes' = [nodes EXCEPT ![new] = copy]
  BY DEF CopyDraft
<1>2. status[new] = "absent"
  <2> HIDE DEF new
  <2>1. new = Max({v \in Versions : status[v] # "absent"}) + 1
    BY DEF new
  <2> QED BY <1>1, <2>1, NewVersion DEF Known
<1> HIDE DEF new
<1>3. /\ status'[new] = "draft"
      /\ \A u \in Versions \ {new} : status'[u] = status[u] /\ nodes'[u] = nodes[u]
  BY <1>1 DEF PlanTyped
<1> QED BY <1>1, <1>2, <1>3

LEMMA KnownInit == Init => Known
<1> SUFFICES ASSUME Init PROVE Known
  OBVIOUS
<1>1. 1 \in Versions /\ status[1] = "draft"
  BY BuilderAssumption DEF Init, Versions
<1>2. \A v \in Versions : status[v] \in {"draft", "absent"} /\ frozen[v] = {}
  BY DEF Init
<1>3. \A r \in Requests : request[r].version = None /\ request[r].olds = {}
  BY DEF Init, Idle
<1> QED BY <1>1, <1>2, <1>3 DEF Known, Init

LEMMA KnownStep ==
  ASSUME PlanTyped, RequestsTyped, Known, NEW r \in Requests, Acts(r)
  PROVE  Known'
<1> DEFINE There(v) == status[v] # "absent"
           Kept == /\ \A v \in Versions : /\ There(v) => There(v)'
                                          /\ frozen[v] # {} => frozen'[v] # {}
                                          /\ status'[v] = "absent" => frozen'[v] = {}
                                          /\ status'[v] \in {"published", "superseded"} => frozen'[v] # {}
                   /\ active' # None => There(active)' /\ active' \in Versions
<1>0. \A q \in Requests : /\ request[q].version # None => There(request[q].version)
                          /\ request[q].version \in Versions \cup {None}
                          /\ \A v \in request[q].olds : v \in Versions /\ frozen[v] # {}
  BY DEF Known, RequestsTyped, RequestType
<1>1. Kept
  <2>1. CASE OwnStep(r) \/ Bump(r) \/ Die(r) \/ WriteMove(r) \/ WriteAdd(r) \/ WriteDelete(r)
    <3>1. UNCHANGED <<status, frozen, active>>
      <4>1. CASE OwnStep(r)
        BY <4>1, OwnStepsKeepThePlan DEF planVars
      <4>2. CASE Bump(r) \/ Die(r)
        BY <4>2 DEF Bump, Die, versionVars, planVars
      <4>3. CASE WriteMove(r) \/ WriteAdd(r) \/ WriteDelete(r)
        BY <4>3 DEF WriteMove, WriteAdd, WriteDelete
      <4> QED BY <2>1, <4>1, <4>2, <4>3
    <3> QED BY <3>1 DEF Known, PlanTyped
  <2>2. CASE Invalidate(r)
    <3>1. /\ UNCHANGED <<active, frozen>>
          /\ \A v \in Versions : \/ status'[v] = status[v]
                                 \/ /\ status[v] \in {"needs_fix", "publishable"}
                                    /\ status'[v] = "draft"
      BY <2>2 DEF Invalidate, Invalidated, PlanTyped
    <3> QED BY <3>1 DEF Known, PlanTyped
  <2>3. CASE Judge(r)
    <3>1. request[r].version \in Versions /\ There(request[r].version)
      BY <1>0, <2>3, DraftIsEditable DEF Judge, RequestsTyped, Coherent
    <3>2. /\ UNCHANGED <<active, frozen>>
          /\ \A v \in Versions : \/ status'[v] = status[v]
                                 \/ There(v) /\ status'[v] \in {"needs_fix", "publishable"}
      BY <2>3, <3>1 DEF Judge, PlanTyped
    <3> QED BY <3>2 DEF Known, PlanTyped
  <2>4. CASE CommitPublish(r)
    <3>1. /\ request[r].version \in Versions /\ active' = request[r].version
          /\ status'[request[r].version] = "published" /\ frozen'[request[r].version] # {}
      BY <2>4, PublicationEffect
    <3>2. \A u \in Versions \ {request[r].version} :
             /\ status'[u] = IF u \in request[r].olds THEN "superseded" ELSE status[u]
             /\ frozen'[u] = frozen[u]
      BY <2>4, PublicationEffect
    <3>3. \A u \in request[r].olds : frozen[u] # {} /\ status[u] # "absent"
      BY <1>0 DEF Known
    <3> QED BY <3>1, <3>2, <3>3 DEF Known
  <2>5. CASE CopyDraft(r)
    <3>1. PICK new \in Versions :
            /\ status[new] = "absent" /\ status'[new] = "draft"
            /\ UNCHANGED <<active, frozen>>
            /\ \A u \in Versions \ {new} : status'[u] = status[u]
      BY <2>5, CopyEffect
    <3> QED BY <3>1 DEF Known, PlanTyped
  <2> QED BY <2>1, <2>2, <2>3, <2>4, <2>5 DEF Acts, OwnStep
<1>2. ASSUME NEW q \in Requests
      PROVE  /\ request'[q].version # None => status'[request'[q].version] # "absent"
             /\ \A v \in request'[q].olds : frozen'[v] # {}
  <2>1. CASE q # r
    <3>1. request'[q] = request[q]
      BY <2>1, CarriesWhatIsThere DEF Changes
    <3> QED BY <1>0, <1>1, <3>1
  <2>2. CASE q = r
    <3>1. DraftVersion # None => There(DraftVersion) /\ DraftVersion \in Versions
      BY DraftIsEditable DEF Editable
    <3>2. active # None => There(active) /\ active \in Versions
      BY DEF Known, PlanTyped
    <3>3. \A v \in Publishable : There(v) /\ v \in Versions
      BY DEF Publishable
    <3>4. \A v \in Superseded : frozen[v] # {} /\ v \in Versions
      BY DEF Known, Superseded
    <3>5. /\ request'[r].version \in {None, request[r].version, DraftVersion, active} \cup Publishable
          /\ request'[r].olds \subseteq request[r].olds \cup Superseded
      BY CarriesWhatIsThere
    <3>6. request'[r].version # None => There(request'[r].version) /\ request'[r].version \in Versions
      BY <1>0, <3>1, <3>2, <3>3, <3>5
    <3>7. \A v \in request'[r].olds : v \in Versions /\ frozen[v] # {}
      BY <1>0, <3>4, <3>5
    <3> QED BY <1>1, <2>2, <3>6, <3>7
  <2> QED BY <2>1, <2>2
<1>3. \E v \in Versions : There(v)'
  BY <1>1 DEF Known
<1> QED BY <1>1, <1>2, <1>3 DEF Known

-----------------------------------------------------------------------------
(* What is published is what passed.                                       *)

\* Only a draft gets a new edit, and no edit gets back a token that was spent.
LEMMA EditsAreOfDrafts ==
  ASSUME PlanTyped, RequestsTyped, TokensPast, NEW r \in Requests, Acts(r),
         NEW q \in Requests, NEW v \in Versions, Editing(q, v)'
  PROVE  Editing(q, v) \/ v \in Editable
<1>1. /\ IsEdit(request'[q].intent) /\ request'[q].version = v
      /\ \/ request'[q].step \in {"read", "write", "invalidate"}
         \/ request'[q].step = "bump" /\ request'[q].token = lock'
  BY DEF Editing, TokenMatches
<1>2. CASE q # r
  <2>1. request'[q] = request[q]
    BY <1>2, CarriesWhatIsThere DEF Changes
  <2>2. request[q].token <= lock /\ request[q].token \in Nat /\ lock \in Nat
    BY DEF TokensPast, PlanTyped, RequestsTyped, RequestType
  <2>3. lock' \in {lock, lock + 1}
    BY TokensStep
  <2>4. request'[q].token = lock' => request[q].token = lock
    BY <2>1, <2>2, <2>3
  <2> QED BY <1>1, <2>1, <2>4 DEF Editing, TokenMatches
<1>3. CASE q = r
  <2>0. /\ DraftVersion = v => v \in Editable
        /\ Idle.step = "idle"
    BY DraftIsEditable DEF Idle
  <2>1. CASE OpenPage(r)
    BY <1>1, <1>3, <2>1, OpenChanges
  <2>2. CASE \/ LeavePage(r) \/ Invalidate(r) \/ Judge(r) \/ CommitPublish(r) \/ CopyDraft(r) \/ Die(r)
    BY <1>1, <1>3, <2>0, <2>2, LastStepChanges
  <2>3. CASE \E intent \in Intents : CanIntend(r, intent) /\ Submit(r, intent)
    <3>1. PICK intent \in Intents : Submit(r, intent)
      BY <2>3
    <3>2. request'[r] = Idle \/ request'[r].version = DraftVersion
      BY <3>1, SubmitChanges
    <3> QED BY <1>1, <1>3, <2>0, <3>2
  <2>4. CASE Bump(r)
    <3>1. request'[r].intent = request[r].intent
      BY <2>4, BumpChanges
    <3>2. request[r].intent.op # "publish"
      BY <1>1, <1>3, <3>1 DEF IsEdit
    <3>3. Keeps(r)
      BY <2>4, <3>2, BumpChanges
    <3> QED BY <1>1, <1>3, <2>4, <3>3 DEF Keeps, Editing, Bump
  <2>5. CASE Refuse(r)
    BY <1>1, <1>3, <2>5, RefuseChanges
  <2>6. CASE Reapply(r)
    <3>1. request'[r] = Idle \/ request'[r].version = DraftVersion
      BY <2>6, ReapplyChanges
    <3> QED BY <1>1, <1>3, <2>0, <3>1
  <2>7. CASE ReadMove(r)
    <3>1. request'[r] = Idle \/ Keeps(r)
      BY <2>7, ReadMoveChanges
    <3> QED BY <1>1, <1>3, <2>0, <2>7, <3>1 DEF Keeps, Editing, ReadMove
  <2>8. CASE WriteMove(r) \/ WriteAdd(r) \/ WriteDelete(r)
    <3>1. request'[r] = Idle \/ Keeps(r)
      BY <2>8, WriteChanges
    <3>2. request[r].step = "write"
      BY <2>8 DEF WriteMove, WriteAdd, WriteDelete
    <3> QED BY <1>1, <1>3, <2>0, <3>1, <3>2 DEF Keeps, Editing
  <2>9. CASE StartValidation(r)
    BY <1>1, <1>3, <2>9, ValidationChanges
  <2>10. CASE ReadPublish(r)
    BY <1>1, <1>3, <2>0, <2>10, ReadPublishChanges
  <2>11. CASE Supersede(r) \/ ObtainLocks(r)
    <3>1. request'[r].step \in {"wait", "commit"}
      BY <2>11, SupersedeChanges
    <3> QED BY <1>1, <1>3, <3>1
  <2>12. CASE StartDraft(r)
    BY <1>1, <1>3, <2>12, StartDraftChanges
  <2> QED BY <2>1, <2>2, <2>3, <2>4, <2>5, <2>6, <2>7, <2>8, <2>9, <2>10, <2>11, <2>12 DEF Acts
<1> QED BY <1>2, <1>3

\* A version that a step leaves alone, or supersedes, keeps its verdict.
LEMMA VerdictStays ==
  ASSUME PlanTyped, RequestsTyped, TokensPast, NEW r \in Requests, Acts(r),
         NEW v \in Versions, Sound(v) => Verdict(v),
         status'[v] \in {status[v], "superseded"},
         report'[v] = report[v], nodes'[v] = nodes[v], frozen'[v] = frozen[v], slips'[v] = slips[v],
         ~(request[r].step = "invalidate" /\ request[r].version = v)
  PROVE  (Sound(v) => Verdict(v))'
<1> SUFFICES ASSUME Sound(v)' PROVE Verdict(v)'
  OBVIOUS
<1>1. Verdict(v)
  BY DEF Sound
<1>2. \A q \in Requests \ {r} : request'[q] = request[q]
  BY CarriesWhatIsThere DEF Changes
<1>3. ASSUME status'[v] = "publishable"
      PROVE  /\ report'[v].ok /\ ValidateRoute(report'[v].on) = {}
             /\ \/ report'[v].on = nodes'[v]
                \/ \E q \in Requests : request'[q].step = "invalidate" /\ request'[q].version = v
  <2>1. /\ report[v].ok /\ ValidateRoute(report[v].on) = {}
        /\ \/ report[v].on = nodes[v]
           \/ \E q \in Requests : request[q].step = "invalidate" /\ request[q].version = v
    BY <1>1, <1>3 DEF Verdict
  <2> QED BY <1>2, <2>1
<1>4. ASSUME frozen'[v] # {}
      PROVE  /\ status'[v] \in {"published", "superseded"}
             /\ frozen'[v] = {nodes'[v]}
             /\ report'[v].ok /\ report'[v].on = nodes'[v]
             /\ ValidateRoute(nodes'[v]) = {}
             /\ \A q \in Requests : ~Editing(q, v)'
  <2>1. /\ status[v] \in {"published", "superseded"}
        /\ frozen[v] = {nodes[v]}
        /\ report[v].ok /\ report[v].on = nodes[v]
        /\ ValidateRoute(nodes[v]) = {}
        /\ \A q \in Requests : ~Editing(q, v)
    BY <1>1, <1>4 DEF Verdict
  <2>2. v \notin Editable
    BY <2>1 DEF Editable
  <2> QED BY <2>1, <2>2, EditsAreOfDrafts
<1> QED BY <1>3, <1>4 DEF Verdict, ValidateRoute

\* An edit that wrote is still to withdraw the verdict.
LEMMA WritesKeepVerdicts ==
  ASSUME PlanTyped, RequestsTyped, TokensPast, VerdictsStand, NEW r \in Requests, Acts(r),
         WriteMove(r) \/ WriteAdd(r) \/ WriteDelete(r)
  PROVE  VerdictsStand'
<1> SUFFICES ASSUME NEW v, v = request[r].version PROVE VerdictsStand'
  OBVIOUS
<1>1. /\ UNCHANGED <<status, report, frozen, slips>> /\ request[r].step = "write"
      /\ \A u \in Versions \ {v} : nodes'[u] = nodes[u]
  BY DEF WriteMove, WriteAdd, WriteDelete, PlanTyped
<1>2. v \in Versions /\ Editing(r, v)
  BY <1>1 DEF RequestsTyped, Coherent, EditSteps, Editing
<1>3. request'[r] = Idle \/ (request'[r].step = "invalidate" /\ request'[r].version = v)
  BY WriteChanges DEF Keeps
<1>4. request'[r] = Idle => UNCHANGED nodes
  <2> SUFFICES ASSUME request'[r] = Idle PROVE UNCHANGED nodes
    OBVIOUS
  <2>1. ~Goes(r, "invalidate")
    <3>1. Idle.step # "invalidate"
      BY DEF Idle
    <3> QED BY <3>1, GoesChanges
  <2>2. WriteDelete(r) /\ request[r].intent.node \notin DOMAIN nodes[v]
    BY <2>1 DEF WriteMove, WriteAdd, WriteDelete
  <2>3. nodes[v] \in Contents /\ v \in Versions
    BY <1>2 DEF PlanTyped
  <2>4. nodes[v] = [n \in DOMAIN nodes[v] |-> nodes[v][n]]
    BY <2>3, ContentsAreRows
  <2>5. Removed(nodes[v], request[r].intent.node) = nodes[v]
    BY <2>2, <2>4 DEF Removed
  <2>6. nodes' = [nodes EXCEPT ![v] = nodes[v]]
    BY <2>2, <2>5 DEF WriteDelete
  <2> QED BY <2>6 DEF PlanTyped
<1>5. ASSUME NEW u \in Versions PROVE (Sound(u) => Verdict(u))'
  <2>1. Sound(u) => Verdict(u)
    BY DEF VerdictsStand
  <2>2. CASE u # v \/ request'[r] = Idle
    BY <1>1, <1>4, <2>1, <2>2, VerdictStays
  <2>3. CASE u = v /\ request'[r] # Idle
    <3> SUFFICES ASSUME Sound(v)' PROVE Verdict(v)'
      BY <2>3
    <3>1. Verdict(v)
      BY <1>1, <2>1, <2>3 DEF Sound
    <3>2. frozen'[v] = {}
      BY <1>1, <1>2, <3>1 DEF Verdict
    <3>3. status'[v] = "publishable" => report'[v].ok /\ ValidateRoute(report'[v].on) = {}
      BY <1>1, <3>1 DEF Verdict
    <3>4. \E q \in Requests : request'[q].step = "invalidate" /\ request'[q].version = v
      BY <1>3, <2>3
    <3> QED BY <3>2, <3>3, <3>4 DEF Verdict, ValidateRoute
  <2> QED BY <2>2, <2>3
<1> QED BY <1>5 DEF VerdictsStand

\* An edit that ends has withdrawn the verdict on its version; one that dies
\* before it has is cut off.
LEMMA EndsKeepVerdicts ==
  ASSUME PlanTyped, RequestsTyped, TokensPast, VerdictsStand, NEW r \in Requests, Acts(r),
         Invalidate(r) \/ Die(r)
  PROVE  VerdictsStand'
<1> SUFFICES ASSUME NEW v, v = request[r].version PROVE VerdictsStand'
  OBVIOUS
<1>1. UNCHANGED <<nodes, frozen>>
  BY DEF Invalidate, Die, planVars
<1>2. request[r].step = "invalidate" => v \in Versions /\ Editing(r, v)
  BY DEF RequestsTyped, Coherent, EditSteps, Editing
<1>3. ASSUME NEW u \in Versions PROVE (Sound(u) => Verdict(u))'
  <2>1. Sound(u) => Verdict(u)
    BY DEF VerdictsStand
  <2>2. CASE request[r].step = "invalidate" /\ u = v
    <3> SUFFICES ASSUME Sound(v)' PROVE Verdict(v)'
      BY <2>2
    <3>1. CASE Invalidate(r)
      <4>1. /\ slips'[v] = slips[v]
            /\ status'[v] # "publishable"
        BY <1>2, <2>2, <3>1 DEF Invalidate, Invalidated, PlanTyped
      <4>2. Verdict(v)
        BY <2>1, <2>2, <4>1 DEF Sound
      <4>3. frozen'[v] = {}
        BY <1>1, <1>2, <2>2, <4>2 DEF Verdict
      <4> QED BY <4>1, <4>3 DEF Verdict
    <3>2. CASE Die(r)
      <4>1. slips'[v] = slips[v] \cup {"cut off"}
        BY <1>2, <2>2, <3>2, SlipsAdd DEF Die
      <4> QED BY <4>1 DEF Sound
    <3> QED BY <3>1, <3>2
  <2>3. CASE ~(request[r].step = "invalidate" /\ u = v)
    <3>1. CASE Invalidate(r)
      <4>1. status'[u] = status[u] /\ report'[u] = report[u] /\ slips'[u] = slips[u]
        BY <2>3, <3>1 DEF Invalidate, PlanTyped
      <4> QED BY <1>1, <2>1, <2>3, <4>1, VerdictStays
    <3>2. CASE Die(r)
      <4>1. status'[u] = status[u] /\ report'[u] = report[u]
        BY <3>2 DEF Die, planVars
      <4>2. slips'[u] = slips[u]
        BY <1>2, <2>3, <3>2, SlipsAdd DEF Die
      <4> QED BY <1>1, <2>1, <2>3, <4>1, <4>2, VerdictStays
    <3> QED BY <3>1, <3>2
  <2> QED BY <2>2, <2>3
<1> QED BY <1>3 DEF VerdictsStand

\* A verdict is on the rows that are there, or it is outdated.
LEMMA JudgingKeepsVerdicts ==
  ASSUME PlanTyped, RequestsTyped, TokensPast, VerdictsStand, NEW r \in Requests, Acts(r), Judge(r)
  PROVE  VerdictsStand'
<1> SUFFICES ASSUME NEW v, v = request[r].version PROVE VerdictsStand'
  OBVIOUS
<1> DEFINE ok == ValidateRoute(request[r].start) = {}
           names == IF v \notin Editable THEN {"overruled"}
                    ELSE IF nodes[v] # request[r].start THEN {"outdated"} ELSE {}
<1>1. UNCHANGED <<nodes, frozen>> /\ request[r].step = "judge" /\ v \in Versions
  BY DEF Judge, RequestsTyped, Coherent
<1>2. /\ \A u \in Versions \ {v} : status'[u] = status[u] /\ report'[u] = report[u]
      /\ status'[v] = IF ok THEN "publishable" ELSE "needs_fix"
      /\ report'[v] = [ok |-> ok, on |-> request[r].start]
  BY <1>1 DEF Judge, PlanTyped
<1>3. slips'[v] = slips[v] \cup names /\ \A u \in Versions \ {v} : slips'[u] = slips[u]
  BY <1>1, SlipsAdd DEF Judge
<1>4. ASSUME NEW u \in Versions PROVE (Sound(u) => Verdict(u))'
  <2>1. Sound(u) => Verdict(u)
    BY DEF VerdictsStand
  <2>2. CASE u # v
    BY <1>1, <1>2, <1>3, <2>1, <2>2, VerdictStays
  <2>3. CASE u = v
    <3> SUFFICES ASSUME Sound(v)' PROVE Verdict(v)'
      BY <2>3
    <3>1. v \in Editable /\ nodes[v] = request[r].start
      BY <1>3 DEF Sound
    <3>2. Verdict(v)
      BY <1>3, <2>1, <2>3 DEF Sound
    <3>3. frozen'[v] = {}
      BY <1>1, <3>1, <3>2 DEF Verdict, Editable
    <3>4. /\ status'[v] = "publishable" => ok
          /\ report'[v].ok = ok /\ report'[v].on = nodes'[v]
      BY <1>1, <1>2, <3>1
    <3>5. ok => ValidateRoute(report'[v].on) = {}
      BY <1>1, <3>1, <3>4
    <3> HIDE DEF ok
    <3> QED BY <3>3, <3>4, <3>5 DEF Verdict, ValidateRoute
  <2> QED BY <2>2, <2>3
<1> QED BY <1>4 DEF VerdictsStand

\* A publication freezes what its report is about, unless the verdict is
\* withdrawn or an edit is under way.
LEMMA PublishingKeepsVerdicts ==
  ASSUME PlanTyped, RequestsTyped, TokensPast, Known, VerdictsStand, NEW r \in Requests, Acts(r),
         CommitPublish(r)
  PROVE  VerdictsStand'
<1> SUFFICES ASSUME NEW v, v = request[r].version PROVE VerdictsStand'
  OBVIOUS
<1> DEFINE names == {slip \in {"edited", "withdrawn", "republished"} :
                       \/ slip = "edited" /\ \E q \in Requests : Editing(q, v)
                       \/ slip = "withdrawn" /\ status[v] \in {"draft", "needs_fix"}
                       \/ slip = "republished" /\ status[v] \in {"published", "superseded"}}
<1>1. /\ v \in Versions /\ request[r].step = "commit"
      /\ UNCHANGED <<lock, report, nodes>>
      /\ status'[v] = "published"
      /\ frozen'[v] = IF frozen[v] = {} THEN {nodes[v]} ELSE frozen[v]
      /\ \A u \in Versions \ {v} : status'[u] \in {status[u], "superseded"} /\ frozen'[u] = frozen[u]
  BY PublicationEffect
<1>2. slips'[v] = slips[v] \cup names /\ \A u \in Versions \ {v} : slips'[u] = slips[u]
  BY <1>1, SlipsAdd DEF CommitPublish
<1>3. ASSUME NEW u \in Versions PROVE (Sound(u) => Verdict(u))'
  <2>1. Sound(u) => Verdict(u)
    BY DEF VerdictsStand
  <2>2. CASE u # v
    BY <1>1, <1>2, <2>1, <2>2, VerdictStays
  <2>3. CASE u = v
    <3> SUFFICES ASSUME Sound(v)' PROVE Verdict(v)'
      BY <2>3
    <3>1. /\ \A q \in Requests : ~Editing(q, v)
          /\ status[v] \notin {"draft", "needs_fix"}
      BY <1>2 DEF Sound
    <3>2. Verdict(v)
      BY <1>2, <2>1, <2>3 DEF Sound
    <3>3. status[v] \in {"publishable", "published", "superseded"}
      <4>1. status[v] # "absent"
        BY <1>1, DraftIsEditable DEF Known
      <4> QED BY <1>1, <3>1, <4>1 DEF PlanTyped
    <3>4. /\ frozen'[v] = {nodes[v]}
          /\ report[v].ok /\ report[v].on = nodes[v] /\ ValidateRoute(nodes[v]) = {}
      <4>1. CASE status[v] = "publishable"
        <5>1. \A q \in Requests : ~(request[q].step = "invalidate" /\ request[q].version = v)
          BY <1>1, <3>1 DEF Editing, RequestsTyped, Coherent
        <5>2. /\ report[v].ok /\ report[v].on = nodes[v] /\ ValidateRoute(report[v].on) = {}
              /\ frozen[v] = {}
          BY <3>2, <4>1, <5>1 DEF Verdict
        <5> QED BY <1>1, <5>2
      <4>2. CASE status[v] \in {"published", "superseded"}
        <5>1. frozen[v] # {}
          BY <1>1, <4>2 DEF Known
        <5> QED BY <1>1, <3>2, <5>1 DEF Verdict
      <4> QED BY <3>3, <4>1, <4>2
    <3>5. ASSUME NEW q \in Requests PROVE ~Editing(q, v)'
      <4>1. CASE q = r
        <5>1. request'[r].step = "idle"
          BY LastStepChanges DEF Idle
        <5> QED BY <4>1, <5>1 DEF Editing
      <4>2. CASE q # r
        <5>1. request'[q] = request[q]
          BY <4>2, CarriesWhatIsThere DEF Changes
        <5> QED BY <1>1, <3>1, <5>1 DEF Editing, TokenMatches
      <4> QED BY <4>1, <4>2
    <3> QED BY <1>1, <3>4, <3>5 DEF Verdict, ValidateRoute
  <2> QED BY <2>2, <2>3
<1> QED BY <1>3 DEF VerdictsStand

\* Every step leaves verdicts that stand, or one of the races is on record.
LEMMA VerdictsStep ==
  ASSUME PlanTyped, RequestsTyped, TokensPast, Known, VerdictsStand, NEW r \in Requests, Acts(r)
  PROVE  VerdictsStand'
<1>1. CASE OwnStep(r) \/ Bump(r)
  <2>1. UNCHANGED <<status, report, nodes, frozen, slips>> /\ request[r].step # "invalidate"
    <3>1. CASE OwnStep(r)
      BY <3>1, OwnStepsKeepThePlan DEF planVars
    <3>2. CASE Bump(r)
      BY <3>2 DEF Bump, versionVars
    <3> QED BY <1>1, <3>1, <3>2
  <2>2. ASSUME NEW u \in Versions PROVE (Sound(u) => Verdict(u))'
    <3>1. Sound(u) => Verdict(u)
      BY DEF VerdictsStand
    <3> QED BY <2>1, <3>1, VerdictStays
  <2> QED BY <2>2 DEF VerdictsStand
<1>2. CASE CopyDraft(r)
  <2>1. PICK new \in Versions :
          /\ status[new] = "absent" /\ status'[new] = "draft"
          /\ Slips(new, IF Editable = {} THEN {} ELSE {"second"})
          /\ UNCHANGED <<lock, active, report, frozen>>
          /\ \A u \in Versions \ {new} : status'[u] = status[u] /\ nodes'[u] = nodes[u]
    BY <1>2, CopyEffect
  <2>2. \A u \in Versions \ {new} : slips'[u] = slips[u]
    BY <2>1, SlipsAdd
  <2>3. frozen'[new] = {}
    BY <2>1 DEF Known
  <2>4. ASSUME NEW u \in Versions PROVE (Sound(u) => Verdict(u))'
    <3>1. Sound(u) => Verdict(u)
      BY DEF VerdictsStand
    <3>2. CASE u = new
      BY <2>1, <2>3, <3>2 DEF Verdict
    <3>3. CASE u # new
      <4>1. request[r].step # "invalidate"
        BY <1>2 DEF CopyDraft
      <4> QED BY <2>1, <2>2, <3>1, <3>3, <4>1, VerdictStays
    <3> QED BY <3>2, <3>3
  <2> QED BY <2>4 DEF VerdictsStand
<1> QED BY <1>1, <1>2, WritesKeepVerdicts, EndsKeepVerdicts, JudgingKeepsVerdicts,
           PublishingKeepsVerdicts DEF Acts, OwnStep

-----------------------------------------------------------------------------
(* One version published, one edited.                                      *)

\* The record of lost races only grows.
LEMMA SlipsGrow ==
  ASSUME PlanTyped, RequestsTyped, Known, NEW r \in Requests, Acts(r)
  PROVE  \A v \in Versions : slips[v] \subseteq slips'[v]
<1>1. CASE OwnStep(r) \/ Bump(r) \/ WriteMove(r) \/ WriteAdd(r) \/ WriteDelete(r) \/ Invalidate(r)
  <2>1. UNCHANGED slips
    BY <1>1, OwnStepsKeepThePlan DEF Bump, WriteMove, WriteAdd, WriteDelete, Invalidate
  <2> QED BY <2>1
<1>2. CASE Judge(r) \/ CommitPublish(r)
  <2>1. request[r].version \in Versions /\ \E names : Slips(request[r].version, names)
    BY <1>2 DEF Judge, CommitPublish, RequestsTyped, Coherent
  <2> QED BY <2>1, SlipsAdd
<1>3. CASE CopyDraft(r)
  <2>1. \E new \in Versions : \E names : Slips(new, names)
    BY <1>3, CopyEffect
  <2> QED BY <2>1, SlipsAdd
<1>4. CASE Die(r)
  <2>1. CASE request[r].step = "invalidate"
    <3>1. request[r].version \in Versions
      BY <2>1 DEF RequestsTyped, Coherent, EditSteps
    <3> QED BY <1>4, <2>1, <3>1, SlipsAdd DEF Die
  <2>2. CASE request[r].step # "invalidate"
    BY <1>4, <2>2 DEF Die
  <2> QED BY <2>1, <2>2
<1> QED BY <1>1, <1>2, <1>3, <1>4 DEF Acts, OwnStep

LEMMA AloneBefore ==
  ASSUME PlanTyped, RequestsTyped, Known, NEW r \in Requests, Acts(r), Alone'
  PROVE  Alone
<1>1. ASSUME NEW v \in Versions PROVE slips[v] \cap {"overruled", "republished", "second"} = {}
  <2>1. slips'[v] \cap {"overruled", "republished", "second"} = {}
    BY DEF Alone
  <2> QED BY <2>1, SlipsGrow
<1> QED BY <1>1 DEF Alone

\* Where neither the version edited nor the one published changes.
LEMMA OneStays ==
  ASSUME PlanTyped, RequestsTyped, NEW r \in Requests, Acts(r), OneOfEach,
         active' = active, Editable' = Editable, Superseded' = Superseded
  PROVE  OneOfEach'
<1>1. {v \in Versions : status'[v] = "published"} = {active'} \ {None}
  BY DEF OneOfEach, Superseded
<1>2. \A v, w \in Editable' : v = w
  BY DEF OneOfEach
<1>3. ASSUME NEW q \in Requests, request'[q].step \in {"wait", "commit"}, request'[q].version \in Editable'
      PROVE  request'[q].olds = Superseded'
  <2>1. CASE q # r
    <3>1. request'[q] = request[q]
      BY <2>1, CarriesWhatIsThere DEF Changes
    <3> QED BY <1>3, <3>1 DEF OneOfEach
  <2>2. CASE q = r
    <3>1. Supersede(r) \/ ObtainLocks(r)
      BY <1>3, <2>2, CarriesWhatIsThere
    <3>2. /\ request'[r].olds = IF Supersede(r) THEN Superseded ELSE request[r].olds \cap Superseded
          /\ request'[r].version = request[r].version
      BY <3>1, SupersedeChanges
    <3>3. CASE Supersede(r)
      BY <2>2, <3>2, <3>3
    <3>4. CASE ~Supersede(r)
      <4>1. request[r].step = "wait"
        BY <3>1, <3>4 DEF ObtainLocks
      <4>2. request[r].olds = Superseded
        BY <1>3, <2>2, <3>2, <4>1 DEF OneOfEach
      <4> QED BY <2>2, <3>2, <3>4, <4>2
    <3> QED BY <3>3, <3>4
  <2> QED BY <2>1, <2>2
<1> QED BY <1>1, <1>2, <1>3 DEF OneOfEach

\* A step that changes a status among those of a draft.
LEMMA DraftStaysDraft ==
  ASSUME NEW v \in Editable, \A u \in Versions \ {v} : status'[u] = status[u],
         status'[v] \in {"draft", "needs_fix", "publishable"}
  PROVE  Editable' = Editable /\ Superseded' = Superseded
BY DEF Editable, Superseded

LEMMA OneStep ==
  ASSUME PlanTyped, RequestsTyped, Known, NEW r \in Requests, Acts(r), Alone => OneOfEach
  PROVE  (Alone => OneOfEach)'
<1> SUFFICES ASSUME Alone' PROVE OneOfEach'
  OBVIOUS
<1>0. OneOfEach
  BY AloneBefore
<1> DEFINE v == request[r].version
<1>1. CASE OwnStep(r) \/ Bump(r) \/ WriteMove(r) \/ WriteAdd(r) \/ WriteDelete(r) \/ Die(r)
  <2>1. UNCHANGED <<status, active>>
    <3>1. CASE OwnStep(r)
      BY <3>1, OwnStepsKeepThePlan DEF planVars
    <3>2. CASE Bump(r) \/ Die(r)
      BY <3>2 DEF Bump, Die, versionVars, planVars
    <3>3. CASE WriteMove(r) \/ WriteAdd(r) \/ WriteDelete(r)
      BY <3>3 DEF WriteMove, WriteAdd, WriteDelete
    <3> QED BY <1>1, <3>1, <3>2, <3>3
  <2>2. active' = active /\ Editable' = Editable /\ Superseded' = Superseded
    BY <2>1 DEF Editable, Superseded
  <2> QED BY <1>0, <2>2, OneStays
<1>2. CASE Invalidate(r)
  <2>1. active' = active
    BY <1>2 DEF Invalidate
  <2>2. Editable' = Editable /\ Superseded' = Superseded
    <3>1. CASE Invalidated(v)
      <4>1. v \in Editable
        <5>1. v \in Versions
          BY <1>2 DEF Invalidate, RequestsTyped, Coherent, EditSteps
        <5> QED BY <3>1, <5>1 DEF Invalidated, Editable
      <4>2. /\ \A u \in Versions \ {v} : status'[u] = status[u]
            /\ status'[v] = "draft"
        BY <1>2, <3>1, <4>1 DEF Invalidate, PlanTyped, Editable
      <4> QED BY <4>1, <4>2, DraftStaysDraft
    <3>2. CASE ~Invalidated(v)
      BY <1>2, <3>2 DEF Invalidate, Editable, Superseded
    <3> QED BY <3>1, <3>2
  <2> QED BY <1>0, <2>1, <2>2, OneStays
<1>3. CASE Judge(r)
  <2>1. v \in Versions /\ active' = active
    BY <1>3 DEF Judge, RequestsTyped, Coherent
  <2>2. v \in Editable
    <3> SUFFICES ASSUME v \notin Editable PROVE FALSE
      OBVIOUS
    <3>1. Slips(v, {"overruled"})
      BY <1>3 DEF Judge
    <3>2. "overruled" \in slips'[v]
      BY <2>1, <3>1, SlipsAdd
    <3> QED BY <2>1, <3>2 DEF Alone
  <2>3. /\ \A u \in Versions \ {v} : status'[u] = status[u]
        /\ status'[v] \in {"draft", "needs_fix", "publishable"}
    BY <1>3, <2>1 DEF Judge, PlanTyped
  <2>4. Editable' = Editable /\ Superseded' = Superseded
    BY <2>2, <2>3, DraftStaysDraft
  <2> QED BY <1>0, <2>1, <2>4, OneStays
<1>4. CASE CommitPublish(r)
  <2>1. /\ v \in Versions /\ request[r].step = "commit" /\ active' = v
        /\ status'[v] = "published"
        /\ \A u \in Versions \ {v} :
              status'[u] = IF u \in request[r].olds THEN "superseded" ELSE status[u]
    BY <1>4, PublicationEffect
  <2>2. status[v] \notin {"published", "superseded"}
    <3> SUFFICES ASSUME status[v] \in {"published", "superseded"} PROVE FALSE
      OBVIOUS
    <3>1. "republished" \in slips'[v]
      BY <1>4, <2>1, SlipsAdd DEF CommitPublish
    <3> QED BY <2>1, <3>1 DEF Alone
  <2>3. v \in Editable
    <3>1. status[v] # "absent"
      BY <2>1, DraftIsEditable DEF Known
    <3> QED BY <2>1, <2>2, <3>1 DEF Editable, PlanTyped
  <2>4. request[r].olds = Superseded
    BY <1>0, <2>1, <2>3 DEF OneOfEach
  <2>5. Editable' = {}
    <3>1. ASSUME NEW u \in Versions \ {v} PROVE status'[u] \notin {"draft", "needs_fix", "publishable"}
      <4>1. u \notin Editable
        BY <1>0, <2>3 DEF OneOfEach
      <4> QED BY <2>1, <4>1 DEF Editable
    <3> QED BY <2>1, <3>1 DEF Editable
  <2>6. {u \in Versions : status'[u] = "published"} = {v}
    <3>1. ASSUME NEW u \in Versions \ {v} PROVE status'[u] # "published"
      BY <2>1, <2>4 DEF Superseded
    <3> QED BY <2>1, <3>1
  <2>7. v # None
    BY <2>1, DraftIsEditable
  <2> QED BY <2>1, <2>5, <2>6, <2>7 DEF OneOfEach
<1>5. CASE CopyDraft(r)
  <2>1. PICK new \in Versions :
          /\ status[new] = "absent" /\ status'[new] = "draft"
          /\ Slips(new, IF Editable = {} THEN {} ELSE {"second"})
          /\ active' = active
          /\ \A u \in Versions \ {new} : status'[u] = status[u]
    BY <1>5, CopyEffect
  <2>2. Editable = {}
    <3> SUFFICES ASSUME Editable # {} PROVE FALSE
      OBVIOUS
    <3>1. Slips(new, {"second"})
      BY <2>1
    <3>2. "second" \in slips'[new]
      BY <3>1, SlipsAdd
    <3> QED BY <3>2 DEF Alone
  <2>3. \A u \in Editable' : u = new
    BY <2>1, <2>2 DEF Editable
  <2>4. {u \in Versions : status'[u] = "published"} = {u \in Versions : status[u] = "published"}
    BY <2>1
  <2>5. \A q \in Requests : request'[q].version # new
    <3>1. \A q \in Requests : request[q].version # new
      BY <2>1, DraftIsEditable DEF Known
    <3>2. Changes(r) /\ request'[r] = Idle
      BY <1>5, LastStepChanges
    <3>3. Idle.version # new
      BY DraftIsEditable DEF Idle
    <3> QED BY <3>1, <3>2, <3>3 DEF Changes
  <2> QED BY <1>0, <2>1, <2>3, <2>4, <2>5 DEF OneOfEach
<1> QED BY <1>1, <1>2, <1>3, <1>4, <1>5 DEF Acts, OwnStep

-----------------------------------------------------------------------------
(* What is on the page is what is stored.                                  *)

\* Steps that keep the draft and its rows.
DraftKept == Editable' = Editable /\ nodes' = nodes

LEMMA DraftKeptSame ==
  ASSUME DraftKept
  PROVE  DraftVersion' = DraftVersion /\ DraftNodes' = DraftNodes
BY DEF DraftKept, DraftVersion, DraftNodes

\* What the screen of r shows stays true while others read, are refused or judge.
LEMMA OthersStayCalm ==
  ASSUME PlanTyped, RequestsTyped, TokensPast, NEW s \in Requests, Acts(s), NEW r \in Requests \ {s}, Calm(r)
  PROVE  Calm(r)'
<1>1. Changes(s) /\ request'[r] = request[r]
  BY CarriesWhatIsThere DEF Changes
<1> SUFFICES ASSUME request[r].settled, request[r].token = lock',
                    request[r].step \in {"page", "conflict", "bump"}
             PROVE  Shown(r)'
  BY <1>1 DEF Calm
<1>2. ~Bump(s) /\ lock' = lock
  <2>1. request[r].token <= lock /\ request[r].token \in Nat /\ lock \in Nat
    BY DEF TokensPast, RequestsTyped, RequestType, PlanTyped
  <2>2. lock' = lock
    BY <2>1, TokensStep
  <2> QED BY <2>1, <2>2 DEF Bump
<1>3. Shown(r)
  BY <1>2 DEF Calm
<1>4. /\ request[s].step \in Screens \cup {"bump", "judge"}
      /\ request[s].step = "judge" => request[s].version = DraftVersion
  BY <1>3 DEF Shown
<1>5. DraftKept
  <2>1. CASE OwnStep(s)
    BY <2>1, OwnStepsKeepThePlan DEF DraftKept, planVars, Editable
  <2>2. CASE Judge(s)
    <3>1. request[s].version \in Editable
      BY <1>3, <1>4, <2>2, DraftIsEditable DEF Judge, Shown
    <3>2. /\ \A u \in Versions \ {request[s].version} : status'[u] = status[u]
          /\ status'[request[s].version] \in {"draft", "needs_fix", "publishable"}
      BY <2>2, <3>1 DEF Judge, PlanTyped, Editable
    <3> QED BY <2>2, <3>1, <3>2, DraftStaysDraft DEF DraftKept, Judge
  <2>3. CASE Die(s)
    BY <2>3 DEF Die, planVars, DraftKept, Editable
  <2>4. ~(WriteMove(s) \/ WriteAdd(s) \/ WriteDelete(s) \/ Invalidate(s) \/ CommitPublish(s) \/ CopyDraft(s))
    BY <1>4 DEF Screens, WriteMove, WriteAdd, WriteDelete, Invalidate, CommitPublish, CopyDraft
  <2> QED BY <1>2, <2>1, <2>2, <2>3, <2>4 DEF Acts, OwnStep
<1>6. DraftVersion' = DraftVersion /\ DraftNodes' = DraftNodes
  BY <1>5, DraftKeptSame
<1>7. /\ request'[s].step \in Screens \cup {"bump", "judge"}
      /\ request'[s].step = "judge" => request'[s].version = DraftVersion
  <2>0. Idle.step = "idle"
    BY DEF Idle
  <2>1. CASE OpenPage(s)
    BY <2>1, OpenChanges DEF Screens
  <2>2. CASE \/ LeavePage(s) \/ Invalidate(s) \/ Judge(s) \/ CommitPublish(s) \/ CopyDraft(s) \/ Die(s)
    BY <2>0, <2>2, LastStepChanges DEF Screens
  <2>3. CASE \E intent \in Intents : CanIntend(s, intent) /\ Submit(s, intent)
    <3>1. PICK intent \in Intents : Submit(s, intent)
      BY <2>3
    <3>2. request'[s] = Idle \/ request'[s].step = "bump"
      BY <3>1, SubmitChanges
    <3> QED BY <2>0, <3>2 DEF Screens
  <2>4. CASE Refuse(s)
    BY <2>4, RefuseChanges DEF Screens
  <2>5. CASE Reapply(s)
    <3>1. request'[s] = Idle \/ request'[s].step = "bump"
      BY <2>5, ReapplyChanges
    <3> QED BY <2>0, <3>1 DEF Screens
  <2>6. CASE StartValidation(s)
    BY <2>6, ValidationChanges
  <2>7. ~StartDraft(s)
    BY <1>3 DEF StartDraft, Shown
  <2>8. ~(ReadMove(s) \/ ReadPublish(s) \/ Supersede(s) \/ ObtainLocks(s)
          \/ WriteMove(s) \/ WriteAdd(s) \/ WriteDelete(s))
    BY <1>4 DEF Screens, ReadMove, ReadPublish, Supersede, ObtainLocks, WriteMove, WriteAdd, WriteDelete
  <2> QED BY <1>2, <2>1, <2>2, <2>3, <2>4, <2>5, <2>6, <2>7, <2>8 DEF Acts
<1>8. ASSUME NEW q \in Requests \ {r}
      PROVE  /\ request'[q].step \in Screens \cup {"bump", "judge"}
             /\ request'[q].step = "judge" => request'[q].version = DraftVersion'
  <2>1. CASE q = s
    BY <1>6, <1>7, <2>1
  <2>2. CASE q # s
    <3>1. request'[q] = request[q]
      BY <1>1, <2>2 DEF Changes
    <3> QED BY <1>3, <1>6, <3>1 DEF Shown
  <2> QED BY <2>1, <2>2
<1> QED BY <1>1, <1>3, <1>6, <1>8 DEF Shown

\* A screen is drawn from what is stored, and an edit is made on its screen.
LEMMA OwnScreenIsCalm ==
  ASSUME PlanTyped, RequestsTyped, NEW r \in Requests, Acts(r), Calm(r)
  PROVE  Calm(r)'
<1>0. /\ Changes(r) /\ Idle.step = "idle"
      /\ \A q \in Requests \ {r} : request'[q] = request[q]
  BY CarriesWhatIsThere DEF Idle, Changes
<1> SUFFICES ASSUME request'[r].settled, request'[r].token = lock',
                    request'[r].step \in {"page", "conflict", "bump"}
             PROVE  Shown(r)'
  BY DEF Calm
<1>1. CASE OpenPage(r) \/ Refuse(r)
  <2>1. UNCHANGED planVars
    BY <1>1, OwnStepsKeepThePlan DEF OwnStep
  <2>2. DraftVersion' = DraftVersion /\ DraftNodes' = DraftNodes
    BY <2>1, DraftKeptSame DEF DraftKept, planVars, Editable
  <2>3. /\ Settled(r)
        /\ \/ request'[r].step = "page" /\ request'[r].page = DraftNodes
           \/ request'[r].step = "conflict" /\ request'[r].start = DraftNodes
    BY <1>1, OpenChanges, RefuseChanges
  <2> QED BY <1>0, <2>2, <2>3 DEF Settled, Shown, Screens
<1>2. CASE \E intent \in Intents : CanIntend(r, intent) /\ Submit(r, intent)
  <2>1. PICK intent \in Intents : Submit(r, intent)
    BY <1>2
  <2>2. UNCHANGED planVars /\ request[r].step = "page"
    BY <2>1 DEF Submit
  <2>3. DraftVersion' = DraftVersion /\ DraftNodes' = DraftNodes
    BY <2>2, DraftKeptSame DEF DraftKept, planVars, Editable
  <2>4. /\ request'[r].step = "bump"
        /\ request'[r].version = DraftVersion /\ request'[r].start = DraftNodes
        /\ request'[r].token = request[r].token /\ request'[r].settled = request[r].settled
        /\ request'[r].page = request[r].page
    BY <1>0, <2>1, SubmitChanges
  <2>5. Shown(r)
    BY <2>2, <2>4 DEF Calm, planVars
  <2> QED BY <1>0, <2>2, <2>3, <2>4, <2>5 DEF Shown
<1>3. CASE Reapply(r)
  <2>2. UNCHANGED planVars /\ request[r].step = "conflict"
    BY <1>3 DEF Reapply
  <2>3. DraftVersion' = DraftVersion /\ DraftNodes' = DraftNodes
    BY <2>2, DraftKeptSame DEF DraftKept, planVars, Editable
  <2>4. /\ request'[r].step = "bump"
        /\ request'[r].version = DraftVersion /\ request'[r].start = DraftNodes
        /\ request'[r].token = request[r].token /\ request'[r].settled = request[r].settled
        /\ request'[r].page = request[r].start
    BY <1>0, <1>3, ReapplyChanges
  <2>5. Shown(r)
    BY <2>2, <2>4 DEF Calm, planVars
  <2> QED BY <1>0, <2>2, <2>3, <2>4, <2>5 DEF Shown
<1>4. CASE \/ LeavePage(r) \/ Invalidate(r) \/ Judge(r) \/ CommitPublish(r) \/ CopyDraft(r) \/ Die(r)
  BY <1>0, <1>4, LastStepChanges
<1>5. CASE Bump(r)
  BY <1>5, BumpChanges
<1>6. CASE ReadMove(r) \/ WriteMove(r) \/ WriteAdd(r) \/ WriteDelete(r)
  <2>1. request'[r] = Idle \/ request'[r].step \in {"write", "invalidate"}
    BY <1>6, ReadMoveChanges, WriteChanges
  <2> QED BY <1>0, <2>1
<1>7. CASE StartValidation(r) \/ StartDraft(r)
  BY <1>7, ValidationChanges, StartDraftChanges
<1>8. CASE ReadPublish(r)
  <2>1. request'[r] = Idle \/ request'[r].step = "supersede"
    BY <1>8, ReadPublishChanges
  <2> QED BY <1>0, <2>1
<1>9. CASE Supersede(r) \/ ObtainLocks(r)
  BY <1>9, SupersedeChanges
<1> QED BY <1>1, <1>2, <1>3, <1>4, <1>5, <1>6, <1>7, <1>8, <1>9 DEF Acts

-----------------------------------------------------------------------------
(* What an edit makes of the list.                                         *)

\* Without ties, the next sort order on a side is the neighbour in the list.
LEMMA NeighbourIsNext ==
  ASSUME NEW rows, IsRows(rows), IsInjective(rows), NEW n \in DOMAIN rows,
         NEW direction \in {"up", "down"}
  PROVE  Neighbours(rows, n, direction) = ListNeighbours(rows, n, direction)
<1> DEFINE D == DOMAIN rows
           N == Cardinality(D)
           L == InOrder(rows)
<1>1. /\ N \in Nat /\ \A m \in D : IndexOf(rows, m) \in 0..(N - 1)
      /\ \A k, m \in D : Before(rows, k, m) <=> IndexOf(rows, k) < IndexOf(rows, m)
      /\ \A k, m \in D : IndexOf(rows, k) = IndexOf(rows, m) => k = m
  BY IndexIsOrder
<1>2. /\ L \in [1..N -> D]
      /\ \A i \in 1..N : IndexOf(rows, L[i]) = i - 1
  BY InOrderLists
<1>3. \A m \in D : rows[m] \in Int
  BY DEF IsRows
<1>4. \A k, m \in D : rows[k] < rows[m] <=> IndexOf(rows, k) < IndexOf(rows, m)
  <2>1. \A k, m \in D : rows[k] < rows[m] <=> Before(rows, k, m)
    <3> SUFFICES ASSUME NEW k \in D, NEW m \in D PROVE rows[k] < rows[m] <=> Before(rows, k, m)
      OBVIOUS
    <3>1. rows[k] \in Int /\ rows[m] \in Int /\ k \in Nat /\ m \in Nat
      BY <1>3 DEF IsRows
    <3>2. rows[k] = rows[m] => k = m
      BY DEF IsInjective
    <3> QED BY <3>1, <3>2 DEF Before
  <2> QED BY <1>1, <2>1
<1> HIDE DEF N, L
<1>5. ASSUME NEW m \in D, NEW k \in D, IndexOf(rows, m) < IndexOf(rows, k)
      PROVE  /\ \E p \in D : IndexOf(rows, p) = IndexOf(rows, m) + 1
             /\ \E p \in D : IndexOf(rows, p) = IndexOf(rows, k) - 1
  <2>1. IndexOf(rows, m) \in 0..(N - 1) /\ IndexOf(rows, k) \in 0..(N - 1)
    BY <1>1
  <2>2. IndexOf(rows, m) + 2 \in 1..N /\ IndexOf(rows, k) \in 1..N
    BY <1>1, <1>5, <2>1
  <2>3. /\ IndexOf(rows, L[IndexOf(rows, m) + 2]) = (IndexOf(rows, m) + 2) - 1
        /\ IndexOf(rows, L[IndexOf(rows, k)]) = IndexOf(rows, k) - 1
        /\ L[IndexOf(rows, m) + 2] \in D /\ L[IndexOf(rows, k)] \in D
    BY <1>2, <2>2
  <2>4. (IndexOf(rows, m) + 2) - 1 = IndexOf(rows, m) + 1
    BY <2>1
  <2> QED BY <2>3, <2>4
<1>6. CASE direction = "up"
  <2>1. \A m \in D : m \in Neighbours(rows, n, direction) <=>
           /\ rows[m] < rows[n] /\ \A k \in D : rows[k] < rows[n] => rows[m] >= rows[k]
    BY <1>6 DEF Neighbours, Beyond
  <2>2. \A m \in D : m \in ListNeighbours(rows, n, direction) <=> IndexOf(rows, m) = IndexOf(rows, n) + (-1)
    BY <1>6 DEF ListNeighbours
  <2>3. ASSUME NEW m \in Neighbours(rows, n, direction) PROVE m \in ListNeighbours(rows, n, direction)
    <3>1. m \in D /\ rows[m] < rows[n]
      BY <1>6 DEF Neighbours, Beyond
    <3>2. IndexOf(rows, m) < IndexOf(rows, n)
      BY <1>4, <3>1
    <3>3. PICK p \in D : IndexOf(rows, p) = IndexOf(rows, n) - 1
      BY <1>5, <3>1, <3>2
    <3>4. rows[p] < rows[n]
      BY <1>1, <1>4, <3>3
    <3>5. ~(rows[m] < rows[p])
      BY <1>3, <2>1, <3>1, <3>4
    <3>6. ~(IndexOf(rows, m) < IndexOf(rows, p))
      BY <1>4, <3>1, <3>5
    <3>7. IndexOf(rows, m) = IndexOf(rows, n) + (-1)
      BY <1>1, <3>1, <3>2, <3>3, <3>6
    <3> QED BY <2>2, <3>1, <3>7
  <2>4. ASSUME NEW m \in ListNeighbours(rows, n, direction) PROVE m \in Neighbours(rows, n, direction)
    <3>1. m \in D /\ IndexOf(rows, m) = IndexOf(rows, n) + (-1)
      BY <2>2 DEF ListNeighbours
    <3>2. rows[m] < rows[n]
      BY <1>1, <1>4, <3>1
    <3>3. ASSUME NEW k \in D, rows[k] < rows[n] PROVE rows[m] >= rows[k]
      <4>1. IndexOf(rows, k) < IndexOf(rows, n)
        BY <1>4, <3>3
      <4>2. ~(IndexOf(rows, m) < IndexOf(rows, k))
        BY <1>1, <3>1, <4>1
      <4> QED BY <1>3, <1>4, <3>1, <4>2
    <3> QED BY <2>1, <3>1, <3>2, <3>3
  <2> QED BY <2>3, <2>4
<1>7. CASE direction = "down"
  <2>1. \A m \in D : m \in Neighbours(rows, n, direction) <=>
           /\ rows[m] > rows[n] /\ \A k \in D : rows[k] > rows[n] => rows[m] <= rows[k]
    BY <1>7 DEF Neighbours, Beyond
  <2>2. \A m \in D : m \in ListNeighbours(rows, n, direction) <=> IndexOf(rows, m) = IndexOf(rows, n) + 1
    BY <1>7 DEF ListNeighbours
  <2>3. ASSUME NEW m \in Neighbours(rows, n, direction) PROVE m \in ListNeighbours(rows, n, direction)
    <3>1. m \in D /\ rows[n] < rows[m]
      BY <1>3, <1>7 DEF Neighbours, Beyond
    <3>2. IndexOf(rows, n) < IndexOf(rows, m)
      BY <1>4, <3>1
    <3>3. PICK p \in D : IndexOf(rows, p) = IndexOf(rows, n) + 1
      BY <1>5, <3>1, <3>2
    <3>4. rows[n] < rows[p]
      BY <1>1, <1>4, <3>3
    <3>5. ~(rows[p] < rows[m])
      BY <1>3, <2>1, <3>1, <3>4
    <3>6. ~(IndexOf(rows, p) < IndexOf(rows, m))
      BY <1>4, <3>1, <3>5
    <3>7. IndexOf(rows, m) = IndexOf(rows, n) + 1
      BY <1>1, <3>1, <3>2, <3>3, <3>6
    <3> QED BY <2>2, <3>1, <3>7
  <2>4. ASSUME NEW m \in ListNeighbours(rows, n, direction) PROVE m \in Neighbours(rows, n, direction)
    <3>1. m \in D /\ IndexOf(rows, m) = IndexOf(rows, n) + 1
      BY <2>2 DEF ListNeighbours
    <3>2. rows[n] < rows[m]
      BY <1>1, <1>4, <3>1
    <3>3. ASSUME NEW k \in D, rows[n] < rows[k] PROVE rows[m] <= rows[k]
      <4>1. IndexOf(rows, n) < IndexOf(rows, k)
        BY <1>4, <3>3
      <4>2. ~(IndexOf(rows, k) < IndexOf(rows, m))
        BY <1>1, <3>1, <4>1
      <4> QED BY <1>3, <1>4, <3>1, <4>2
    <3> QED BY <1>3, <2>1, <3>1, <3>2, <3>3
  <2> QED BY <2>3, <2>4
<1> QED BY <1>6, <1>7

\* The rows a move writes over the others are those of the preview.
LEMMA MoveIsApplied ==
  ASSUME NEW rows, IsRows(rows), IsInjective(rows), NEW intent, intent.op = "move",
         intent.direction \in {"up", "down"},
         NEW m \in Neighbours(rows, intent.node, intent.direction)
  PROVE  LET n == intent.node
             new == Overwritten(rows, Swapped([k \in {m, n} |-> rows[k]], m, n))
         IN  new = ApplyIntent(rows, intent) /\ ReapplyPossible(rows, intent) /\ IsInjective(new)
<1> DEFINE n == intent.node
           new == Overwritten(rows, Swapped([k \in {m, n} |-> rows[k]], m, n))
<1>1. m \in DOMAIN rows /\ n \in DOMAIN rows
  BY DEF Neighbours, Beyond
<1>2. /\ m \in ListNeighbours(rows, n, intent.direction)
      /\ \A k \in ListNeighbours(rows, n, intent.direction) : k = m
  <2>1. m \in ListNeighbours(rows, n, intent.direction)
    BY <1>1, NeighbourIsNext
  <2>2. \A k, l \in ListNeighbours(rows, n, intent.direction) : IndexOf(rows, k) = IndexOf(rows, l)
    BY DEF ListNeighbours
  <2>3. \A k \in ListNeighbours(rows, n, intent.direction) : k \in DOMAIN rows
    BY DEF ListNeighbours
  <2> QED BY <2>1, <2>2, <2>3, IndexIsOrder
<1>3. ApplyIntent(rows, intent) = Swapped(rows, n, m)
  <2>1. (CHOOSE k \in ListNeighbours(rows, n, intent.direction) : TRUE) = m
    BY <1>2
  <2>2. ListNeighbours(rows, n, intent.direction) # {}
    BY <1>2
  <2> QED BY <1>1, <2>1, <2>2 DEF ApplyIntent
<1>4. new = [k \in DOMAIN rows |-> IF k = m THEN rows[n] ELSE IF k = n THEN rows[m] ELSE rows[k]]
  BY <1>1 DEF Overwritten, Swapped
<1>5. Swapped(rows, n, m) = [k \in DOMAIN rows |-> IF k = m THEN rows[n] ELSE IF k = n THEN rows[m] ELSE rows[k]]
  BY <1>1 DEF Swapped, IsRows
<1>6. ReapplyPossible(rows, intent)
  BY <1>1, <1>2 DEF ReapplyPossible
<1>7. IsInjective(new)
  <2> HIDE DEF new, n
  <2> QED BY <1>1, <1>4 DEF IsInjective
<1> QED BY <1>3, <1>4, <1>5, <1>6, <1>7

\* An added row is the last of the list, whatever its id.
LEMMA AddedIsLast ==
  ASSUME NEW rows, IsRows(rows), \A k \in DOMAIN rows : rows[k] \in Nat,
         NEW n \in Nat, n \notin DOMAIN rows
  PROVE  /\ InOrder(Added(rows, n)) = [i \in 1..(Cardinality(DOMAIN rows) + 1) |->
                                          IF i = Cardinality(DOMAIN rows) + 1 THEN n ELSE InOrder(rows)[i]]
         /\ \A k \in DOMAIN rows : rows[k] < Added(rows, n)[n] /\ Added(rows, n)[k] = rows[k]
         /\ DOMAIN Added(rows, n) = DOMAIN rows \cup {n}
<1> DEFINE D == DOMAIN rows
           N == Cardinality(D)
           L == InOrder(rows)
           new == Added(rows, n)
           M == InOrder(new)
<1>1. LastOrder(rows) \in Nat /\ \A k \in D : rows[k] <= LastOrder(rows)
  BY LastIsGreatest
<1>2. /\ DOMAIN new = D \cup {n} /\ new[n] = LastOrder(rows) + 1
      /\ \A k \in D : new[k] = rows[k]
  BY DEF Added
<1>3. \A k \in D : rows[k] < new[n]
  BY <1>1, <1>2
<1>4. IsRows(new)
  <2>1. new \in [D \cup {n} -> Int]
    BY <1>1 DEF Added, IsRows
  <2>2. IsFiniteSet(D \cup {n})
    BY FS_AddElement DEF IsRows
  <2>3. D \cup {n} \subseteq Nat
    BY DEF IsRows
  <2> HIDE DEF new
  <2> QED BY <1>2, <2>1, <2>2, <2>3 DEF IsRows
<1>5. N \in Nat /\ Cardinality(DOMAIN new) = N + 1
  <2>1. Cardinality(D \cup {n}) = N + 1
    BY FS_AddElement DEF IsRows
  <2> QED BY <1>2, <2>1, IndexIsOrder
<1> HIDE DEF new
<1>6. ASSUME NEW k \in D PROVE IndexOf(new, k) = IndexOf(rows, k)
  <2>1. \A j \in D : Before(new, j, k) <=> Before(rows, j, k)
    BY <1>2 DEF Before
  <2>2. ~Before(new, n, k)
    <3>1. rows[k] \in Int /\ new[n] \in Int /\ new[k] = rows[k] /\ rows[k] < new[n]
      BY <1>1, <1>2, <1>3
    <3> QED BY <3>1 DEF Before
  <2>3. RowsBefore(new, k) = RowsBefore(rows, k)
    BY <1>2, <2>1, <2>2 DEF RowsBefore
  <2> QED BY <2>3, IndexIsFront
<1>7. IndexOf(new, n) = N
  <2>1. \A j \in D : Before(new, j, n)
    BY <1>2, <1>3 DEF Before
  <2>2. ~Before(new, n, n)
    <3>1. n \in DOMAIN new
      BY <1>2
    <3> QED BY <1>4, <3>1, RowsAreOrdered
  <2>3. RowsBefore(new, n) = D
    BY <1>2, <2>1, <2>2 DEF RowsBefore
  <2> QED BY <2>3, IndexIsFront
<1>8. /\ M \in [1..(N + 1) -> D \cup {n}]
      /\ \A k \in D \cup {n} : M[IndexOf(new, k) + 1] = k
  BY <1>2, <1>4, <1>5, InOrderLists
<1>9. /\ L \in [1..N -> D]
      /\ \A i \in 1..N : IndexOf(rows, L[i]) = i - 1
  BY InOrderLists
<1> HIDE DEF N, L, M
<1>10. ASSUME NEW i \in 1..N PROVE M[i] = L[i]
  <2>1. L[i] \in D /\ IndexOf(new, L[i]) = i - 1
    BY <1>6, <1>9
  <2>2. M[(i - 1) + 1] = L[i]
    BY <1>8, <2>1
  <2>3. (i - 1) + 1 = i
    BY <1>5
  <2> QED BY <2>2, <2>3
<1>11. M[N + 1] = n
  BY <1>7, <1>8
<1>12. M = [i \in 1..(N + 1) |-> IF i = N + 1 THEN n ELSE L[i]]
  <2>1. \A i \in 1..(N + 1) : M[i] = IF i = N + 1 THEN n ELSE L[i]
    <3>1. \A i \in 1..(N + 1) : i # N + 1 => i \in 1..N
      BY <1>5
    <3> QED BY <1>10, <1>11, <3>1
  <2> QED BY <1>8, <2>1
<1> QED BY <1>2, <1>3, <1>12 DEF M, L, N, new

LEMMA AddedItems ==
  ASSUME NEW rows, IsRows(rows), \A k \in DOMAIN rows : rows[k] \in Nat,
         NEW m \in Nat, m \notin DOMAIN rows, NEW n \in Nat, n \notin DOMAIN rows, ItemOf(m) = ItemOf(n)
  PROVE  ItemsInOrder(Added(rows, m)) = ItemsInOrder(Added(rows, n))
<1> DEFINE N == Cardinality(DOMAIN rows)
           L == InOrder(rows)
           A == InOrder(Added(rows, m))
           B == InOrder(Added(rows, n))
<1>1. /\ A = [i \in 1..(N + 1) |-> IF i = N + 1 THEN m ELSE L[i]]
      /\ B = [i \in 1..(N + 1) |-> IF i = N + 1 THEN n ELSE L[i]]
  BY AddedIsLast
<1> HIDE DEF A, B, N, L
<1>2. DOMAIN A = DOMAIN B /\ \A i \in DOMAIN A : ItemOf(A[i]) = ItemOf(B[i])
  BY <1>1
<1>3. [i \in DOMAIN A |-> ItemOf(A[i])] = [i \in DOMAIN B |-> ItemOf(B[i])]
  BY <1>2
<1> QED BY <1>3 DEF ItemsInOrder, A, B

LEMMA CalmStep ==
  ASSUME PlanTyped, RequestsTyped, TokensPast, NEW s \in Requests, Acts(s), NEW r \in Requests, Calm(r)
  PROVE  Calm(r)'
<1>1. CASE r = s
  BY <1>1, OwnScreenIsCalm
<1>2. CASE r # s
  BY <1>2, OthersStayCalm
<1> QED BY <1>1, <1>2

-----------------------------------------------------------------------------
(* An edit does what was previewed.                                        *)

\* What is added was looked for among the rows the edit starts from.
LEMMA AddsStep ==
  ASSUME PlanTyped, RequestsTyped, AddsAreNew, NEW r \in Requests, Acts(r)
  PROVE  AddsAreNew'
<1>0. /\ Changes(r) /\ Idle.step = "idle"
  BY CarriesWhatIsThere DEF Idle
<1> SUFFICES ASSUME NEW q \in Requests, request'[q].intent.op = "add", request'[q].step \in {"bump", "write"}
             PROVE  \A n \in DOMAIN request'[q].start : ItemOf(n) # request'[q].intent.node
  BY DEF AddsAreNew
<1>1. CASE q # r
  <2>1. request'[q] = request[q]
    BY <1>0, <1>1 DEF Changes
  <2> QED BY <2>1 DEF AddsAreNew
<1>2. CASE q = r
  <2>1. CASE \E intent \in Intents : CanIntend(r, intent) /\ Submit(r, intent)
    <3>1. PICK intent \in Intents : CanIntend(r, intent) /\ Submit(r, intent)
      BY <2>1
    <3>2. request'[r].intent = intent /\ request'[r].start = DraftNodes
      BY <1>0, <1>2, <3>1, SubmitChanges
    <3> QED BY <1>2, <3>1, <3>2 DEF CanIntend, IsNew
  <2>2. CASE Reapply(r)
    <3>1. request'[r].intent = request[r].intent /\ request'[r].start = DraftNodes
      BY <1>0, <1>2, <2>2, ReapplyChanges
    <3> QED BY <1>2, <2>2, <3>1 DEF Reapply, IsNew
  <2>3. CASE Bump(r)
    <3>1. request'[r].intent = request[r].intent
      BY <2>3, BumpChanges
    <3>2. request[r].step = "bump" /\ Keeps(r)
      BY <1>2, <2>3, <3>1, BumpChanges DEF Bump
    <3> QED BY <1>2, <3>1, <3>2 DEF AddsAreNew, Keeps
  <2>4. ~ReadMove(r)
    <3> SUFFICES ASSUME ReadMove(r) PROVE FALSE
      OBVIOUS
    <3>1. Keeps(r) /\ request[r].intent.op = "move"
      BY <1>0, <1>2, ReadMoveChanges DEF ReadMove
    <3> QED BY <1>2, <3>1 DEF Keeps
  <2>5. ~(OpenPage(r) \/ Refuse(r) \/ StartValidation(r) \/ StartDraft(r) \/ Supersede(r) \/ ObtainLocks(r))
    BY <1>2, OpenChanges, RefuseChanges, ValidationChanges, StartDraftChanges, SupersedeChanges
  <2>6. ~(LeavePage(r) \/ Invalidate(r) \/ Judge(r) \/ CommitPublish(r) \/ CopyDraft(r) \/ Die(r))
    BY <1>0, <1>2, LastStepChanges
  <2>7. ~(WriteMove(r) \/ WriteAdd(r) \/ WriteDelete(r))
    BY <1>0, <1>2, WriteChanges
  <2>8. ~ReadPublish(r)
    BY <1>0, <1>2, ReadPublishChanges
  <2> QED BY <2>1, <2>2, <2>3, <2>4, <2>5, <2>6, <2>7, <2>8 DEF Acts
<1> QED BY <1>1, <1>2

\* Two increments, or one edit, at a time.
LEMMA OthersStayAway ==
  ASSUME PlanTyped, RequestsTyped, NEW s \in Requests, Acts(s), ~Bump(s),
         NEW q \in Requests, AtRows(q)'
  PROVE  AtRows(q)
<1>1. CASE q # s
  <2>1. request'[q] = request[q]
    BY <1>1, CarriesWhatIsThere DEF Changes
  <2> QED BY <2>1 DEF AtRows
<1>2. CASE q = s
  <2>1. request'[s].step \in {"read", "write", "invalidate"} /\ IsEdit(request'[s].intent)
    BY <1>2 DEF AtRows
  <2>2. request[s].step \in {"read", "write"} /\ Keeps(s)
    BY <2>1, StepsOfEdits
  <2> QED BY <1>2, <2>1, <2>2 DEF AtRows, Keeps
<1> QED BY <1>1, <1>2

\* Of an accepted edit, on the rows its screen showed.
LEMMA AcceptedIsForeseen ==
  ASSUME PlanTyped, RequestsTyped, NEW r \in Requests, Acts(r), Bump(r), Calm(r)
  PROVE  Previewed(r)'
<1> SUFFICES ASSUME Undisturbed(r)' PROVE Foreseen(r)'
  BY DEF Previewed
<1>1. /\ Changes(r)
      /\ request'[r].step \in {"read", "write"}
      /\ request'[r].step = "write" => request[r].intent.op # "move"
      /\ request'[r].intent = request[r].intent
  BY BumpChanges
<1>2. IsEdit(request[r].intent) /\ request'[r].settled
  BY <1>1 DEF Undisturbed
<1>3. Keeps(r)
  BY <1>2, BumpChanges DEF IsEdit
<1>4. Shown(r) /\ request[r].step = "bump" /\ nodes' = nodes
  BY <1>2, <1>3 DEF Calm, Bump, TokenMatches, Keeps, versionVars
<1>5. request[r].start = nodes[request[r].version]
  BY <1>4, DraftIsEditable DEF Shown
<1>6. ASSUME NEW q \in Requests \ {r} PROVE ~AtRows(q)'
  <2>1. request'[q] = request[q] /\ request[q].step \in Screens \cup {"bump", "judge"}
    BY <1>1, <1>4 DEF Changes, Shown
  <2> QED BY <2>1 DEF AtRows, Screens
<1> QED BY <1>1, <1>3, <1>4, <1>5, <1>6 DEF Foreseen, Keeps, AtRows

\* The neighbour is found among the rows its screen showed.
LEMMA MovesAreForeseen ==
  ASSUME PlanTyped, RequestsTyped, TokensPast, NEW r \in Requests, Acts(r), ReadMove(r), Previewed(r)
  PROVE  Previewed(r)'
<1> SUFFICES ASSUME Undisturbed(r)' PROVE Foreseen(r)'
  BY DEF Previewed
<1>1. request[r].step = "read" /\ request[r].intent.op = "move" /\ UNCHANGED planVars /\ ~Bump(r)
  BY DEF ReadMove, Bump
<1>2. Idle.step = "idle"
  BY DEF Idle
<1> DEFINE rows == nodes[request[r].version]
           n == request[r].intent.node
<1>3. /\ Changes(r) /\ request'[r].step = "write" /\ Keeps(r)
      /\ \E m \in Neighbours(rows, n, request[r].intent.direction) :
            request'[r].swap = Swapped([k \in {m, n} |-> rows[k]], m, n)
  BY <1>2, ReadMoveChanges DEF Undisturbed
<1>4. Undisturbed(r)
  BY <1>1, <1>3 DEF Undisturbed, Keeps, planVars
<1>5. Foreseen(r) /\ request[r].start = rows
  BY <1>1, <1>4 DEF Previewed, Foreseen
<1>6. ASSUME NEW q \in Requests \ {r} PROVE ~AtRows(q)'
  <2>1. request'[q] = request[q]
    BY <1>3 DEF Changes
  <2> QED BY <1>5, <2>1 DEF AtRows, Foreseen
<1>7. request'[r].start = nodes'[request'[r].version]
  BY <1>1, <1>3, <1>5 DEF Keeps, planVars
<1>8. \E m \in Neighbours(nodes'[request'[r].version], request'[r].intent.node, request'[r].intent.direction) :
         request'[r].swap = Swapped([k \in {m, request'[r].intent.node} |-> nodes'[request'[r].version][k]],
                                    m, request'[r].intent.node)
  BY <1>1, <1>3 DEF Keeps, planVars
<1> QED BY <1>3, <1>6, <1>7, <1>8 DEF Foreseen, AtRows

\* What an edit writes is what its preview shows.
LEMMA WritesAreForeseen ==
  ASSUME PlanTyped, RequestsTyped, TokensPast, AddsAreNew, NEW r \in Requests, Acts(r), Previewed(r),
         WriteMove(r) \/ WriteAdd(r) \/ WriteDelete(r)
  PROVE  Previewed(r)'
<1> SUFFICES ASSUME Undisturbed(r)' PROVE Foreseen(r)'
  BY DEF Previewed
<1> SUFFICES ASSUME NEW v, v = request[r].version,
                    NEW intent, intent = request[r].intent,
                    NEW rows, rows = nodes[v]
             PROVE  Foreseen(r)'
  OBVIOUS
<1>1. request[r].step = "write" /\ lock' = lock
  BY DEF WriteMove, WriteAdd, WriteDelete
<1>2. Changes(r) /\ request'[r].step = "invalidate" /\ Keeps(r)
  <2>1. Idle.step = "idle"
    BY DEF Idle
  <2> QED BY <2>1, WriteChanges DEF Undisturbed
<1>3. Undisturbed(r) /\ Foreseen(r) /\ request[r].start = rows
  <2>1. Undisturbed(r)
    BY <1>1, <1>2 DEF Undisturbed, Keeps
  <2>2. Foreseen(r)
    BY <2>1 DEF Previewed
  <2> QED BY <1>1, <2>1, <2>2 DEF Foreseen
<1>4. v \in Versions /\ intent \in Intents
  <2>1. AtEdit(r) /\ request[r] \in RequestType /\ v \in Versions
    BY <1>1 DEF RequestsTyped, Coherent, AtEdit, EditSteps
  <2> QED BY <2>1 DEF AtEdit, IsEdit, NoIntent, RequestType
<1>5. rows \in Contents /\ IsRows(rows) /\ \A k \in DOMAIN rows : rows[k] \in Nat
  BY <1>4, ContentsAreRows DEF PlanTyped
<1>6. ASSUME NEW q \in Requests \ {r} PROVE ~AtRows(q)'
  <2>1. request'[q] = request[q]
    BY <1>2 DEF Changes
  <2> QED BY <1>3, <2>1 DEF AtRows, Foreseen
<1>7. ASSUME NEW new, nodes' = [nodes EXCEPT ![v] = new],
             IsInjective(rows) => /\ ItemsInOrder(new) = ItemsInOrder(ApplyIntent(rows, intent))
                                  /\ ReapplyPossible(rows, intent)
      PROVE  Foreseen(r)'
  <2>1. nodes'[v] = new
    BY <1>4, <1>7 DEF PlanTyped
  <2>2. /\ request'[r].version = v /\ request'[r].start = rows /\ request'[r].intent = intent
    BY <1>2, <1>3 DEF Keeps
  <2> QED BY <1>2, <1>6, <1>7, <2>1, <2>2 DEF Foreseen, AtRows
<1>8. CASE WriteMove(r)
  <2>1. intent.op = "move"
    BY <1>8 DEF WriteMove
  <2>2. PICK m \in Neighbours(rows, intent.node, intent.direction) :
           request[r].swap = Swapped([k \in {m, intent.node} |-> rows[k]], m, intent.node)
    BY <1>1, <1>3, <2>1 DEF Foreseen
  <2> DEFINE new == Overwritten(rows, request[r].swap)
  <2>3. nodes' = [nodes EXCEPT ![v] = new]
    BY <1>8 DEF WriteMove, Overwritten
  <2>4. intent.direction \in {"up", "down"}
    BY <1>4, <2>1, IntentOps
  <2>5. IsInjective(rows) => new = ApplyIntent(rows, intent) /\ ReapplyPossible(rows, intent)
    BY <1>5, <2>1, <2>2, <2>4, MoveIsApplied
  <2> HIDE DEF new
  <2> QED BY <1>7, <2>3, <2>5
<1>9. CASE WriteDelete(r)
  <2>1. intent.op = "delete"
    BY <1>9 DEF WriteDelete
  <2> DEFINE new == Removed(rows, intent.node)
  <2>2. nodes' = [nodes EXCEPT ![v] = new]
    BY <1>9 DEF WriteDelete
  <2>3. new = ApplyIntent(rows, intent)
    BY <2>1 DEF ApplyIntent
  <2>4. ReapplyPossible(rows, intent)
    <3>1. Idle.step = "idle"
      BY DEF Idle
    <3>2. ~Ends(r)
      BY <1>2, <3>1, EndsChanges
    <3>3. intent.node \in DOMAIN rows
      BY <1>9, <3>2 DEF WriteDelete
    <3> QED BY <2>1, <3>3 DEF ReapplyPossible
  <2> HIDE DEF new
  <2> QED BY <1>7, <2>2, <2>3, <2>4
<1>10. CASE WriteAdd(r)
  <2>1. intent.op = "add" /\ intent.node \in Items
    <3>1. intent.op = "add"
      BY <1>10 DEF WriteAdd
    <3> QED BY <1>4, <3>1, IntentOps
  <2> DEFINE n == RowId(v, intent.node)
             e == RowId(0, intent.node)
             new == Added(rows, n)
  <2>2. nodes' = [nodes EXCEPT ![v] = new]
    BY <1>10 DEF WriteAdd, Added, NextOrder
  <2>3. n \in Nat /\ e \in Nat /\ ItemOf(n) = intent.node /\ ItemOf(e) = intent.node
    <3>1. v \in Nat /\ 0 \in Nat
      BY <1>4, BuilderAssumption DEF Versions
    <3> QED BY <2>1, <3>1, RowIds
  <2>4. \A m \in DOMAIN rows : ItemOf(m) # intent.node
    BY <1>1, <1>3, <2>1 DEF AddsAreNew
  <2> HIDE DEF n, e
  <2>5. n \notin DOMAIN rows /\ e \notin DOMAIN rows
    BY <2>3, <2>4
  <2>6. ItemsInOrder(new) = ItemsInOrder(Added(rows, e))
    BY <1>5, <2>3, <2>5, AddedItems
  <2>7. Added(rows, e) = ApplyIntent(rows, intent) /\ ReapplyPossible(rows, intent)
    BY <2>1 DEF ApplyIntent, ReapplyPossible, e
  <2> HIDE DEF new
  <2> QED BY <1>7, <2>2, <2>6, <2>7
<1> QED BY <1>8, <1>9, <1>10

\* Nobody else writes the rows of an undisturbed edit.
LEMMA OthersAreForeseen ==
  ASSUME PlanTyped, RequestsTyped, TokensPast, Known, NEW s \in Requests, Acts(s),
         NEW r \in Requests \ {s}, Previewed(r)
  PROVE  Previewed(r)'
<1> SUFFICES ASSUME Undisturbed(r)' PROVE Foreseen(r)'
  BY DEF Previewed
<1>1. Changes(s) /\ request'[r] = request[r]
  BY CarriesWhatIsThere DEF Changes
<1>2. ~Bump(s) /\ lock' = lock
  <2>1. /\ request[r].token < lock /\ request[r].token \in Nat /\ lock \in Nat
        /\ lock' = request[r].token + 1
    BY <1>1 DEF Undisturbed, TokensPast, RequestsTyped, RequestType, PlanTyped
  <2>2. lock' = lock
    BY <2>1, TokensStep
  <2> QED BY <2>1, <2>2 DEF Bump
<1>3. Undisturbed(r) /\ Foreseen(r)
  <2>1. Undisturbed(r)
    BY <1>1, <1>2 DEF Undisturbed
  <2> QED BY <2>1 DEF Previewed
<1>4. \A q \in Requests \ {r} : ~AtRows(q)'
  BY <1>2, <1>3, OthersStayAway DEF Foreseen, AtRows
<1>5. nodes'[request[r].version] = nodes[request[r].version]
  <2>1. CASE OwnStep(s)
    BY <2>1, OwnStepsKeepThePlan DEF planVars
  <2>2. CASE Invalidate(s) \/ Judge(s) \/ CommitPublish(s) \/ Die(s)
    BY <2>2 DEF Invalidate, Judge, CommitPublish, Die, planVars
  <2>3. ~(WriteMove(s) \/ WriteAdd(s) \/ WriteDelete(s))
    <3>1. ~AtRows(s)
      BY <1>3 DEF Foreseen, AtRows
    <3>2. request[s].step = "write" => IsEdit(request[s].intent)
      BY DEF RequestsTyped, Coherent
    <3> QED BY <3>1, <3>2 DEF AtRows, WriteMove, WriteAdd, WriteDelete
  <2>4. CASE CopyDraft(s)
    <3>1. PICK new \in Versions :
            status[new] = "absent" /\ \A u \in Versions \ {new} : nodes'[u] = nodes[u]
      BY <2>4, CopyEffect
    <3>2. request[r].version \in Versions
      BY <1>3 DEF Undisturbed, RequestsTyped, Coherent, EditSteps
    <3>3. request[r].version # new
      BY <3>1, <3>2, DraftIsEditable DEF Known
    <3> QED BY <3>1, <3>2, <3>3
  <2> QED BY <1>2, <2>1, <2>2, <2>3, <2>4 DEF Acts, OwnStep
<1> QED BY <1>1, <1>3, <1>4, <1>5 DEF Foreseen, AtRows

LEMMA PreviewedStep ==
  ASSUME PlanTyped, RequestsTyped, TokensPast, Known, AddsAreNew, NEW s \in Requests, Acts(s),
         NEW r \in Requests, Calm(r), Previewed(r)
  PROVE  Previewed(r)'
<1>1. CASE r # s
  BY <1>1, OthersAreForeseen
<1>2. CASE r = s
  <2>1. CASE Undisturbed(r)'
    <3>1. request'[r].step \in {"read", "write", "invalidate"}
      BY <2>1 DEF Undisturbed
    <3>2. Bump(r) \/ ReadMove(r) \/ WriteMove(r) \/ WriteAdd(r) \/ WriteDelete(r)
      BY <1>2, <3>1, StepsOfEdits
    <3> QED BY <1>2, <3>2, AcceptedIsForeseen, MovesAreForeseen, WritesAreForeseen
  <2>2. CASE ~Undisturbed(r)'
    BY <2>2 DEF Previewed
  <2> QED BY <2>1, <2>2
<1> QED BY <1>1, <1>2

-----------------------------------------------------------------------------
(* The theorems.                                                           *)

LEMMA RouteInit == Init => RouteInv
<1> SUFFICES ASSUME Init PROVE RouteInv
  OBVIOUS
<1>1. PlanTyped /\ RequestsTyped /\ Known
  BY PlanInit, RequestsInit, KnownInit
<1>2. \A r \in Requests : /\ request[r].step = "idle" /\ request[r].token = 0
                          /\ request[r].settled = FALSE
  BY DEF Init, Idle
<1>3. lock = 1 /\ active = None
  BY DEF Init
<1>4. \A v \in Versions : /\ status[v] = IF v = 1 THEN "draft" ELSE "absent"
                          /\ frozen[v] = {}
  BY DEF Init
<1>5. TokensPast
  BY <1>2, <1>3 DEF TokensPast
<1>6. VerdictsStand
  BY <1>4 DEF VerdictsStand, Verdict
<1>7. OneOfEach
  <2>1. {v \in Versions : status[v] = "published"} = {}
    BY <1>4
  <2>2. \A v, w \in Editable : v = w
    BY <1>4 DEF Editable
  <2> QED BY <1>2, <1>3, <2>1, <2>2 DEF OneOfEach
<1>8. AddsAreNew
  BY <1>2 DEF AddsAreNew
<1>9. \A r \in Requests : Calm(r) /\ Previewed(r)
  BY <1>2 DEF Calm, Previewed, Undisturbed
<1> QED BY <1>1, <1>5, <1>6, <1>7, <1>8, <1>9 DEF RouteInv

LEMMA RouteStutters ==
  ASSUME RouteInv, UNCHANGED vars
  PROVE  RouteInv'
<1>1. PlanTyped' /\ RequestsTyped'
  BY PlanStep, RequestsStep DEF RouteInv
<1>2. TokensPast' /\ Known'
  BY DEF RouteInv, vars, TokensPast, Known
<1>3. VerdictsStand'
  <2>1. \A v \in Versions : Sound(v)' = Sound(v)
    BY DEF vars, Sound
  <2>2. \A q \in Requests : \A v \in Versions : Editing(q, v)' = Editing(q, v)
    BY DEF vars, Editing, TokenMatches
  <2>3. ASSUME NEW v \in Versions, Verdict(v) PROVE Verdict(v)'
    <3>1. /\ status'[v] = status[v] /\ report'[v] = report[v] /\ nodes'[v] = nodes[v]
          /\ frozen'[v] = frozen[v] /\ request' = request
      BY DEF vars
    <3> QED BY <2>2, <2>3, <3>1 DEF Verdict, ValidateRoute
  <2> QED BY <2>1, <2>3 DEF RouteInv, VerdictsStand
<1>4. (Alone => OneOfEach)'
  BY DEF RouteInv, vars, Alone, OneOfEach, Superseded, Editable
<1>5. AddsAreNew'
  BY DEF RouteInv, vars, AddsAreNew
<1>6. ASSUME NEW r \in Requests PROVE Calm(r)' /\ Previewed(r)'
  <2>1. DraftVersion' = DraftVersion /\ DraftNodes' = DraftNodes
    BY DraftKeptSame DEF DraftKept, vars, Editable
  <2>2. Calm(r) /\ Previewed(r)
    BY DEF RouteInv
  <2>3. Calm(r)'
    BY <2>1, <2>2 DEF Calm, Shown, vars
  <2>4. Previewed(r)'
    BY <2>2 DEF Previewed, Undisturbed, Foreseen, AtRows, vars
  <2> QED BY <2>3, <2>4
<1> QED BY <1>1, <1>2, <1>3, <1>4, <1>5, <1>6 DEF RouteInv

\* The invariant holds throughout, for any plan and any number of requests.
LEMMA RouteInvariant == Spec => []RouteInv
<1>1. RouteInv /\ [Next]_vars => RouteInv'
  <2> SUFFICES ASSUME RouteInv, [Next]_vars PROVE RouteInv'
    OBVIOUS
  <2>1. CASE UNCHANGED vars
    BY <2>1, RouteStutters
  <2>2. CASE Next
    <3>0. /\ PlanTyped /\ RequestsTyped /\ TokensPast /\ Known /\ VerdictsStand /\ AddsAreNew
          /\ Alone => OneOfEach
          /\ \A r \in Requests : Calm(r) /\ Previewed(r)
      BY DEF RouteInv
    <3>1. PICK s \in Requests : Acts(s)
      BY <2>2, NextIsAStep
    <3>2. PlanTyped' /\ RequestsTyped'
      BY <3>0, PlanStep, RequestsStep
    <3>3. TokensPast' /\ Known'
      BY <3>0, <3>1, TokensStep, KnownStep
    <3>4. VerdictsStand'
      BY <3>0, <3>1, VerdictsStep
    <3>5. (Alone => OneOfEach)'
      BY <3>0, <3>1, OneStep
    <3>6. AddsAreNew'
      BY <3>0, <3>1, AddsStep
    <3>7. \A r \in Requests : Calm(r)' /\ Previewed(r)'
      BY <3>0, <3>1, CalmStep, PreviewedStep
    <3> QED BY <3>2, <3>3, <3>4, <3>5, <3>6, <3>7 DEF RouteInv
  <2> QED BY <2>1, <2>2
<1> QED BY <1>1, RouteInit, PTL DEF Spec

\* An edit is accepted only on the draft and the rows its screen showed, if
\* that was read while no other request was between two of its statements
\* (bumpLockOrConflict), for any number of requests and in any order.
THEOREM AcceptedEditsAreOfTheirPage == Spec => AcceptedEditsSawTheContents
<1>1. RouteInv /\ [Next]_vars =>
        [\A r \in Requests :
            Bump(r) /\ IsEdit(request[r].intent) /\ request[r].settled =>
                request[r].version = DraftVersion /\ request[r].page = DraftNodes]_vars
  <2> SUFFICES ASSUME RouteInv, NEW r \in Requests, Bump(r), request[r].settled
               PROVE  request[r].version = DraftVersion /\ request[r].page = DraftNodes
    OBVIOUS
  <2>1. Calm(r)
    BY DEF RouteInv
  <2>2. Shown(r) /\ request[r].step = "bump"
    BY <2>1 DEF Bump, TokenMatches, Calm
  <2> QED BY <2>2 DEF Shown
<1> QED BY <1>1, RouteInvariant, PTL DEF Spec, AcceptedEditsSawTheContents

\* A version on which none of the five races was lost that PublishedAsValidated
\* names is published as it was validated, can be taught as it is, and stays
\* that way, whatever else overlaps or dies (validateDraft, publishRoute,
\* invalidateValidation).
THEOREM PublishedStaysValid == Spec => []PublishedAsValidated
<1>1. RouteInv => PublishedAsValidated
  <2> SUFFICES ASSUME RouteInv, NEW v \in Versions, Sound(v), NEW contents \in frozen[v]
               PROVE  /\ nodes[v] = contents
                      /\ report[v].ok /\ report[v].on = contents
                      /\ Teachable(contents)
    BY DEF PublishedAsValidated, Sound
  <2>1. Verdict(v)
    BY DEF RouteInv, VerdictsStand
  <2>2. /\ contents = nodes[v] /\ report[v].ok /\ report[v].on = nodes[v]
        /\ ValidateRoute(nodes[v]) = {}
    BY <2>1 DEF Verdict
  <2>3. IsRows(nodes[v]) /\ HasItems(nodes[v])
    BY ContentsAreRows DEF RouteInv, PlanTyped
  <2>4. Teachable(nodes[v])
    BY <2>2, <2>3, ValidRoutesCanBeTaught
  <2> QED BY <2>2, <2>4
<1> QED BY <1>1, RouteInvariant, PTL

\* Unless a verdict was stored about a version published meanwhile, a version
\* was published twice, or two drafts were begun at once, the plan points at its
\* one published version, and one more at most can be edited (publishRoute,
\* createDraftVersion).
THEOREM OnePublishedOneEdited == Spec => []ActiveIsPublished
<1>1. RouteInv => ActiveIsPublished
  <2> SUFFICES ASSUME RouteInv, Alone
               PROVE  /\ {v \in Versions : status[v] = "published"} = {active} \ {None}
                      /\ Cardinality(Editable) <= 1
    BY DEF ActiveIsPublished, Alone
  <2>1. OneOfEach
    BY DEF RouteInv
  <2>2. Cardinality(Editable) <= 1
    <3>1. CASE Editable = {}
      BY <3>1, FS_EmptySet
    <3>2. CASE Editable # {}
      <4>1. PICK v \in Editable : Editable = {v}
        BY <2>1, <3>2 DEF OneOfEach
      <4>2. Cardinality(Editable) = 1
        BY <4>1, FS_Singleton
      <4> QED BY <4>2
    <3> QED BY <3>1, <3>2
  <2> QED BY <2>1, <2>2 DEF OneOfEach
<1> QED BY <1>1, RouteInvariant, PTL

\* Without ties among the rows, an edit accepted on a screen read undisturbed
\* does what the preview of that screen shows, and was possible, unless another
\* increment follows before it has ended (applyIntent and evaluateReapply,
\* against the statements of addRouteNode, deleteRouteNode and moveRouteNode).
THEOREM EditsKeepTheirPromise == Spec => []EditsAreAsPreviewed
<1>1. RouteInv => EditsAreAsPreviewed
  <2> SUFFICES ASSUME RouteInv, NEW r \in Requests, request[r].step = "invalidate", request[r].settled,
                      lock = request[r].token + 1, IsInjective(request[r].start)
               PROVE  /\ ItemsInOrder(nodes[request[r].version])
                            = ItemsInOrder(ApplyIntent(request[r].start, request[r].intent))
                      /\ ReapplyPossible(request[r].start, request[r].intent)
    BY DEF EditsAreAsPreviewed
  <2>1. IsEdit(request[r].intent)
    BY DEF RouteInv, RequestsTyped, Coherent
  <2>2. Undisturbed(r) /\ Previewed(r)
    BY <2>1 DEF RouteInv, Undisturbed
  <2> QED BY <2>2 DEF Previewed, Foreseen
<1> QED BY <1>1, RouteInvariant, PTL

\* If diffRouteNodes finds nothing, the two lists are one: rows come in the
\* same order, whatever their sort orders are.
THEOREM NoDifferenceNoChange ==
  ASSUME NEW before, IsRows(before), NEW after, IsRows(after), DiffRouteNodes(before, after) = {}
  PROVE  InOrder(before) = InOrder(after)
<1> DEFINE D == DOMAIN before
           kept == DOMAIN before \cap DOMAIN after
<1>1. /\ DOMAIN before \ kept = {} /\ DOMAIN after \ kept = {}
      /\ \A m \in kept : RankAmong(before, kept, m) = RankAmong(after, kept, m)
  BY DEF DiffRouteNodes
<1>2. DOMAIN after = D /\ kept = D
  BY <1>1
<1>3. \A m \in D : IndexOf(before, m) = IndexOf(after, m)
  BY <1>1, <1>2 DEF IndexOf
<1> DEFINE N == Cardinality(D)
           A == InOrder(before)
           B == InOrder(after)
<1>4. /\ A \in [1..N -> D] /\ \A i \in 1..N : IndexOf(before, A[i]) = i - 1
  BY InOrderLists
<1>5. /\ B \in [1..N -> D] /\ \A i \in 1..N : IndexOf(after, B[i]) = i - 1
  <2>1. /\ B \in [1..Cardinality(DOMAIN after) -> DOMAIN after]
        /\ \A i \in 1..Cardinality(DOMAIN after) : IndexOf(after, B[i]) = i - 1
    BY InOrderLists
  <2> QED BY <1>2, <2>1
<1> HIDE DEF A, B, N, D
<1>6. ASSUME NEW i \in 1..N PROVE A[i] = B[i]
  <2>1. A[i] \in D /\ B[i] \in D /\ IndexOf(before, A[i]) = IndexOf(before, B[i])
    BY <1>3, <1>4, <1>5
  <2> QED BY <2>1, IndexIsOrder DEF D
<1>7. /\ A = [i \in 1..N |-> A[i]]
      /\ B = [i \in 1..N |-> B[i]]
  BY <1>4, <1>5
<1>8. [i \in 1..N |-> A[i]] = [i \in 1..N |-> B[i]]
  BY <1>6
<1> QED BY <1>7, <1>8 DEF A, B

\* A teacher whose edit was refused sees a difference, unless there is none.
THEOREM ConflictsAreNotHidden == Spec => []ConflictsAreShown
<1>1. RouteInv => ConflictsAreShown
  <2> SUFFICES ASSUME RouteInv, NEW r \in Requests,
                      DiffRouteNodes(request[r].page, request[r].start) = {}
               PROVE  InOrder(request[r].page) = InOrder(request[r].start)
    BY DEF ConflictsAreShown
  <2>1. request[r].page \in Contents /\ request[r].start \in Contents
    BY DEF RouteInv, RequestsTyped, RequestType
  <2> QED BY <2>1, ContentsAreRows, NoDifferenceNoChange
<1> QED BY <1>1, RouteInvariant, PTL
=============================================================================
