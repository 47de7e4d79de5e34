---------------------------- MODULE Queries_proofs --------------------------
(***************************************************************************)
(* Theorems about Queries, for any number of readers, any reads and calls, *)
(* any stored graph and any limits.                                        *)
(***************************************************************************)
EXTENDS Queries, GraphWriters_proofs, FiniteSetTheorems

-----------------------------------------------------------------------------
(* What the operators of the queries do.                                   *)

\* A clamped number is between its bounds.
LEMMA ClampBetween ==
    ASSUME NEW n \in Nat, NEW least \in Nat, NEW most \in Nat, least <= most
    PROVE  Clamp(n, least, most) \in least..most
  <1>1. Min({n, most}) \in {n, most} /\ Min({n, most}) <= most
    BY DEF Min
  <1> DEFINE m == Min({n, most})
  <1> HIDE DEF m
  <1>2. Max({least, m}) \in {least, m} /\ Max({least, m}) >= least
    BY <1>1 DEF Max, m
  <1> QED
    BY <1>1, <1>2 DEF Clamp, m

\* A page has a natural number of rows.
LEMMA PageSizeType ==
    ASSUME NEW r \in Readers, NEW q \in Reading[r], q.kind = "list"
    PROVE  PageSize(q) \in Nat
  <1>1. q.limit \in Nat /\ MaxPage \in Nat /\ 1 <= MaxPage
    BY ReadsAreTyped, LimitsPositive
  <1>2. Clamp(q.limit, 1, MaxPage) \in 1..MaxPage
    BY <1>1, ClampBetween
  <1> QED
    BY <1>1, <1>2 DEF PageSize

\* A traversal makes a natural number of hops.
LEMMA HopsType ==
    ASSUME NEW r \in Readers, NEW q \in Reading[r], q.kind = "walk"
    PROVE  Hops(q) \in Nat
  <1>1. q.depth \in Nat
    BY ReadsAreTyped
  <1>2. \A n, most \in Nat : 1 <= most => Clamp(n, 1, most) \in 1..most
    BY ClampBetween
  <1>3. Clamp(q.depth, 1, 3) \in Nat
    <2>1. 3 \in Nat /\ 1 <= 3
      OBVIOUS
    <2>2. \A n, most \in Nat : 1 <= most => Clamp(n, 1, most) \in Nat
      BY <1>2
    <2> QED
      BY Zenon, <1>1, <2>1, <2>2
  <1> QED
    BY <1>1, <1>3 DEF Hops

\* A larger graph has more rows and more neighbours.
LEMMA MoreAround ==
    ASSUME NEW g, NEW h, g \subseteq h, NEW n, NEW edges
    PROVE  /\ Around(g, n, edges) \subseteq Around(h, n, edges)
           /\ Near(g, n, edges) \subseteq Near(h, n, edges)
  <1>1. Around(g, n, edges) \subseteq Around(h, n, edges)
    BY DEF Around, Rows
  <1> QED
    BY <1>1 DEF Near

\* Only nodes of the program are expanded.
LEMMA NearIsOurs ==
    ASSUME NEW g, NEW n, NEW edges
    PROVE  Near(g, n, edges) \subseteq Memory
  BY DEF Near

\* A finite graph has finitely many rows around a node.
LEMMA FiniteAround ==
    ASSUME NEW g, IsFiniteSet(g), NEW n, NEW edges
    PROVE  IsFiniteSet(Around(g, n, edges))
  <1> DEFINE S == {t \in g : (t[1] = n \/ Says(t, n)) /\ Passes(t, edges)}
             f == [t \in S |-> Row(t)]
  <1>1. IsFiniteSet(S)
    BY FS_Subset
  <1>2. Around(g, n, edges) = {Row(t) : t \in S}
    BY DEF Around, Rows
  <1>3. f \in Surjection(S, {Row(t) : t \in S})
    BY DEF Surjection
  <1> QED
    BY <1>1, <1>2, <1>3, FS_Surjection

\* Of natural numbers there is always a least one.
LEMMA Least ==
    ASSUME NEW S \in SUBSET Nat, S # {}
    PROVE  \E n \in S : \A m \in S : n <= m
  <1>1. IsWellFoundedOn({ss \in Nat \X Nat : ss[1] < ss[2]}, Nat)
    BY NatLessThanWellFounded DEF OpToRel
  <1>2. \E n \in S : \A m \in S : ~(<<m, n>> \in {ss \in Nat \X Nat : ss[1] < ss[2]})
    BY <1>1, WFMin
  <1>3. ASSUME NEW n \in S, NEW m \in S
        PROVE  <<m, n>> \in {ss \in Nat \X Nat : ss[1] < ss[2]} <=> m < n
    OBVIOUS
  <1>4. PICK n \in S : \A m \in S : ~(m < n)
    BY <1>2, <1>3
  <1> QED
    BY <1>4

-----------------------------------------------------------------------------
(* Balls.                                                                  *)

\* A ball is what paths of up to its radius end in.
LEMMA BallHas ==
    ASSUME NEW g, NEW q, NEW hops \in Nat, NEW n
    PROVE  n \in Ball(g, q, hops) <=> \E k \in 0..hops : \E p \in Paths(g, q, k) : n = p[k]
  BY DEF Ball

\* The start is in every ball.
LEMMA BallStart ==
    ASSUME NEW g, NEW q, NEW hops \in Nat
    PROVE  q.start \in Ball(g, q, hops)
  <1> DEFINE p == [i \in 0..0 |-> q.start]
  <1>1. p \in Paths(g, q, 0)
    BY DEF Paths
  <1> QED
    BY <1>1, BallHas

\* In a larger graph and with more hops there is more to reach.
LEMMA BallGrows ==
    ASSUME NEW g, NEW h, g \subseteq h, NEW q, NEW j \in Nat, NEW k \in Nat, j <= k
    PROVE  Ball(g, q, j) \subseteq Ball(h, q, k)
  <1>1. ASSUME NEW i \in Nat
        PROVE  Paths(g, q, i) \subseteq Paths(h, q, i)
    BY MoreAround DEF Paths
  <1> QED
    BY <1>1, BallHas

\* What is near a node that can be reached is one hop farther.
LEMMA BallExtends ==
    ASSUME NEW g, NEW q, NEW hops \in Nat, NEW n \in Ball(g, q, hops),
           NEW m \in Near(g, n, q.edges)
    PROVE  m \in Ball(g, q, hops + 1)
  <1>1. PICK k \in 0..hops : \E p \in Paths(g, q, k) : n = p[k]
    BY BallHas
  <1>2. PICK p \in Paths(g, q, k) : n = p[k]
    BY <1>1
  <1> DEFINE longer == [i \in 0..(k + 1) |-> IF i = k + 1 THEN m ELSE p[i]]
  <1>3. longer \in Paths(g, q, k + 1)
    <2>1. /\ p \in [0..k -> Memory \cup {q.start}] /\ p[0] = q.start
          /\ \A i \in 1..k : p[i] \in Near(g, p[i - 1], q.edges)
      BY DEF Paths
    <2>2. m \in Memory
      BY NearIsOurs
    <2>3. longer \in [0..(k + 1) -> Memory \cup {q.start}] /\ longer[0] = q.start
      BY <2>1, <2>2
    <2>4. \A i \in 1..(k + 1) : longer[i] \in Near(g, longer[i - 1], q.edges)
      BY <1>2, <2>1
    <2> QED
      BY <2>3, <2>4 DEF Paths
  <1>4. longer[k + 1] = m
    OBVIOUS
  <1> QED
    BY <1>3, <1>4, BallHas

\* What can be reached is the start or near something that can be reached with
\* one hop less.
LEMMA BallStep ==
    ASSUME NEW g, NEW q, NEW hops \in Nat, NEW n \in Ball(g, q, hops + 1)
    PROVE  n = q.start \/ \E m \in Ball(g, q, hops) : n \in Near(g, m, q.edges)
  <1>1. PICK k \in 0..(hops + 1) : \E p \in Paths(g, q, k) : n = p[k]
    BY BallHas
  <1>2. PICK p \in Paths(g, q, k) : n = p[k]
    BY <1>1
  <1>3. /\ p \in [0..k -> Memory \cup {q.start}] /\ p[0] = q.start
        /\ \A i \in 1..k : p[i] \in Near(g, p[i - 1], q.edges)
    BY DEF Paths
  <1>4. CASE k = 0
    BY <1>2, <1>3, <1>4
  <1>5. CASE k # 0
    <2> DEFINE shorter == [i \in 0..(k - 1) |-> p[i]]
    <2>1. shorter \in Paths(g, q, k - 1)
      BY <1>3, <1>5 DEF Paths
    <2>2. shorter[k - 1] \in Ball(g, q, hops)
      BY <1>5, <2>1, BallHas
    <2>3. shorter[k - 1] = p[k - 1] /\ p[k] \in Near(g, p[k - 1], q.edges)
      BY <1>3, <1>5
    <2> QED
      BY <1>2, <2>2, <2>3
  <1> QED
    BY <1>4, <1>5

\* Nothing outside can be reached if nothing near the inside is outside.
LEMMA BallClosed ==
    ASSUME NEW g, NEW q, NEW hops \in Nat, NEW inside, q.start \in inside,
           \A n \in inside : Near(g, n, q.edges) \subseteq inside
    PROVE  Ball(g, q, hops) \subseteq inside
  <1> SUFFICES ASSUME NEW k \in 0..hops, NEW p \in Paths(g, q, k), p[k] \notin inside
               PROVE  FALSE
    BY BallHas
  <1>1. p[0] = q.start /\ \A i \in 1..k : p[i] \in Near(g, p[i - 1], q.edges)
    BY DEF Paths
  <1> DEFINE S == {i \in 0..k : p[i] \notin inside}
  <1>2. S \in SUBSET Nat /\ S # {}
    OBVIOUS
  <1>3. PICK n \in S : \A m \in S : n <= m
    BY <1>2, Least
  <1>4. n # 0 /\ n - 1 \in 0..k /\ n \in 1..k
    BY <1>1
  <1>5. p[n - 1] \in inside
    BY <1>3, <1>4
  <1> QED
    BY <1>1, <1>4, <1>5

-----------------------------------------------------------------------------
(* Pages.                                                                  *)

Ordered == ToSet(Order)

\* Every name has a place of its own in the store's order.
LEMMA PlaceIs ==
    /\ \A n \in Ordered : Place(n) \in Nat
    /\ \A m, n \in Ordered : Place(m) = Place(n) => m = n
  <1>1. DOMAIN Order \subseteq Nat
    BY OrderIsTotal
  <1>2. \A n \in Ordered : Place(n) \in DOMAIN Order /\ Order[Place(n)] = n
    BY DEF Place, Ordered, ToSet
  <1> QED
    BY <1>1, <1>2

\* Ranks are different numbers from 1 to the number of nodes.
LEMMA RankIs ==
    ASSUME NEW S \in SUBSET Ordered, IsFiniteSet(S), NEW q
    PROVE  [n \in S |-> Rank(n, S, q)] \in Injection(S, 1..Cardinality(S))
  <1>1. Cardinality(S) \in Nat
    BY FS_CardinalityType
  <1>2. ASSUME NEW T \in SUBSET S, NEW U \in SUBSET S, NEW n \in U, n \notin T, T \subseteq U
        PROVE  Cardinality(T) \in Nat /\ Cardinality(U) \in 1..Cardinality(S)
               /\ Cardinality(T) < Cardinality(U)
    <2>1. IsFiniteSet(U) /\ IsFiniteSet(T) /\ Cardinality(U) <= Cardinality(S)
      BY FS_Subset
    <2>2. Cardinality(T) \in Nat /\ Cardinality(U) \in Nat
      BY <2>1, FS_CardinalityType
    <2>3. Cardinality(T) <= Cardinality(U) /\ Cardinality(T) # Cardinality(U)
      BY <1>2, <2>1, FS_Subset
    <2> QED
      BY <1>1, <2>1, <2>2, <2>3
  <1>3. ASSUME NEW n \in S
        PROVE  /\ Cardinality(UpTo(n, S)) \in 1..Cardinality(S)
               /\ Cardinality(DownTo(n, S)) \in 1..Cardinality(S)
    <2>1. n \in UpTo(n, S) /\ n \in DownTo(n, S)
      BY PlaceIs DEF UpTo, DownTo
    <2>2. UpTo(n, S) \in SUBSET S /\ DownTo(n, S) \in SUBSET S
      BY DEF UpTo, DownTo
    <2>3. {} \in SUBSET S
      OBVIOUS
    <2> QED
      BY <1>2, <2>1, <2>2, <2>3
  <1>4. ASSUME NEW m \in S, NEW n \in S, Place(m) < Place(n)
        PROVE  /\ Cardinality(UpTo(m, S)) < Cardinality(UpTo(n, S))
               /\ Cardinality(DownTo(n, S)) < Cardinality(DownTo(m, S))
    <2>1. Place(m) \in Nat /\ Place(n) \in Nat /\ \A i \in S : Place(i) \in Nat
      BY PlaceIs
    <2>2. /\ n \in UpTo(n, S) /\ n \notin UpTo(m, S) /\ UpTo(m, S) \subseteq UpTo(n, S)
          /\ m \in DownTo(m, S) /\ m \notin DownTo(n, S) /\ DownTo(n, S) \subseteq DownTo(m, S)
      BY <1>4, <2>1 DEF UpTo, DownTo
    <2>3. /\ UpTo(n, S) \in SUBSET S /\ UpTo(m, S) \in SUBSET S
          /\ DownTo(n, S) \in SUBSET S /\ DownTo(m, S) \in SUBSET S
      BY DEF UpTo, DownTo
    <2> QED
      BY <1>2, <2>2, <2>3
  <1>5. ASSUME NEW m \in S, NEW n \in S, Rank(m, S, q) = Rank(n, S, q)
        PROVE  m = n
    <2>1. Place(m) \in Nat /\ Place(n) \in Nat
      BY PlaceIs
    <2>2. /\ Cardinality(UpTo(m, S)) \in Nat /\ Cardinality(UpTo(n, S)) \in Nat
          /\ Cardinality(DownTo(m, S)) \in Nat /\ Cardinality(DownTo(n, S)) \in Nat
      BY <1>3
    <2>3. ~(Place(m) < Place(n)) /\ ~(Place(n) < Place(m))
      BY <1>4, <1>5, <2>2 DEF Rank
    <2> QED
      BY <2>1, <2>3, PlaceIs
  <1>6. \A n \in S : Rank(n, S, q) \in 1..Cardinality(S)
    BY <1>3 DEF Rank
  <1> QED
    BY <1>5, <1>6 DEF Injection, IsInjective

\* In a larger list nothing comes earlier.
LEMMA RankGrows ==
    ASSUME NEW S, NEW T \in SUBSET Ordered, IsFiniteSet(T), S \subseteq T, NEW n \in S, NEW q
    PROVE  /\ Rank(n, S, q) \in Nat /\ Rank(n, T, q) \in Nat
           /\ Rank(n, S, q) <= Rank(n, T, q)
  <1>1. /\ UpTo(n, S) \in SUBSET UpTo(n, T) /\ UpTo(n, T) \in SUBSET T
        /\ DownTo(n, S) \in SUBSET DownTo(n, T) /\ DownTo(n, T) \in SUBSET T
    BY DEF UpTo, DownTo
  <1>2. /\ IsFiniteSet(UpTo(n, T)) /\ IsFiniteSet(DownTo(n, T))
        /\ IsFiniteSet(UpTo(n, S)) /\ IsFiniteSet(DownTo(n, S))
        /\ Cardinality(UpTo(n, S)) <= Cardinality(UpTo(n, T))
        /\ Cardinality(DownTo(n, S)) <= Cardinality(DownTo(n, T))
    BY <1>1, FS_Subset
  <1> QED
    BY <1>2, FS_CardinalityType DEF Rank

\* A page that is not full is the last one, and the list is no longer than all
\* pages together.
LEMMA PageIs ==
    ASSUME NEW S \in SUBSET Ordered, IsFiniteSet(S), NEW q,
           NEW offset \in Nat, NEW size \in Nat, NEW page,
           page = {n \in S : Rank(n, S, q) \in (offset + 1)..(offset + size)}
    PROVE  /\ Cardinality(page) \in Nat /\ Cardinality(page) <= size
           /\ Cardinality(page) < size =>
                 /\ \A n \in S : Rank(n, S, q) <= offset \/ n \in page
                 /\ Cardinality(S) <= offset + Cardinality(page)
  <1> DEFINE R(n) == Rank(n, S, q)
             rank == [n \in S |-> R(n)]
             count == Cardinality(S)
             window == (offset + 1)..(offset + size)
  <1>1. count \in Nat
    BY FS_CardinalityType
  <1>2. /\ \A n \in S : R(n) \in 1..count
        /\ \A m, n \in S : R(m) = R(n) => m = n
    <2>1. rank \in Injection(S, 1..count)
      BY RankIs
    <2>2. rank \in [S -> 1..count] /\ \A m, n \in S : rank[m] = rank[n] => m = n
      BY <2>1 DEF Injection, IsInjective
    <2>3. \A n \in S : rank[n] = R(n)
      OBVIOUS
    <2> QED
      BY <2>2, <2>3
  <1>3. \A k \in 1..count : \E n \in S : R(n) = k
    <2>1. IsFiniteSet(1..count) /\ Cardinality(1..count) = count
      BY <1>1, FS_Interval
    <2>2. rank \in Injection(S, 1..count)
      BY RankIs
    <2> HIDE DEF rank, count
    <2>3. Cardinality(S) = Cardinality(1..count)
      BY <2>1 DEF count
    <2>4. rank \in Surjection(S, 1..count)
      BY <2>1, <2>2, <2>3, FS_Injection
    <2> QED
      BY <2>4 DEF Surjection, rank, count
  <1>4. IsFiniteSet(page) /\ Cardinality(page) \in Nat
    BY FS_Subset, FS_CardinalityType
  <1>5. IsFiniteSet(window) /\ Cardinality(window) = size
    <2>1. offset + 1 \in Int /\ offset + size \in Int
      OBVIOUS
    <2>2. IsFiniteSet(window) /\ Cardinality(window) = IF offset + 1 > offset + size THEN 0
                                                       ELSE (offset + size) - (offset + 1) + 1
      BY <2>1, FS_Interval
    <2> QED
      BY <2>2
  <1> DEFINE onPage == [n \in page |-> R(n)]
  <1> HIDE DEF R, window
  <1>6. onPage \in Injection(page, window)
    BY <1>2 DEF Injection, IsInjective, R, window
  <1>7. Cardinality(page) <= size
    BY <1>5, <1>6, FS_Injection
  <1>8. ASSUME Cardinality(page) < size, NEW n \in S, ~(R(n) <= offset), n \notin page
        PROVE  FALSE
    <2>1. R(n) > offset + size /\ R(n) <= count
      BY <1>1, <1>2, <1>8 DEF R
    <2>2. \A k \in window : \E m \in page : R(m) = k
      <3> SUFFICES ASSUME NEW k \in window
                   PROVE  \E m \in page : R(m) = k
        OBVIOUS
      <3>1. k \in 1..count
        BY <1>1, <1>2, <2>1 DEF window
      <3>2. PICK m \in S : R(m) = k
        BY <1>3, <3>1
      <3> QED
        BY <3>2 DEF R, window
    <2>3. onPage \in Surjection(page, window)
      BY <1>6, <2>2 DEF Surjection, Injection
    <2>4. size <= Cardinality(page)
      BY <1>4, <1>5, <2>3, FS_Surjection
    <2> QED
      BY <1>4, <1>8, <2>4
  <1>9. ASSUME Cardinality(page) < size
        PROVE  count <= offset + Cardinality(page)
    <2> DEFINE before == {n \in S : R(n) \in 1..offset}
               ranked == [n \in before |-> R(n)]
    <2>1. ranked \in Injection(before, 1..offset)
      BY <1>2 DEF Injection, IsInjective
    <2>2. IsFiniteSet(1..offset) /\ Cardinality(1..offset) = offset
      BY FS_Interval
    <2>3. IsFiniteSet(before) /\ Cardinality(before) <= offset
      BY <2>1, <2>2, FS_Injection
    <2>4. S = before \cup page
      <3>1. \A n \in S : n \in before \/ n \in page
        BY <1>1, <1>2, <1>8, <1>9
      <3> QED
        BY <3>1
    <2>5. /\ count = Cardinality(before) + Cardinality(page) - Cardinality(before \cap page)
          /\ Cardinality(before) \in Nat /\ Cardinality(before \cap page) \in Nat
      <3>1. IsFiniteSet(before \cap page)
        BY <2>3, FS_Intersection
      <3> HIDE DEF before
      <3>2. Cardinality(before \cup page)
              = Cardinality(before) + Cardinality(page) - Cardinality(before \cap page)
        BY <1>4, <2>3, FS_Union
      <3> QED
        BY <2>3, <2>4, <3>1, <3>2, FS_CardinalityType
    <2> QED
      BY <1>4, <2>3, <2>5
  <1> QED
    BY <1>4, <1>7, <1>8, <1>9 DEF R

-----------------------------------------------------------------------------
(* What the calls write.                                                   *)

\* The store holds finitely many triples, about nodes that it can sort.
Sortable(g) == IsFiniteSet(g) /\ \A t \in g : t[1] \in Ordered

GraphSorted == Sortable(graph)

\* An insert about names that have a place keeps the graph sortable.
LEMMA AddsSortable ==
    ASSUME NEW added, GraphSorted, Sortable(added)
    PROVE  Sortable(graph \cup added)
  <1>1. IsFiniteSet(graph \cup added)
    BY FS_Union DEF GraphSorted, Sortable
  <1> QED
    BY <1>1 DEF GraphSorted, Sortable

\* Triples of a few kinds are finitely many.
LEMMA FewTriples ==
    /\ \A a : IsFiniteSet({a})
    /\ \A a, b : IsFiniteSet({a, b})
    /\ \A a, b, c : IsFiniteSet({a, b, c})
    /\ \A a, b, c, d, e : IsFiniteSet({a, b, c, d, e})
  <1>1. \A a : IsFiniteSet({a})
    BY FS_Singleton
  <1>2. \A S, a : IsFiniteSet(S) => IsFiniteSet(S \cup {a})
    BY FS_AddElement
  <1>3. ASSUME NEW a, NEW b
        PROVE  IsFiniteSet({a, b})
    <2>1. IsFiniteSet({a} \cup {b}) /\ {a} \cup {b} = {a, b}
      BY <1>1, <1>2
    <2> QED
      BY <2>1
  <1>4. ASSUME NEW a, NEW b, NEW c
        PROVE  IsFiniteSet({a, b, c})
    <2>1. IsFiniteSet({a, b} \cup {c}) /\ {a, b} \cup {c} = {a, b, c}
      BY <1>2, <1>3
    <2> QED
      BY <2>1
  <1>5. ASSUME NEW a, NEW b, NEW c, NEW d, NEW e
        PROVE  IsFiniteSet({a, b, c, d, e})
    <2>1. {a, b, c} \cup {d, e} = {a, b, c, d, e}
      OBVIOUS
    <2>2. IsFiniteSet({a, b, c} \cup {d, e})
      BY <1>3, <1>4, FS_Union
    <2> QED
      BY <2>1, <2>2
  <1> QED
    BY <1>1, <1>3, <1>4, <1>5

\* An observation is about names that have a place.
LEMMA ObservationSortable ==
    ASSUME IInv, NEW r \in Requests
    PROVE  Sortable(ObservationTriples(r, prepared[r]))
  <1> DEFINE o == prepared[r]
             added == ObservationTriples(r, o)
  <1>1. r \in Ordered
    BY OrderIsTotal DEF Ordered
  <1>2. CASE o = NoObservation
    <2>1. ToSet(o.entities) = {} /\ ToSet(o.relations) = {}
      BY <1>2 DEF NoObservation, ToSet
    <2>2. added = {<<r, "type", Iri("InformationElement")>>, <<r, "identifier", Literal(r)>>,
                   <<r, "plainTextContent", Literal(o.text)>>}
      BY <2>1 DEF ObservationTriples
    <2>3. IsFiniteSet(added)
      <3> DEFINE own(a, b, c) == {a, b, c}
      <3>1. \A a, b, c : IsFiniteSet(own(a, b, c))
        BY FewTriples
      <3>2. added = own(<<r, "type", Iri("InformationElement")>>, <<r, "identifier", Literal(r)>>,
                        <<r, "plainTextContent", Literal(o.text)>>)
        BY <2>2
      <3> HIDE DEF added, own
      <3> QED
        BY <3>1, <3>2
    <2>4. \A t \in added : t[1] = r
      BY <2>2
    <2> QED
      BY <1>1, <2>3, <2>4 DEF Sortable
  <1>3. ASSUME NEW q \in Request[r], q.kind \in {"observe", "extract"}, o = Content(q)
        PROVE  Sortable(added)
    <2>1. Subjects(q) \subseteq Ordered
      BY OrderIsTotal DEF Ordered, Calls
    <2>2. IsFiniteSet(added)
      BY <1>3, CallsAreFinite
    <2>3. \A t \in added : t[1] = r \/ t[1] \in Subjects(q)
      BY <1>3, ObservationNames
    <2> QED
      BY <1>1, <2>1, <2>2, <2>3 DEF Sortable
  <1> QED
    BY <1>2, <1>3 DEF IInv, PreparedKnown

\* Superseding brings in no new name.
LEMMA SupersedeSortable ==
    ASSUME GraphSorted, NEW d
    PROVE  Sortable(SupersedeIn(graph, d))
  <1> DEFINE new == SupersedeIn(graph, d)
  <1>1. CASE Statuses(graph, d) = {}
    BY <1>1 DEF SupersedeIn, GraphSorted
  <1>2. CASE Statuses(graph, d) # {}
    <2>1. PICK t \in graph : t[1] = d
      BY <1>2 DEF Statuses, Objects
    <2> DEFINE rest == {u \in graph : u[1] # d \/ u[2] # "decisionStatus"}
    <2>2. IsFiniteSet(rest)
      BY FS_Subset DEF GraphSorted, Sortable
    <2>3. new = rest \cup {<<d, "decisionStatus", Literal("superseded")>>}
      BY <1>2 DEF SupersedeIn
    <2>4. IsFiniteSet(new)
      <3> HIDE DEF rest, new
      <3> QED
        BY <2>2, <2>3, FewTriples, FS_Union
    <2>5. \A u \in new : u \in graph \/ u[1] = d
      BY <2>3
    <2> HIDE DEF new
    <2>6. Sortable(new)
      BY <2>1, <2>4, <2>5 DEF GraphSorted, Sortable
    <2> QED
      BY <2>6 DEF new
  <1> QED
    BY <1>1, <1>2

\* Whatever a call writes, the graph stays sortable.
LEMMA WritersAdd ==
    ASSUME IInv, GraphSorted, NEW r \in Requests, RequestStep(r)
    PROVE  GraphSorted'
  <1>1. Sortable(graph)
    BY DEF GraphSorted
  <1>2. \A identifiers, new : Sortable(new) /\ Execute(r, identifiers, new) => Sortable(graph')
    BY <1>1 DEF Execute, Updates, UpdateFails
  <1>3. r \in Ordered
    BY OrderIsTotal DEF Ordered
  <1>4. \A q \in Request[r] : Subjects(q) \subseteq Ordered
    BY OrderIsTotal DEF Ordered, Calls
  <1>5. CASE Persist(r)
    <2>1. graph' = graph \cup ObservationTriples(r, prepared[r])
      BY <1>5 DEF Persist, Updates
    <2>2. Sortable(graph \cup ObservationTriples(r, prepared[r]))
      BY ObservationSortable, AddsSortable
    <2> QED
      BY <2>1, <2>2 DEF GraphSorted
  <1>6. CASE PersistFails(r) \/ Track(r)
    BY <1>1, <1>6 DEF GraphSorted, PersistFails, Track, UpdateFails
  <1>7. ASSUME NEW q \in Request[r]
        PROVE  /\ Ingest(r, q) \/ ExtractAndIngest(r, q) \/ ExtractionFails(r, q) => Sortable(graph')
               /\ Supersede(r, q) => Sortable(graph')
    BY <1>1, <1>2, SupersedeSortable
    DEF Ingest, ExtractAndIngest, ExtractionFails, Supersede
  <1>8. ASSUME NEW q \in Request[r], RecordDecision(r, q)
        PROVE  Sortable(graph')
    <2>1. q.kind = "decide"
      BY <1>8 DEF RecordDecision, Makes
    <2>2. \A t \in DecisionTriples(r, q) : t[1] = r
      BY DEF DecisionTriples
    <2>3. IsFiniteSet(DecisionTriples(r, q))
      BY <2>1, CallsAreFinite
    <2>4. Sortable(graph \cup DecisionTriples(r, q))
      BY <1>3, <2>2, <2>3, AddsSortable DEF Sortable
    <2> QED
      BY <1>2, <1>8, <2>4 DEF RecordDecision
  <1>9. ASSUME NEW q \in Request[r], CaptureToolCall(r, q)
        PROVE  Sortable(graph')
    <2>1. PICK uri \in CallUris : Execute(r, {}, graph \cup ToolCallTriples(uri, q))
      BY <1>9 DEF CaptureToolCall
    <2>2. uri \in Ordered
      BY OrderIsTotal DEF Ordered
    <2>3. IsFiniteSet(ToolCallTriples(uri, q))
      BY FewTriples DEF ToolCallTriples
    <2>4. \A t \in ToolCallTriples(uri, q) : t[1] = uri
      BY DEF ToolCallTriples
    <2>5. Sortable(graph \cup ToolCallTriples(uri, q))
      BY <2>2, <2>3, <2>4, AddsSortable DEF Sortable
    <2> QED
      BY <1>2, <2>1, <2>5
  <1>10. ASSUME NEW q \in Request[r], LinkToolCall(r, q)
         PROVE  Sortable(graph')
    <2>1. q.call \in Ordered
      BY <1>4, <1>10 DEF Subjects, LinkToolCall, Makes
    <2>2. IsFiniteSet(EvidenceTriples(q.call, q.decision))
      BY FewTriples DEF EvidenceTriples
    <2>3. \A t \in EvidenceTriples(q.call, q.decision) : t[1] = q.call
      BY DEF EvidenceTriples
    <2>4. Sortable(graph \cup EvidenceTriples(q.call, q.decision))
      BY <2>1, <2>2, <2>3, AddsSortable DEF Sortable
    <2> QED
      BY <1>2, <1>10, <2>4 DEF LinkToolCall
  <1>11. ASSUME NEW q \in Request[r], CreateContainer(r, q)
         PROVE  Sortable(graph')
    <2>1. q.path \in Ordered
      BY <1>4, <1>11 DEF Subjects, CreateContainer, Makes
    <2>2. IsFiniteSet(ContainerTriples(q.path))
      BY FewTriples DEF ContainerTriples
    <2>3. \A t \in ContainerTriples(q.path) : t[1] = q.path
      BY DEF ContainerTriples
    <2>4. Sortable(graph \cup ContainerTriples(q.path))
      BY <2>1, <2>2, <2>3, AddsSortable DEF Sortable
    <2> QED
      BY <1>2, <1>11, <2>4 DEF CreateContainer
  <1>12. ASSUME NEW q \in Request[r], CreateSymbol(r, q)
         PROVE  Sortable(graph')
    <2>1. q.name \in Ordered
      BY <1>4, <1>12 DEF Subjects, CreateSymbol, Makes
    <2>2. IsFiniteSet(SymbolTriples(q.name, q.container))
      BY FewTriples DEF SymbolTriples
    <2>3. \A t \in SymbolTriples(q.name, q.container) : t[1] = q.name
      BY DEF SymbolTriples
    <2>4. Sortable(graph \cup SymbolTriples(q.name, q.container))
      BY <2>1, <2>2, <2>3, AddsSortable DEF Sortable
    <2> QED
      BY <1>2, <1>12, <2>4 DEF CreateSymbol
  <1> QED
    BY <1>5, <1>6, <1>7, <1>8, <1>9, <1>10, <1>11, <1>12 DEF RequestStep, GraphSorted

-----------------------------------------------------------------------------
(* What the queries of lists, details and single hops return.              *)

\* No property that is only ever added can make a node leave a list.
LEMMA ListedGrows ==
    ASSUME NEW g, NEW h, \A t \in g : t[2] \notin Replaced => t \in h
    PROVE  /\ \A q : Listed(g, q) \subseteq Listed(h, q)
           /\ ListedObservations(g) \subseteq ListedObservations(h)
  <1>1. \A class : Instances(g, class) \subseteq Instances(h, class)
    BY DEF Instances, Replaced
  <1>2. \A s, p : p \notin Replaced => Objects(g, s, p) \subseteq Objects(h, s, p)
    BY DEF Objects
  <1>3. ListedObservations(g) \subseteq ListedObservations(h)
    <2>1. /\ \A s : Objects(g, s, "identifier") \subseteq Objects(h, s, "identifier")
          /\ \A s : Objects(g, s, "plainTextContent") \subseteq Objects(h, s, "plainTextContent")
      BY <1>2 DEF Replaced
    <2> QED
      BY <1>1, <2>1 DEF ListedObservations
  <1>4. \A q : ListedDecisions(g, q) \subseteq ListedDecisions(h, q)
    <2>1. \A s : Objects(g, s, "decisionOutcome") \subseteq Objects(h, s, "decisionOutcome")
      BY <1>2 DEF Replaced
    <2> QED
      BY <1>1, <2>1 DEF ListedDecisions
  <1> QED
    BY <1>3, <1>4 DEF Listed

\* A list has finitely many rows, all of them with a place.
LEMMA ListedIs ==
    ASSUME NEW g, IsFiniteSet(g), \A t \in g : t[1] \in Ordered, NEW q
    PROVE  IsFiniteSet(Listed(g, q)) /\ Listed(g, q) \in SUBSET Ordered
  <1> DEFINE S == {t[1] : t \in g}
             f == [t \in g |-> t[1]]
  <1>1. f \in Surjection(g, S)
    BY DEF Surjection
  <1>2. IsFiniteSet(S)
    BY <1>1, FS_Surjection
  <1>3. \A class : Instances(g, class) \subseteq S
    BY DEF Instances
  <1>4. Listed(g, q) \in SUBSET S
    BY <1>3 DEF Listed, ListedDecisions, ListedObservations
  <1> QED
    BY <1>2, <1>4, FS_Subset

\* So has what is counted, which for decisions is what is listed.
LEMMA CountedIs ==
    ASSUME NEW g, IsFiniteSet(g), NEW q
    PROVE  /\ Cardinality(Counted(g, q)) \in Nat
           /\ q.class = "Decision" => Counted(g, q) = Listed(g, q)
  <1> DEFINE S == {t[1] : t \in g}
             f == [t \in g |-> t[1]]
  <1>1. f \in Surjection(g, S)
    BY DEF Surjection
  <1>2. IsFiniteSet(S)
    BY <1>1, FS_Surjection
  <1>3. Counted(g, q) \in SUBSET S
    BY DEF Counted, ListedDecisions, Instances
  <1>4. IsFiniteSet(Counted(g, q))
    BY <1>2, <1>3, FS_Subset
  <1>5. q.class = "Decision" => Counted(g, q) = Listed(g, q)
    BY DEF Counted, Listed
  <1> QED
    BY <1>4, <1>5, FS_CardinalityType

\* A listed observation is in the graph.
LEMMA ListedIsKnown ==
    ASSUME NEW g, NEW o \in ListedObservations(g)
    PROVE  Known(g, o)
  BY DEF ListedObservations, Instances, Known

\* Once an observation is known, its call has written it.
LEMMA OwnIsWritten ==
    ASSUME IInv, NEW o, Known(graph, o)
    PROVE  /\ \A t \in Own(o) : t[2] \in Texts => t \in graph
           /\ o \in Observed => pc[o] \in {"persisted", "done"}
  <1>1. ASSUME o \in Observed
        PROVE  pc[o] \in {"persisted", "done"}
    BY <1>1 DEF IInv, OpenUnwritten, Open, Known, CallsTyped, Observed
  <1>2. ASSUME o \in Observed
        PROVE  \A t \in ObservationTriples(o, prepared[o]) : t[2] \in Texts => t \in graph
    BY <1>1, <1>2 DEF IInv, WrittenAndTracked, Written, Texts, Replaced
  <1> QED
    BY <1>1, <1>2 DEF Own

\* What it has written does not change.
LEMMA OwnStays ==
    ASSUME IInv, NEW w \in Requests, RequestStep(w), NEW o, Known(graph, o)
    PROVE  Own(o)' = Own(o)
  <1>1. o \in Observed => pc[o] \notin {"asked"} /\ o \in Requests
    BY OwnIsWritten DEF Observed
  <1>2. UNCHANGED prepared \/ (pc[w] = "asked" /\ \E c : prepared' = [prepared EXCEPT ![w] = c])
    BY DEF RequestStep, Ingest, ExtractAndIngest, ExtractionFails, Prepare, Makes,
           RecordDecision, Supersede, CaptureToolCall, LinkToolCall, CreateContainer,
           CreateSymbol, Execute, Persist, PersistFails, Track
  <1>3. o \in Observed => prepared'[o] = prepared[o]
    <2>1. prepared = [r \in Requests |-> prepared[r]]
      BY DEF IInv, CallsTyped
    <2> QED
      BY <1>1, <1>2, <2>1
  <1> QED
    BY <1>3 DEF Own, Observed, Requests

\* A single hop's rows are no more than it counts.
LEMMA EachRowCounts ==
    ASSUME NEW g, IsFiniteSet(g), NEW n, NEW edges, NEW depth
    PROVE  LET rows == Around(g, n, edges)
           IN  /\ IsFiniteSet(rows)
               /\ Cardinality(rows) <= Results(g, n, depth, rows)
               /\ Results(g, n, depth, rows) \in Nat
  <1> DEFINE rows == Around(g, n, edges)
             Times(w) == {w} \X (1..Copies(g, n, depth, w))
             all == UNION {Times(w) : w \in rows}
  <1>1. IsFiniteSet(rows)
    BY FiniteAround
  <1>2. ASSUME NEW w \in rows
        PROVE  Copies(g, n, depth, w) \in Nat /\ 1 <= Copies(g, n, depth, w)
    <2> DEFINE from == {t \in g : Row(t) = w /\ t[1] = n}
               to   == {t \in g : Row(t) = w /\ Says(t, n)}
               hops == {t \in to : t[3] = Iri(n)}
    <2>1. IsFiniteSet(from) /\ IsFiniteSet(to)
      BY FS_Subset
    <2>2. IsFiniteSet(hops)
      BY <2>1, FS_Subset
    <2>3. Cardinality(from) \in Nat /\ Cardinality(to) \in Nat /\ Cardinality(hops) \in Nat
      BY <2>1, <2>2, FS_CardinalityType
    <2>4. from # {} \/ to # {}
      <3>1. PICK t \in g : (t[1] = n \/ Says(t, n)) /\ w = Row(t)
        BY DEF Around, Rows
      <3> QED
        BY <3>1
    <2>5. Cardinality(from) # 0 \/ Cardinality(to) # 0
      BY <2>1, <2>4, FS_EmptySet
    <2>6. Copies(g, n, depth, w) = Cardinality(from) + Cardinality(to)
                + (IF depth = 0 THEN 0 ELSE Cardinality(from) + Cardinality(hops))
      BY DEF Copies
    <2> HIDE DEF from, to, hops
    <2> QED
      BY <2>3, <2>5, <2>6
  <1>3. ASSUME NEW w \in rows
        PROVE  IsFiniteSet(Times(w))
    <2>1. IsFiniteSet(1..Copies(g, n, depth, w))
      BY <1>2, FS_Interval
    <2> QED
      BY <2>1, FS_Singleton, FS_Product
  <1>4. IsFiniteSet(all)
    <2> DEFINE f == [w \in rows |-> Times(w)]
    <2>1. f \in Surjection(rows, {Times(w) : w \in rows})
      BY DEF Surjection
    <2>2. IsFiniteSet({Times(w) : w \in rows})
      BY <1>1, <2>1, FS_Surjection
    <2> QED
      BY <1>3, <2>2, FS_UNION
  <1>5. Cardinality(rows) <= Cardinality(all)
    <2> DEFINE f == [w \in rows |-> <<w, 1>>]
    <2>1. \A w \in rows : <<w, 1>> \in Times(w)
      BY <1>2
    <2>2. f \in Injection(rows, all)
      <3> HIDE DEF rows, Times
      <3> QED
        BY <2>1 DEF Injection, IsInjective
    <2> QED
      BY <1>4, <2>2, FS_Injection
  <1>6. Results(g, n, depth, rows) = Cardinality(all)
    BY DEF Results
  <1> QED
    BY <1>1, <1>4, <1>5, <1>6, FS_CardinalityType

\* In a larger graph the same rows are no fewer results.
LEMMA MoreResults ==
    ASSUME NEW g, NEW h, g \subseteq h, IsFiniteSet(h), NEW n, NEW depth,
           NEW some, IsFiniteSet(some)
    PROVE  /\ Results(g, n, depth, some) <= Results(h, n, depth, some)
           /\ Results(g, n, depth, some) \in Nat /\ Results(h, n, depth, some) \in Nat
  <1> DEFINE Times(k, w) == {w} \X (1..Copies(k, n, depth, w))
             all(k) == UNION {Times(k, w) : w \in some}
  <1>1. ASSUME NEW w
        PROVE  /\ Copies(g, n, depth, w) \in Nat /\ Copies(h, n, depth, w) \in Nat
               /\ Copies(g, n, depth, w) <= Copies(h, n, depth, w)
    <2> DEFINE from(k) == {t \in k : Row(t) = w /\ t[1] = n}
               to(k)   == {t \in k : Row(t) = w /\ Says(t, n)}
               hops(k) == {t \in to(k) : t[3] = Iri(n)}
    <2>1. from(g) \subseteq from(h) /\ to(g) \subseteq to(h) /\ hops(g) \subseteq hops(h)
      OBVIOUS
    <2>2. from(h) \subseteq h /\ to(h) \subseteq h /\ hops(h) \subseteq h
      OBVIOUS
    <2>3. \A k \in {g, h} : Copies(k, n, depth, w) = Cardinality(from(k)) + Cardinality(to(k))
                + (IF depth = 0 THEN 0 ELSE Cardinality(from(k)) + Cardinality(hops(k)))
      BY DEF Copies
    <2> HIDE DEF from, to, hops
    <2>4. IsFiniteSet(from(h)) /\ IsFiniteSet(to(h)) /\ IsFiniteSet(hops(h))
      BY <2>2, FS_Subset
    <2>5. /\ Cardinality(from(g)) \in Nat /\ Cardinality(from(h)) \in Nat
          /\ Cardinality(from(g)) <= Cardinality(from(h))
      BY <2>1, <2>4, FS_Subset, FS_CardinalityType
    <2>6. /\ Cardinality(to(g)) \in Nat /\ Cardinality(to(h)) \in Nat
          /\ Cardinality(to(g)) <= Cardinality(to(h))
      BY <2>1, <2>4, FS_Subset, FS_CardinalityType
    <2>7. /\ Cardinality(hops(g)) \in Nat /\ Cardinality(hops(h)) \in Nat
          /\ Cardinality(hops(g)) <= Cardinality(hops(h))
      BY <2>1, <2>4, FS_Subset, FS_CardinalityType
    <2> QED
      BY <2>3, <2>5, <2>6, <2>7
  <1>2. all(g) \subseteq all(h)
    <2>1. ASSUME NEW w \in some
          PROVE  Times(g, w) \subseteq Times(h, w)
      BY <1>1
    <2> HIDE DEF Times
    <2> QED
      BY <2>1
  <1>3. IsFiniteSet(all(h))
    <2> DEFINE f == [w \in some |-> Times(h, w)]
    <2>1. ASSUME NEW w \in some
          PROVE  IsFiniteSet(Times(h, w))
      <3>1. IsFiniteSet(1..Copies(h, n, depth, w))
        BY <1>1, FS_Interval
      <3> QED
        BY <3>1, FS_Singleton, FS_Product
    <2>2. f \in Surjection(some, {Times(h, w) : w \in some})
      BY DEF Surjection
    <2>3. IsFiniteSet({Times(h, w) : w \in some})
      BY <2>2, FS_Surjection
    <2> QED
      BY <2>1, <2>3, FS_UNION
  <1>4. Results(g, n, depth, some) = Cardinality(all(g)) /\ Results(h, n, depth, some) = Cardinality(all(h))
    BY DEF Results
  <1> QED
    BY <1>2, <1>3, <1>4, FS_Subset, FS_CardinalityType

-----------------------------------------------------------------------------
(* The inductive invariant.                                                *)

\* A stage belongs to the calls that go through it.
Purpose(r) ==
    /\ (at[r] = "idle") = (call[r] = NoCall)
    /\ at[r] # "idle" => call[r] \in Reading[r]
    /\ at[r] \in {"direct", "walking"} => call[r].kind = "walk"
    /\ at[r] \in {"counting", "paging"} => call[r].kind = "list" /\ call[r].entity = Blank
    /\ at[r] = "finding" => call[r].kind \in {"decision", "observation", "entity"}
    /\ at[r] = "references" => call[r].kind = "observation"
    /\ at[r] = "alternatives" => call[r].kind = "decision"
    /\ at[r] \in {"observations", "relations"} => call[r].kind = "entity"
    /\ at[r] = "asking" => call[r].kind \in {"related", "entities", "projects"}

\* What was there all the time is there now, and that was there at some time.
Between(r) ==
    /\ at[r] \in Stages => since[r] \subseteq graph /\ graph \subseteq ever[r]
    /\ since[r] \subseteq ever[r]
    /\ IsFiniteSet(ever[r])

AnswerTyped(r) ==
    /\ answer[r] = [rows |-> answer[r].rows, offset |-> answer[r].offset,
                    total |-> answer[r].total, truncated |-> answer[r].truncated]
    /\ answer[r].offset \in Nat /\ answer[r].total \in Nat /\ answer[r].truncated \in BOOLEAN
    /\ at[r] \in {"idle", "direct", "finding"} => answer[r] = NoRows
    /\ at[r] # "idle" /\ call[r].kind = "walk" =>
          IsFiniteSet(answer[r].rows) /\ Cardinality(answer[r].rows) <= MaxTriples
    /\ at[r] # "idle" /\ call[r].kind = "list" =>
          IsFiniteSet(answer[r].rows) /\ Cardinality(answer[r].rows) <= answer[r].offset

\* The nodes whose rows a walk has.
Expanded(w) == w.visited \ (w.level \cup w.next)

\* A walk that has done some hops has visited all that these reach over what was
\* there all the time, has the rows and neighbours of what it has expanded, and
\* goes on with nothing that could not be reached.
GoesOn(q, w, some, g, h) ==
    LET hops == Hops(q) - w.left
    IN /\ w = [level |-> w.level, next |-> w.next, visited |-> w.visited, left |-> w.left]
       /\ w.left \in 1..Hops(q) /\ w.level # {}
       /\ w.level \cup w.next \subseteq w.visited
       /\ q.start \in w.visited /\ w.visited \subseteq Memory \cup {q.start}
       /\ Ball(g, q, hops) \subseteq w.visited \ w.next
       /\ \A n \in Expanded(w) :
             /\ Around(g, n, q.edges) \subseteq some
             /\ Near(g, n, q.edges) \subseteq w.visited
       /\ w.level \subseteq Ball(h, q, hops) /\ w.next \subseteq Ball(h, q, hops + 1)
       /\ some \subseteq Neighbourhood(h, q)

WalkKnows(r) ==
    IF at[r] = "walking"
    THEN /\ ~answer[r].truncated
         /\ GoesOn(call[r], walk[r], answer[r].rows, since[r], ever[r])
    ELSE walk[r] = NoWalk

\* A single hop is one of a walk that has no more.
HopKnows(r) ==
    /\ at[r] = "direct" => Hops(call[r]) <= 1
    /\ at[r] = "walking" => Hops(call[r]) > 1

\* What was listed all the time has been seen or is still ahead.
Ahead(q, some, offset, g) ==
    \A n \in Listed(g, q) : n \in some \/ Rank(n, Listed(graph, q), q) > offset

ListKnows(r) ==
    at[r] \in {"counting", "paging"} =>
        /\ answer[r].rows \subseteq Listed(ever[r], call[r])
        /\ Ahead(call[r], answer[r].rows, answer[r].offset, since[r])
        /\ at[r] = "paging" /\ call[r].class = "Decision" =>
              answer[r].total <= Cardinality(Listed(graph, call[r]))

\* What is shown of an observation: all that was there all the time or that its
\* call has stored, and nothing that is not there.
Shows(r, shown) ==
    LET id == call[r].id
    IN /\ id \in ListedObservations(graph)
       /\ Of(since[r] \cup Own(id), id, shown) \subseteq answer[r].rows
       /\ answer[r].rows \subseteq Of(graph, id, shown)

ObservationKnows(r) ==
    at[r] # "idle" /\ call[r].kind = "observation" =>
        /\ at[r] = "references" => Shows(r, {"plainTextContent"})
        /\ at[r] = "done" => Shows(r, Texts)
        /\ at[r] = "absent" => call[r].id \notin ListedObservations(since[r])

\* A traversal that says it was cut has met its cap.
CutIsFull(q, reply, g) ==
    reply.truncated =>
        /\ Hops(q) > 1 => Cardinality(reply.rows) = MaxTriples /\ reply.rows # Neighbourhood(g, q)
        /\ Hops(q) <= 1 => MaxTriples <= Results(g, q.start, Hops(q), reply.rows)

\* What the properties say of a call that is over.
Answered(r) ==
    /\ Done(r, "walk") =>
          /\ answer[r].rows \subseteq Neighbourhood(ever[r], call[r])
          /\ ~answer[r].truncated => Neighbourhood(since[r], call[r]) \subseteq answer[r].rows
          /\ CutIsFull(call[r], answer[r], ever[r])
    /\ Done(r, "list") /\ call[r].entity = Blank =>
          /\ Listed(since[r], call[r]) \subseteq answer[r].rows
          /\ answer[r].rows \subseteq Listed(ever[r], call[r])
          /\ call[r].class = "Decision" => answer[r].total <= answer[r].offset

Functional ==
    /\ at \in [Readers -> Stages \cup Ends \cup {"idle"}]
    /\ call = [r \in Readers |-> call[r]]
    /\ walk = [r \in Readers |-> walk[r]]
    /\ answer = [r \in Readers |-> answer[r]]
    /\ since = [r \in Readers |-> since[r]]
    /\ ever = [r \in Readers |-> ever[r]]

Knows(r) ==
    /\ Purpose(r) /\ Between(r) /\ AnswerTyped(r) /\ WalkKnows(r) /\ HopKnows(r)
    /\ ListKnows(r) /\ ObservationKnows(r) /\ Answered(r)

QueriesInv == IInv /\ GraphSorted /\ Functional /\ \A r \in Readers : Knows(r)

-----------------------------------------------------------------------------
(* A reader's steps leave the store and the other readers alone.           *)

\* A step of a reader leaves the invariant of the writers alone.
LEMMA WritersRest ==
    ASSUME IInv, UNCHANGED <<graph, pc, prepared, tracked, worker>>, faults' \in 0..MaxFaults
    PROVE  IInv'
  <1>1. UNCHANGED writers
    BY DEF writers
  <1> QED
    BY <1>1, WorkerStillKnows, WorkerStepInductive DEF GraphStep

\* A reader knows what it knew when another one takes a step.
LEMMA OthersKnow ==
    ASSUME NEW s \in Readers, Knows(s), UNCHANGED graph,
           UNCHANGED prepared, call'[s] = call[s], at'[s] = at[s], walk'[s] = walk[s],
           answer'[s] = answer[s], since'[s] = since[s], ever'[s] = ever[s]
    PROVE  Knows(s)'
  <1>1. Purpose(s)' /\ Between(s)' /\ AnswerTyped(s)'
    BY DEF Knows, Purpose, Between, AnswerTyped
  <1>2. WalkKnows(s)' /\ HopKnows(s)'
    BY DEF Knows, WalkKnows, HopKnows
  <1>3. ListKnows(s)' /\ ObservationKnows(s)'
    <2>1. ListKnows(s)'
      BY DEF Knows, ListKnows, Ahead
    <2>2. Own(call[s].id)' = Own(call[s].id)
      BY DEF Own, Observed, Requests
    <2>3. \A shown : Shows(s, shown) => Shows(s, shown)'
      BY <2>2 DEF Shows
    <2> QED
      BY <2>1, <2>3 DEF Knows, ObservationKnows
  <1>4. Answered(s)'
    BY DEF Knows, Answered, Done
  <1> QED
    BY <1>1, <1>2, <1>3, <1>4 DEF Knows

\* It is enough to know what the reader that moves knows.
LEMMA ReadStep ==
    ASSUME QueriesInv, NEW r \in Readers, NEW from, NEW to,
           Reads(r, from, to), to \in Stages \cup Ends,
           UNCHANGED walk \/ \E w : walk' = [walk EXCEPT ![r] = w],
           UNCHANGED answer \/ \E a : answer' = [answer EXCEPT ![r] = a]
    PROVE  /\ at[r] = from /\ at'[r] = to
           /\ call'[r] = call[r] /\ since'[r] = since[r] /\ ever'[r] = ever[r]
           /\ graph' = graph /\ prepared' = prepared
           /\ Knows(r)' => QueriesInv'
  <1>1. Functional
    BY DEF QueriesInv
  <1>2. /\ at[r] = from /\ at' = [at EXCEPT ![r] = to]
        /\ call' = call /\ since' = since /\ ever' = ever
        /\ UNCHANGED <<graph, pc, prepared, tracked, worker, faults>>
    BY DEF Reads
  <1>3. at'[r] = to /\ \A s \in Readers : s # r => at'[s] = at[s]
    BY <1>1, <1>2 DEF Functional
  <1>4. \A s \in Readers : s # r => walk'[s] = walk[s] /\ answer'[s] = answer[s]
    BY <1>1 DEF Functional
  <1>5. Functional'
    BY <1>1, <1>2 DEF Functional
  <1>6. IInv' /\ GraphSorted'
    <2>1. IInv /\ GraphSorted /\ faults \in 0..MaxFaults
      BY DEF QueriesInv, IInv, CallsTyped
    <2> QED
      BY <1>2, <2>1, WritersRest DEF GraphSorted
  <1>7. \A s \in Readers : s # r => Knows(s)'
    BY <1>2, <1>3, <1>4, OthersKnow DEF QueriesInv
  <1> QED
    BY <1>2, <1>3, <1>5, <1>6, <1>7 DEF QueriesInv

\* What an answer is after more rows have come.
LEMMA AnswerGets ==
    ASSUME QueriesInv, NEW r \in Readers, NEW some, Gets(r, some)
    PROVE  /\ \E a : answer' = [answer EXCEPT ![r] = a]
           /\ answer'[r] = [answer[r] EXCEPT !.rows = @ \cup some]
           /\ answer'[r].rows = answer[r].rows \cup some
           /\ answer'[r].offset = answer[r].offset /\ answer'[r].total = answer[r].total
           /\ answer'[r].truncated = answer[r].truncated
           /\ answer'[r] = [rows |-> answer'[r].rows, offset |-> answer'[r].offset,
                            total |-> answer'[r].total, truncated |-> answer'[r].truncated]
  <1>1. answer = [s \in Readers |-> answer[s]]
        /\ answer[r] = [rows |-> answer[r].rows, offset |-> answer[r].offset,
                        total |-> answer[r].total, truncated |-> answer[r].truncated]
    BY DEF QueriesInv, Functional, Knows, AnswerTyped
  <1>2. answer' = [answer EXCEPT ![r] = [answer[r] EXCEPT !.rows = @ \cup some]]
    BY <1>1 DEF Gets
  <1>3. answer'[r] = [answer[r] EXCEPT !.rows = @ \cup some]
    BY <1>1, <1>2
  <1> QED
    BY <1>1, <1>2, <1>3

\* What an answer is after it was cut.
LEMMA AnswerCut ==
    ASSUME QueriesInv, NEW r \in Readers, NEW some, Cut(r, some)
    PROVE  /\ \E a : answer' = [answer EXCEPT ![r] = a]
           /\ answer'[r].rows = answer[r].rows \cup some
           /\ answer'[r].offset = answer[r].offset /\ answer'[r].total = answer[r].total
           /\ answer'[r].truncated = TRUE
           /\ answer'[r] = [rows |-> answer'[r].rows, offset |-> answer'[r].offset,
                            total |-> answer'[r].total, truncated |-> answer'[r].truncated]
  <1>1. answer = [s \in Readers |-> answer[s]]
        /\ answer[r] = [rows |-> answer[r].rows, offset |-> answer[r].offset,
                        total |-> answer[r].total, truncated |-> answer[r].truncated]
    BY DEF QueriesInv, Functional, Knows, AnswerTyped
  <1>2. answer' = [answer EXCEPT ![r] = [answer[r] EXCEPT !.rows = @ \cup some, !.truncated = TRUE]]
    BY <1>1 DEF Cut
  <1>3. answer'[r] = [answer[r] EXCEPT !.rows = @ \cup some, !.truncated = TRUE]
    BY <1>1, <1>2
  <1> QED
    BY <1>1, <1>2, <1>3

-----------------------------------------------------------------------------
(* Details, and what takes one query.                                      *)

\* Calls that are neither walks nor lists nor observations.
LEMMA DetailStep ==
    ASSUME QueriesInv, NEW r \in Readers, NEW from \in Stages, NEW to \in Stages \cup Ends,
           Reads(r, from, to), NEW some, Gets(r, some), UNCHANGED walk,
           call[r].kind \notin {"walk", "list", "observation"},
           to \in {"alternatives", "observations", "relations"} \cup Ends,
           to = "alternatives" => call[r].kind = "decision",
           to \in {"observations", "relations"} => call[r].kind = "entity"
    PROVE  QueriesInv'
  <1>1. /\ at[r] = from /\ at'[r] = to
        /\ call'[r] = call[r] /\ since'[r] = since[r] /\ ever'[r] = ever[r]
        /\ graph' = graph
        /\ Knows(r)' => QueriesInv'
    <2>1. \E a : answer' = [answer EXCEPT ![r] = a]
      BY AnswerGets
    <2> QED
      BY <2>1, ReadStep
  <1>2. Knows(r)
    BY DEF QueriesInv
  <1> USE DEF Stages, Ends
  <1>3. Purpose(r)'
    BY <1>1, <1>2 DEF Knows, Purpose
  <1>4. Between(r)'
    BY <1>1, <1>2 DEF Knows, Between
  <1>5. AnswerTyped(r)'
    BY <1>1, <1>2, AnswerGets DEF Knows, AnswerTyped
  <1>6. WalkKnows(r)' /\ HopKnows(r)'
    BY <1>1, <1>2 DEF Knows, WalkKnows, HopKnows, Purpose
  <1>7. ListKnows(r)' /\ ObservationKnows(r)' /\ Answered(r)'
    BY <1>1 DEF ListKnows, ObservationKnows, Answered, Done
  <1> QED
    BY <1>1, <1>3, <1>4, <1>5, <1>6, <1>7 DEF Knows

\* What is shown of a node grows with the graph and can be read in parts.
LEMMA OfIs ==
    ASSUME NEW n
    PROVE  /\ \A g : Of(g, n, {"plainTextContent"}) \cup Of(g, n, {"hasEntity"}) = Of(g, n, Texts)
           /\ \A g, h, shown : (\A t \in g : t[2] \in shown => t \in h) =>
                 Of(g, n, shown) \subseteq Of(h, n, shown)
           /\ \A g : Of(g, n, {}) = {}
  <1>1. ASSUME NEW g, NEW shown, NEW row
        PROVE  row \in Of(g, n, shown) <=> \E t \in g : t[1] = n /\ t[2] \in shown /\ row = Row(t)
    BY DEF Of, Rows
  <1>2. \A g : Of(g, n, {"plainTextContent"}) \cup Of(g, n, {"hasEntity"}) = Of(g, n, Texts)
    BY DEF Of, Rows, Texts
  <1>3. ASSUME NEW g, NEW h, NEW shown, \A t \in g : t[2] \in shown => t \in h
        PROVE  Of(g, n, shown) \subseteq Of(h, n, shown)
    BY <1>1, <1>3
  <1>4. \A g : Of(g, n, {}) = {}
    BY <1>1
  <1> QED
    BY <1>2, <1>3, <1>4

\* What was there all the time, and what the call has stored, is there.
LEMMA ShownIsThere ==
    ASSUME QueriesInv, NEW r \in Readers, at[r] \in Stages, NEW id, Known(graph, id),
           NEW shown \in SUBSET Texts
    PROVE  Of(since[r] \cup Own(id), id, shown) \subseteq Of(graph, id, shown)
  <1>1. since[r] \subseteq graph
    BY DEF QueriesInv, Knows, Between
  <1>2. \A t \in Own(id) : t[2] \in Texts => t \in graph
    BY OwnIsWritten DEF QueriesInv
  <1>3. \A t \in since[r] \cup Own(id) : t[2] \in shown => t \in graph
    BY <1>1, <1>2
  <1> QED
    BY <1>3, OfIs

\* Finding an observation, and reading what it refers to.
LEMMA ObservationStepKnows ==
    ASSUME QueriesInv, NEW r \in Readers, FindObservation(r) \/
           (call[r].kind = "observation" /\ ReadReferences(r))
    PROVE  QueriesInv'
  <1> DEFINE id == call[r].id
             listed == id \in ListedObservations(graph)
  <1>1. Knows(r)
    BY DEF QueriesInv
  <1>2. CASE FindObservation(r)
    <2> DEFINE to == IF listed THEN "references" ELSE "absent"
               some == Of(graph, id, IF listed THEN {"plainTextContent"} ELSE {})
    <2>1. /\ call[r].kind = "observation" /\ Reads(r, "finding", to)
          /\ Gets(r, some) /\ UNCHANGED walk
      BY <1>2 DEF FindObservation
    <2>2. to \in Stages \cup Ends
      BY DEF Stages, Ends
    <2>0. /\ to \in {"references", "absent"}
          /\ to = "references" => listed /\ some = Of(graph, id, {"plainTextContent"})
          /\ to = "absent" => ~listed
      OBVIOUS
    <2> HIDE DEF to, some
    <2>3. /\ at[r] = "finding" /\ at'[r] = to
          /\ call'[r] = call[r] /\ since'[r] = since[r] /\ ever'[r] = ever[r]
          /\ graph' = graph /\ prepared' = prepared
          /\ Knows(r)' => QueriesInv'
      BY <2>1, <2>2, AnswerGets, ReadStep
    <2>4. Purpose(r)'
      BY <1>1, <2>0, <2>1, <2>3 DEF Knows, Purpose
    <2>5. since[r] \subseteq graph
      BY <1>1, <2>3 DEF Knows, Between, Stages
    <2>6. Between(r)'
      BY <1>1, <2>3 DEF Knows, Between, Stages, Ends
    <2>7. AnswerTyped(r)'
      BY <1>1, <2>0, <2>1, <2>3, AnswerGets DEF Knows, AnswerTyped
    <2>8. WalkKnows(r)' /\ HopKnows(r)'
      BY <1>1, <2>0, <2>1, <2>3 DEF Knows, WalkKnows, HopKnows
    <2>9. ListKnows(r)' /\ Answered(r)'
      BY <2>0, <2>1, <2>3 DEF ListKnows, Answered, Done
    <2>10. answer'[r].rows = some
      <3>1. answer[r].rows = {}
        BY <1>1, <2>3 DEF Knows, AnswerTyped, NoRows
      <3>2. answer'[r].rows = answer[r].rows \cup some
        BY <2>1, AnswerGets
      <3> QED
        BY <3>1, <3>2
    <2>11. ListedObservations(since[r]) \subseteq ListedObservations(graph)
      BY <2>5, ListedGrows
    <2>12. ObservationKnows(r)'
      <3>1. Own(id)' = Own(id)
        BY <2>3 DEF Own, Observed, Requests
      <3>2. ASSUME to = "references"
            PROVE  Shows(r, {"plainTextContent"})'
        <4>1. Known(graph, id)
          BY <2>0, <3>2, ListedIsKnown
        <4>2. Of(since[r] \cup Own(id), id, {"plainTextContent"}) \subseteq some
          <5>1. {"plainTextContent"} \in SUBSET Texts /\ at[r] \in Stages
            BY <2>3 DEF Texts, Stages
          <5> HIDE DEF id
          <5> QED
            BY <2>0, <3>2, <4>1, <5>1, ShownIsThere
        <4> QED
          BY <2>0, <2>3, <2>10, <3>1, <3>2, <4>2 DEF Shows
      <3> QED
        BY <2>0, <2>3, <2>11, <3>2 DEF ObservationKnows
    <2> QED
      BY <2>3, <2>4, <2>6, <2>7, <2>8, <2>9, <2>12 DEF Knows
  <1>3. CASE call[r].kind = "observation" /\ ReadReferences(r)
    <2> DEFINE to == IF "hasEntity" \in Declared THEN "done" ELSE "failed"
    <2>1. /\ Reads(r, "references", to)
          /\ Gets(r, Of(graph, id, {"hasEntity"})) /\ UNCHANGED walk
      BY <1>3 DEF ReadReferences
    <2>0. to \in {"done", "failed"}
      OBVIOUS
    <2> HIDE DEF to
    <2>2. to \in Stages \cup Ends
      BY <2>0 DEF Ends
    <2>3. /\ at[r] = "references" /\ at'[r] = to
          /\ call'[r] = call[r] /\ since'[r] = since[r] /\ ever'[r] = ever[r]
          /\ graph' = graph /\ prepared' = prepared
          /\ Knows(r)' => QueriesInv'
      BY <2>1, <2>2, AnswerGets, ReadStep
    <2>4. Purpose(r)'
      BY <1>1, <2>0, <2>3 DEF Knows, Purpose
    <2>5. Between(r)'
      BY <1>1, <2>0, <2>3 DEF Knows, Between, Stages, Ends
    <2>6. AnswerTyped(r)'
      BY <1>1, <1>3, <2>0, <2>1, <2>3, AnswerGets DEF Knows, AnswerTyped
    <2>7. WalkKnows(r)' /\ HopKnows(r)'
      BY <1>1, <2>0, <2>1, <2>3 DEF Knows, WalkKnows, HopKnows
    <2>8. ListKnows(r)' /\ Answered(r)'
      BY <1>3, <2>0, <2>3 DEF ListKnows, Answered, Done
    <2>9. Shows(r, {"plainTextContent"})
      BY <1>1, <1>3, <2>3 DEF Knows, ObservationKnows
    <2>10. answer'[r].rows = answer[r].rows \cup Of(graph, id, {"hasEntity"})
      BY <2>1, AnswerGets
    <2>11. ObservationKnows(r)'
      <3>1. Own(id)' = Own(id)
        BY <2>3 DEF Own, Observed, Requests
      <3>2. Of(since[r] \cup Own(id), id, {"hasEntity"}) \subseteq Of(graph, id, {"hasEntity"})
        <4>1. Known(graph, id)
          BY <2>9, ListedIsKnown DEF Shows
        <4>2. {"hasEntity"} \in SUBSET Texts /\ at[r] \in Stages
          BY <2>3 DEF Texts, Stages
        <4> HIDE DEF id
        <4> QED
          BY <4>1, <4>2, ShownIsThere
      <3>3. /\ Of(since[r] \cup Own(id), id, {"plainTextContent"}) \subseteq answer[r].rows
            /\ answer[r].rows \subseteq Of(graph, id, {"plainTextContent"})
        BY <2>9 DEF Shows
      <3>4. \A g : Of(g, id, {"plainTextContent"}) \cup Of(g, id, {"hasEntity"}) = Of(g, id, Texts)
        <4> HIDE DEF id
        <4> QED
          BY OfIs
      <3>5. /\ Of(since[r] \cup Own(id), id, Texts) \subseteq answer'[r].rows
            /\ answer'[r].rows \subseteq Of(graph, id, Texts)
        <4> HIDE DEF id
        <4> QED
          BY <2>10, <3>2, <3>3, <3>4
      <3>6. Shows(r, Texts)'
        BY <2>3, <2>9, <3>1, <3>5 DEF Shows
      <3> QED
        BY <2>0, <2>3, <3>6 DEF ObservationKnows
    <2> QED
      BY <2>3, <2>4, <2>5, <2>6, <2>7, <2>8, <2>11 DEF Knows
  <1> QED
    BY <1>2, <1>3

\* All details and single queries.
LEMMA DetailsKnow ==
    ASSUME QueriesInv, NEW r \in Readers,
           \/ FindObservation(r) \/ ReadReferences(r) \/ FindDecision(r) \/ ReadAlternatives(r)
           \/ FindEntity(r) \/ ReadObservations(r) \/ ReadRelations(r) \/ AskOnce(r)
    PROVE  QueriesInv'
  <1>1. Purpose(r)
    BY DEF QueriesInv, Knows
  <1> USE DEF Stages, Ends
  <1>2. CASE FindObservation(r)
    BY <1>2, ObservationStepKnows
  <1>3. CASE ReadReferences(r)
    <2>1. at[r] = "references"
      BY <1>3 DEF ReadReferences, Reads
    <2> QED
      BY <1>1, <1>3, <2>1, ObservationStepKnows DEF Purpose
  <1>4. CASE FindDecision(r)
    <2> DEFINE known == call[r].id \in Instances(graph, "Decision")
               to == IF known THEN "alternatives" ELSE "absent"
               some == IF known
                       THEN Of(graph, call[r].id, {"decisionOutcome", "decisionContext", "decisionRationale"})
                       ELSE {}
    <2>1. call[r].kind = "decision" /\ Reads(r, "finding", to) /\ Gets(r, some) /\ UNCHANGED walk
      BY <1>4 DEF FindDecision
    <2>2. to \in {"alternatives", "absent"}
      OBVIOUS
    <2> HIDE DEF to, some
    <2> QED
      BY <2>1, <2>2, DetailStep
  <1>5. CASE ReadAlternatives(r)
    <2> DEFINE to == IF "decisionAlternative" \in Declared THEN "done" ELSE "failed"
    <2>1. /\ Reads(r, "alternatives", to) /\ UNCHANGED walk
          /\ Gets(r, Of(graph, call[r].id, {"decisionAlternative"}))
      BY <1>5 DEF ReadAlternatives
    <2>2. to \in {"done", "failed"}
      OBVIOUS
    <2>3. call[r].kind = "decision"
      BY <1>1, <2>1 DEF Purpose, Reads
    <2> HIDE DEF to
    <2> QED
      BY <2>1, <2>2, <2>3, DetailStep
  <1>6. CASE FindEntity(r)
    <2> DEFINE known == call[r].id \in Instances(graph, "Entity") \/ Objects(graph, call[r].id, "label") # {}
               to == IF known THEN "observations" ELSE "absent"
               some == IF known THEN Of(graph, call[r].id, {"type", "label"}) ELSE {}
    <2>1. call[r].kind = "entity" /\ Reads(r, "finding", to) /\ Gets(r, some) /\ UNCHANGED walk
      BY <1>6 DEF FindEntity
    <2>2. to \in {"observations", "absent"}
      OBVIOUS
    <2> HIDE DEF to, some
    <2> QED
      BY <2>1, <2>2, DetailStep
  <1>7. CASE ReadObservations(r)
    <2>1. PICK some \in Limited(ObservationsOf(graph, call[r].id), MaxRelated) : Gets(r, some)
      BY <1>7 DEF ReadObservations
    <2>2. Reads(r, "observations", "relations") /\ UNCHANGED walk
      BY <1>7 DEF ReadObservations
    <2>3. call[r].kind = "entity"
      BY <1>1, <2>2 DEF Purpose, Reads
    <2> QED
      BY <2>1, <2>2, <2>3, DetailStep
  <1>8. CASE ReadRelations(r)
    <2>1. /\ Reads(r, "relations", "done") /\ UNCHANGED walk
          /\ Gets(r, EntityRelations(graph, call[r].id))
      BY <1>8 DEF ReadRelations
    <2>2. call[r].kind = "entity"
      BY <1>1, <2>1 DEF Purpose, Reads
    <2> QED
      BY <2>1, <2>2, DetailStep
  <1>9. CASE AskOnce(r)
    <2>1. (\E to \in {"done", "failed"} : Reads(r, "asking", to)) /\ UNCHANGED walk /\ \E some : Gets(r, some)
      BY <1>9 DEF AskOnce
    <2>2. PICK some : Gets(r, some)
      BY <2>1
    <2>4. PICK to \in {"done", "failed"} : Reads(r, "asking", to)
      BY <2>1
    <2>3. call[r].kind \in {"related", "entities", "projects"}
      BY <1>1, <2>4 DEF Purpose, Reads
    <2> QED
      BY <2>1, <2>2, <2>3, <2>4, DetailStep
  <1> QED
    BY <1>2, <1>3, <1>4, <1>5, <1>6, <1>7, <1>8, <1>9

-----------------------------------------------------------------------------
(* Lists.                                                                  *)

\* Counting the rows of a list before the next page.
LEMMA CountKnowsTotal ==
    ASSUME QueriesInv, NEW r \in Readers, Count(r)
    PROVE  QueriesInv'
  <1>1. Knows(r) /\ GraphSorted /\ Functional
    BY DEF QueriesInv
  <1>2. /\ Reads(r, "counting", "paging") /\ UNCHANGED walk
        /\ answer' = [answer EXCEPT ![r].total = Cardinality(Counted(graph, call[r]))]
    BY DEF Count
  <1>3. "paging" \in Stages \cup Ends
    BY DEF Stages
  <1> DEFINE total == Cardinality(Counted(graph, call[r]))
  <1>4. answer' = [answer EXCEPT ![r] = [answer[r] EXCEPT !.total = total]]
    BY <1>1, <1>2 DEF Functional
  <1>5. total \in Nat
    BY <1>1, CountedIs DEF GraphSorted, Sortable
  <1>6. /\ at[r] = "counting" /\ at'[r] = "paging"
        /\ call'[r] = call[r] /\ since'[r] = since[r] /\ ever'[r] = ever[r]
        /\ graph' = graph
        /\ Knows(r)' => QueriesInv'
    BY <1>2, <1>3, <1>4, ReadStep
  <1> HIDE DEF total
  <1>7. answer'[r] = [answer[r] EXCEPT !.total = total]
    BY <1>1, <1>4 DEF Functional
  <1>8. /\ answer'[r] = [rows |-> answer[r].rows, offset |-> answer[r].offset,
                         total |-> total, truncated |-> answer[r].truncated]
        /\ answer'[r].rows = answer[r].rows /\ answer'[r].offset = answer[r].offset
        /\ answer'[r].total = total /\ answer'[r].truncated = answer[r].truncated
    BY <1>1, <1>7 DEF Knows, AnswerTyped
  <1>9. call[r].kind = "list" /\ call[r].entity = Blank
    BY <1>1, <1>6 DEF Knows, Purpose
  <1>10. Purpose(r)'
    BY <1>1, <1>6, <1>9 DEF Knows, Purpose
  <1>11. Between(r)'
    BY <1>1, <1>6 DEF Knows, Between, Stages
  <1>12. AnswerTyped(r)'
    BY <1>1, <1>5, <1>6, <1>8, <1>9 DEF Knows, AnswerTyped
  <1>13. WalkKnows(r)' /\ HopKnows(r)'
    BY <1>1, <1>2, <1>6 DEF Knows, WalkKnows, HopKnows
  <1>14. ObservationKnows(r)' /\ Answered(r)'
    BY <1>6, <1>9 DEF ObservationKnows, Answered, Done
  <1>15. ListKnows(r)'
    <2>1. call[r].class = "Decision" => total = Cardinality(Listed(graph, call[r]))
      BY <1>1, CountedIs DEF total, GraphSorted, Sortable
    <2> QED
      BY <1>1, <1>5, <1>6, <1>8, <2>1 DEF Knows, ListKnows, Ahead
  <1> QED
    BY <1>6, <1>10, <1>11, <1>12, <1>13, <1>14, <1>15 DEF Knows

\* Reading a page, with whatever was stored since the last one.
LEMMA TurnPageKnows ==
    ASSUME QueriesInv, NEW r \in Readers, TurnPage(r)
    PROVE  QueriesInv'
  <1> DEFINE q == call[r]
             page == PageOf(graph, q, answer[r].offset)
             offset == answer[r].offset
             size == PageSize(q)
             to == IF Cardinality(page) < size THEN "done" ELSE "counting"
             S == Listed(graph, q)
  <1>1. Knows(r) /\ GraphSorted /\ Functional
    BY DEF QueriesInv
  <1>2. /\ Reads(r, "paging", to) /\ UNCHANGED walk
        /\ answer' = [answer EXCEPT ![r].rows = @ \cup page, ![r].offset = @ + Cardinality(page)]
    BY DEF TurnPage
  <1>3. to \in Stages \cup Ends
    BY DEF Stages, Ends
  <1> DEFINE turned == [answer[r] EXCEPT !.rows = @ \cup page, !.offset = @ + Cardinality(page)]
  <1>4. answer' = [answer EXCEPT ![r] = turned]
    BY <1>1, <1>2 DEF Functional
  <1>5. /\ at[r] = "paging" /\ at'[r] = to
        /\ call'[r] = q /\ since'[r] = since[r] /\ ever'[r] = ever[r]
        /\ graph' = graph
        /\ Knows(r)' => QueriesInv'
    <2> HIDE DEF to, turned
    <2> QED
      BY <1>2, <1>3, <1>4, ReadStep
  <1>6. q \in Reading[r] /\ q.kind = "list" /\ q.entity = Blank
    BY <1>1, <1>5 DEF Knows, Purpose
  <1>7. offset \in Nat /\ size \in Nat
    BY <1>1, <1>6, PageSizeType DEF Knows, AnswerTyped
  <1>8. IsFiniteSet(S) /\ S \in SUBSET Ordered /\ Cardinality(S) \in Nat
    BY <1>1, ListedIs, FS_CardinalityType DEF GraphSorted, Sortable
  <1>9. page = {n \in S : Rank(n, S, q) \in (offset + 1)..(offset + size)}
    BY DEF PageOf
  <1> HIDE DEF page, size
  <1>10. /\ Cardinality(page) \in Nat /\ Cardinality(page) <= size
         /\ Cardinality(page) < size =>
               /\ \A n \in S : Rank(n, S, q) <= offset \/ n \in page
               /\ Cardinality(S) <= offset + Cardinality(page)
    <2> HIDE DEF S, q, offset
    <2> QED
      BY <1>7, <1>8, <1>9, PageIs
  <1>11. \A n \in S : Rank(n, S, q) \in Nat
    BY <1>8, RankGrows
  <1>12. /\ since[r] \subseteq graph /\ graph \subseteq ever[r]
    BY <1>1, <1>5 DEF Knows, Between, Stages
  <1>13. Listed(since[r], q) \subseteq S /\ S \subseteq Listed(ever[r], q)
    BY <1>12, ListedGrows
  <1>14. /\ answer[r].rows \subseteq Listed(ever[r], q)
         /\ \A n \in Listed(since[r], q) : n \in answer[r].rows \/ Rank(n, S, q) > offset
         /\ q.class = "Decision" => answer[r].total <= Cardinality(S)
    BY <1>1, <1>5 DEF Knows, ListKnows, Ahead
  <1>15. answer'[r] = turned
    <2> HIDE DEF turned
    <2> QED
      BY <1>1, <1>4 DEF Functional
  <1>16. /\ answer'[r] = [rows |-> answer[r].rows \cup page, offset |-> offset + Cardinality(page),
                          total |-> answer[r].total, truncated |-> answer[r].truncated]
         /\ answer'[r].rows = answer[r].rows \cup page
         /\ answer'[r].offset = offset + Cardinality(page)
         /\ answer'[r].total = answer[r].total
         /\ answer'[r].truncated = answer[r].truncated
    BY <1>1, <1>15 DEF Knows, AnswerTyped
  <1>17. Purpose(r)'
    BY <1>1, <1>5, <1>6 DEF Knows, Purpose
  <1>18. Between(r)'
    BY <1>1, <1>5, <1>12 DEF Knows, Between
  <1>19. AnswerTyped(r)'
    <2>1. /\ IsFiniteSet(answer[r].rows) /\ Cardinality(answer[r].rows) <= offset
          /\ answer[r].truncated \in BOOLEAN /\ answer[r].total \in Nat
      BY <1>1, <1>5, <1>6 DEF Knows, AnswerTyped
    <2>2. IsFiniteSet(page)
      BY <1>8, <1>9, FS_Subset
    <2>3. /\ IsFiniteSet(answer[r].rows \cup page)
          /\ Cardinality(answer[r].rows \cup page) =
                Cardinality(answer[r].rows) + Cardinality(page) - Cardinality(answer[r].rows \cap page)
      BY <2>1, <2>2, FS_Union
    <2>4. IsFiniteSet(answer[r].rows \cap page)
      BY <2>2, FS_Intersection
    <2>5. Cardinality(answer[r].rows \cap page) \in Nat /\ Cardinality(answer[r].rows) \in Nat
      BY <2>1, <2>4, FS_CardinalityType
    <2>6. Cardinality(answer[r].rows \cup page) <= offset + Cardinality(page)
      BY <1>7, <1>10, <2>1, <2>3, <2>5
    <2> QED
      BY <1>5, <1>6, <1>7, <1>10, <1>16, <2>1, <2>3, <2>6 DEF AnswerTyped
  <1>20. WalkKnows(r)' /\ HopKnows(r)' /\ ObservationKnows(r)'
    BY <1>1, <1>2, <1>5, <1>6 DEF Knows, WalkKnows, HopKnows, ObservationKnows
  <1>21. page \subseteq S
    BY <1>9
  <1>22. ListKnows(r)'
    <2>1. SUFFICES ASSUME at'[r] = "counting"
                   PROVE  /\ answer'[r].rows \subseteq Listed(ever[r], q)
                          /\ \A n \in Listed(since[r], q) :
                                n \in answer'[r].rows \/ Rank(n, S, q) > answer'[r].offset
      BY <1>5 DEF ListKnows, Ahead
    <2>2. ASSUME NEW n \in Listed(since[r], q), n \notin answer[r].rows, n \notin page
          PROVE  Rank(n, S, q) > offset + Cardinality(page)
      <3>1. n \in S /\ Rank(n, S, q) > offset /\ Rank(n, S, q) \in Nat
        BY <1>11, <1>13, <1>14, <2>2
      <3>2. ~(Rank(n, S, q) <= offset + size)
        BY <1>7, <1>9, <2>2, <3>1
      <3> QED
        BY <1>7, <1>10, <3>1, <3>2
    <2> QED
      BY <1>13, <1>14, <1>16, <1>21, <2>2
  <1>23. Answered(r)'
    <2>1. SUFFICES ASSUME at'[r] = "done"
                   PROVE  /\ Listed(since[r], q) \subseteq answer'[r].rows
                          /\ answer'[r].rows \subseteq Listed(ever[r], q)
                          /\ q.class = "Decision" => answer'[r].total <= answer'[r].offset
      BY <1>5, <1>6 DEF Answered, Done
    <2>2. Cardinality(page) < size
      BY <1>5, <2>1
    <2>3. \A n \in Listed(since[r], q) : n \in answer[r].rows \/ n \in page
      BY <1>7, <1>10, <1>11, <1>13, <1>14, <2>2
    <2>4. answer[r].total \in Nat
      BY <1>1 DEF Knows, AnswerTyped
    <2> QED
      BY <1>7, <1>8, <1>10, <1>13, <1>14, <1>16, <1>21, <2>2, <2>3, <2>4
  <1> QED
    BY <1>5, <1>17, <1>18, <1>19, <1>20, <1>22, <1>23 DEF Knows

-----------------------------------------------------------------------------
(* Calls that begin and queries that fail.                                 *)

\* A reader that goes on without an answer knows as much as it must there.
LEMMA Moves ==
    ASSUME QueriesInv, NEW r \in Readers, NEW to \in Stages \cup Ends,
           at' = [at EXCEPT ![r] = to],
           faults' \in 0..MaxFaults, UNCHANGED <<graph, pc, prepared, tracked, worker>>,
           UNCHANGED answer,
           \E w : walk' = [walk EXCEPT ![r] = w],
           UNCHANGED <<call, since, ever>> \/
              \E c, s, e : /\ call' = [call EXCEPT ![r] = c]
                           /\ since' = [since EXCEPT ![r] = s]
                           /\ ever' = [ever EXCEPT ![r] = e]
    PROVE  at'[r] = to /\ (Knows(r)' => QueriesInv')
  <1>1. Functional
    BY DEF QueriesInv
  <1>2. at'[r] = to /\ \A s \in Readers : s # r => at'[s] = at[s]
    BY <1>1 DEF Functional
  <1>3. \A s \in Readers : s # r => walk'[s] = walk[s] /\ answer'[s] = answer[s]
    BY <1>1 DEF Functional
  <1>4. \A s \in Readers : s # r => call'[s] = call[s] /\ since'[s] = since[s] /\ ever'[s] = ever[s]
    BY <1>1 DEF Functional
  <1>5. Functional'
    <2>1. at' \in [Readers -> Stages \cup Ends \cup {"idle"}]
      BY <1>1 DEF Functional
    <2>2. walk' = [s \in Readers |-> walk'[s]] /\ answer' = [s \in Readers |-> answer'[s]]
      BY <1>1 DEF Functional
    <2>3. /\ call' = [s \in Readers |-> call'[s]]
          /\ since' = [s \in Readers |-> since'[s]] /\ ever' = [s \in Readers |-> ever'[s]]
      BY <1>1 DEF Functional
    <2> QED
      BY <2>1, <2>2, <2>3 DEF Functional
  <1>6. IInv' /\ GraphSorted'
    BY WritersRest DEF QueriesInv, GraphSorted
  <1>7. \A s \in Readers : s # r => Knows(s)'
    BY <1>2, <1>3, <1>4, OthersKnow DEF QueriesInv
  <1> QED
    BY <1>2, <1>5, <1>6, <1>7 DEF QueriesInv

\* A query fails and its call ends.
LEMMA FailureKnows ==
    ASSUME QueriesInv, NEW r \in Readers, QueryFails(r)
    PROVE  QueriesInv'
  <1>1. Knows(r) /\ Functional /\ faults \in 0..MaxFaults
    BY DEF QueriesInv, IInv, CallsTyped
  <1>2. /\ at[r] \in Stages /\ at' = [at EXCEPT ![r] = "failed"]
        /\ walk' = [walk EXCEPT ![r] = NoWalk]
        /\ UNCHANGED <<call, answer, since, ever, graph, pc, prepared, tracked, worker>>
    BY DEF QueryFails
  <1>3. faults' \in 0..MaxFaults
    BY <1>1, FaultsBounded DEF QueryFails, Fault
  <1>4. at'[r] = "failed" /\ (Knows(r)' => QueriesInv')
    <2>1. "failed" \in Stages \cup Ends
      BY DEF Ends
    <2> QED
      BY <1>2, <1>3, <2>1, Moves
  <1>5. walk'[r] = NoWalk
    BY <1>1, <1>2 DEF Functional
  <1>6. at[r] # "idle"
    BY <1>2 DEF Stages
  <1>7. Purpose(r)' /\ Between(r)' /\ AnswerTyped(r)'
    BY <1>1, <1>2, <1>4, <1>6 DEF Knows, Purpose, Between, AnswerTyped
  <1>8. WalkKnows(r)' /\ HopKnows(r)'
    BY <1>4, <1>5 DEF WalkKnows, HopKnows
  <1>9. ListKnows(r)' /\ ObservationKnows(r)' /\ Answered(r)'
    BY <1>4 DEF ListKnows, ObservationKnows, Answered, Done
  <1> QED
    BY <1>4, <1>7, <1>8, <1>9 DEF Knows

\* What a traversal knows before its first query: only its start.
LEMMA WalkBegins ==
    ASSUME NEW r \in Readers, NEW q \in Reading[r], q.kind = "walk", ~(Hops(q) <= 1), NEW g
    PROVE  GoesOn(q, [level |-> {q.start}, next |-> {}, visited |-> {q.start}, left |-> Hops(q)],
                  {}, g, g)
  <1> DEFINE w == [level |-> {q.start}, next |-> {}, visited |-> {q.start}, left |-> Hops(q)]
  <1>1. Hops(q) \in Nat /\ Hops(q) - w.left = 0 /\ w.left \in 1..Hops(q)
    BY HopsType
  <1>2. Ball(g, q, 0) \subseteq {q.start}
    BY BallHas DEF Paths
  <1>3. q.start \in Ball(g, q, 0)
    BY BallStart
  <1>4. Expanded(w) = {}
    BY DEF Expanded
  <1> QED
    BY <1>1, <1>2, <1>3, <1>4 DEF GoesOn

\* A client makes a call.
LEMMA AskKnows ==
    ASSUME QueriesInv, NEW r \in Readers, NEW q \in Reading[r], Ask(r, q)
    PROVE  QueriesInv'
  <1> DEFINE to == FirstStage(q)
             w == IF to = "walking"
                  THEN [level |-> {q.start}, next |-> {}, visited |-> {q.start}, left |-> Hops(q)]
                  ELSE NoWalk
  <1>1. Knows(r) /\ Functional /\ GraphSorted /\ faults \in 0..MaxFaults
    BY DEF QueriesInv, IInv, CallsTyped
  <1>2. /\ at[r] = "idle" /\ at' = [at EXCEPT ![r] = to]
        /\ walk' = [walk EXCEPT ![r] = w]
        /\ call' = [call EXCEPT ![r] = q]
        /\ since' = [since EXCEPT ![r] = graph] /\ ever' = [ever EXCEPT ![r] = graph]
        /\ UNCHANGED <<answer, graph, pc, prepared, tracked, worker, faults>>
    BY DEF Ask
  <1>3. /\ to \in {"refused", "direct", "walking", "counting", "done", "finding", "asking"}
        /\ to \in {"direct", "walking"} => q.kind = "walk"
        /\ to = "direct" => Hops(q) <= 1
        /\ to = "walking" => ~(Hops(q) <= 1)
        /\ to = "counting" => q.kind = "list" /\ q.entity = Blank
        /\ to = "done" => q.kind = "list" /\ q.entity # Blank
        /\ to = "finding" => q.kind \in {"decision", "observation", "entity"}
    BY DEF FirstStage
  <1>4. to = "asking" => q.kind \in {"related", "entities", "projects"}
    BY ReadsAreTyped DEF FirstStage
  <1>5. q # NoCall
    BY ReadsAreTyped DEF NoCall
  <1>6. /\ (to = "walking") => w = [level |-> {q.start}, next |-> {}, visited |-> {q.start},
                                    left |-> Hops(q)]
        /\ (to # "walking") => w = NoWalk
    OBVIOUS
  <1> HIDE DEF to, w
  <1>7. at'[r] = to /\ (Knows(r)' => QueriesInv')
    <2>1. to \in Stages \cup Ends
      BY <1>3 DEF Stages, Ends
    <2> QED
      BY <1>1, <1>2, <2>1, Moves
  <1>8. walk'[r] = w /\ call'[r] = q /\ since'[r] = graph /\ ever'[r] = graph
    BY <1>1, <1>2 DEF Functional
  <1>9. answer'[r] = NoRows
    BY <1>1, <1>2 DEF Knows, AnswerTyped
  <1>10. Purpose(r)'
    BY <1>3, <1>4, <1>5, <1>7, <1>8 DEF Purpose
  <1>11. Between(r)'
    BY <1>1, <1>2, <1>8 DEF Between, GraphSorted, Sortable
  <1>12. AnswerTyped(r)'
    <2>1. IsFiniteSet({}) /\ Cardinality({}) = 0 /\ MaxTriples \in Nat
      BY FS_EmptySet, LimitsPositive
    <2> QED
      BY <1>9, <2>1 DEF AnswerTyped, NoRows
  <1>13. WalkKnows(r)'
    <2>1. CASE to = "walking"
      BY <1>3, <1>6, <1>7, <1>8, <1>9, <2>1, WalkBegins DEF WalkKnows, NoRows
    <2>2. CASE to # "walking"
      BY <1>6, <1>7, <1>8, <2>2 DEF WalkKnows
    <2> QED
      BY <2>1, <2>2
  <1>14. HopKnows(r)'
    <2>1. to = "walking" => Hops(q) \in Nat /\ ~(Hops(q) <= 1)
      BY <1>3, HopsType
    <2> QED
      BY <1>3, <1>7, <1>8, <2>1 DEF HopKnows
  <1>15. ListKnows(r)'
    <2>1. \A n \in Listed(graph, q) : Rank(n, Listed(graph, q), q) > 0
      <3> DEFINE S == Listed(graph, q)
      <3>1. IsFiniteSet(S) /\ S \in SUBSET Ordered
        BY <1>1, ListedIs DEF GraphSorted, Sortable
      <3> HIDE DEF S
      <3>2. [n \in S |-> Rank(n, S, q)] \in [S -> 1..Cardinality(S)]
        BY <3>1, RankIs DEF Injection
      <3>3. \A n \in S : Rank(n, S, q) \in 1..Cardinality(S)
        BY <3>2
      <3>4. \A n \in S : Rank(n, S, q) > 0
        BY <3>1, <3>3, FS_CardinalityType
      <3> QED
        BY <3>4 DEF S
    <2> QED
      BY <1>2, <1>3, <1>7, <1>8, <1>9, <2>1 DEF ListKnows, Ahead, NoRows
  <1>16. ObservationKnows(r)' /\ Answered(r)'
    BY <1>3, <1>7, <1>8 DEF ObservationKnows, Answered, Done
  <1> QED
    BY <1>7, <1>10, <1>11, <1>12, <1>13, <1>14, <1>15, <1>16 DEF Knows

-----------------------------------------------------------------------------
(* Traversals.                                                             *)

\* The reference of a traversal, in terms of balls.
LEMMA NeighbourhoodIs ==
    ASSUME NEW r \in Readers, NEW q \in Reading[r], q.kind = "walk", NEW g
    PROVE  /\ Hops(q) <= 1 => Neighbourhood(g, q) = Around(g, q.start, q.edges)
           /\ Hops(q) >= 1 =>
                 Neighbourhood(g, q) = UNION {Around(g, n, q.edges) : n \in Ball(g, q, Hops(q) - 1)}
  <1>1. Hops(q) \in Nat
    BY HopsType
  <1>2. Max({0, Hops(q) - 1}) = IF Hops(q) >= 1 THEN Hops(q) - 1 ELSE 0
    <2>1. CASE Hops(q) >= 1
      <3>1. {0, Hops(q) - 1} \subseteq Int
        BY <1>1
      <3> QED
        BY <1>1, <2>1 DEF Max
    <2>2. CASE ~(Hops(q) >= 1)
      BY <1>1, <2>2 DEF Max
    <2> QED
      BY <2>1, <2>2
  <1>3. Ball(g, q, 0) = {q.start}
    <2>1. q.start \in Ball(g, q, 0) /\ Ball(g, q, 0) \subseteq {q.start}
      BY BallStart, BallHas DEF Paths
    <2> QED
      BY <2>1
  <1>4. ASSUME Hops(q) <= 1
        PROVE  Neighbourhood(g, q) = Around(g, q.start, q.edges)
    <2>1. Max({0, Hops(q) - 1}) = 0
      BY <1>1, <1>2, <1>4
    <2>2. Neighbourhood(g, q) = UNION {Around(g, n, q.edges) : n \in {q.start}}
      BY <1>3, <2>1 DEF Neighbourhood
    <2> QED
      BY <2>2
  <1> QED
    BY <1>2, <1>4 DEF Neighbourhood

\* More triples reach no fewer rows.
LEMMA NeighbourhoodGrows ==
    ASSUME NEW r \in Readers, NEW q \in Reading[r], q.kind = "walk", NEW g, NEW h, g \subseteq h
    PROVE  Neighbourhood(g, q) \subseteq Neighbourhood(h, q)
  <1>1. Hops(q) \in Nat
    BY HopsType
  <1>2. CASE Hops(q) <= 1
    BY <1>2, NeighbourhoodIs, MoreAround
  <1>3. CASE Hops(q) >= 1
    <2>1. Ball(g, q, Hops(q) - 1) \subseteq Ball(h, q, Hops(q) - 1)
      BY <1>1, <1>3, BallGrows
    <2>2. /\ Neighbourhood(g, q) = UNION {Around(g, n, q.edges) : n \in Ball(g, q, Hops(q) - 1)}
          /\ Neighbourhood(h, q) = UNION {Around(h, n, q.edges) : n \in Ball(h, q, Hops(q) - 1)}
      BY <1>3, NeighbourhoodIs
    <2>3. \A n : Around(g, n, q.edges) \subseteq Around(h, n, q.edges)
      BY MoreAround
    <2> QED
      BY <2>1, <2>2, <2>3
  <1> QED
    BY <1>1, <1>2, <1>3

\* What a walk knows it still knows when less was there all the time and more
\* at some time.
LEMMA StillGoesOn ==
    ASSUME NEW r \in Readers, NEW q \in Reading[r], q.kind = "walk", NEW w, NEW some,
           NEW g, NEW h, GoesOn(q, w, some, g, h),
           NEW less, less \subseteq g, NEW more, h \subseteq more
    PROVE  GoesOn(q, w, some, less, more)
  <1> DEFINE hops == Hops(q) - w.left
  <1>1. hops \in Nat /\ hops + 1 \in Nat
    BY HopsType DEF GoesOn
  <1>2. /\ Ball(less, q, hops) \subseteq Ball(g, q, hops)
        /\ Ball(h, q, hops) \subseteq Ball(more, q, hops)
        /\ Ball(h, q, hops + 1) \subseteq Ball(more, q, hops + 1)
    <2> HIDE DEF hops
    <2> QED
      BY <1>1, BallGrows
  <1>3. \A n : /\ Around(less, n, q.edges) \subseteq Around(g, n, q.edges)
               /\ Near(less, n, q.edges) \subseteq Near(g, n, q.edges)
    BY MoreAround
  <1>4. Neighbourhood(h, q) \subseteq Neighbourhood(more, q)
    BY NeighbourhoodGrows
  <1> QED
    BY <1>2, <1>3, <1>4 DEF GoesOn

\* What is known in the middle of a traversal.
LEMMA WalkIs ==
    ASSUME QueriesInv, NEW r \in Readers, at[r] = "walking"
    PROVE  /\ call[r] \in Reading[r] /\ call[r].kind = "walk" /\ ~answer[r].truncated
           /\ GoesOn(call[r], walk[r], answer[r].rows, since[r], ever[r])
           /\ since[r] \subseteq graph /\ graph \subseteq ever[r]
           /\ IsFiniteSet(answer[r].rows) /\ Cardinality(answer[r].rows) \in Nat
           /\ Cardinality(answer[r].rows) <= MaxTriples
           /\ walk = [s \in Readers |-> walk[s]] /\ MaxTriples \in Nat
           /\ \A n : IsFiniteSet(Around(graph, n, call[r].edges))
           /\ Hops(call[r]) \in Nat /\ Hops(call[r]) > 1
  <1>1. Knows(r) /\ Functional /\ GraphSorted
    BY DEF QueriesInv
  <1>2. call[r] \in Reading[r] /\ call[r].kind = "walk"
    BY <1>1 DEF Knows, Purpose
  <1>3. /\ ~answer[r].truncated
        /\ GoesOn(call[r], walk[r], answer[r].rows, since[r], ever[r])
    BY <1>1 DEF Knows, WalkKnows
  <1>4. since[r] \subseteq graph /\ graph \subseteq ever[r]
    BY <1>1 DEF Knows, Between, Stages
  <1>5. IsFiniteSet(answer[r].rows) /\ Cardinality(answer[r].rows) <= MaxTriples
    BY <1>1, <1>2 DEF Knows, AnswerTyped
  <1>6. Cardinality(answer[r].rows) \in Nat /\ MaxTriples \in Nat
    BY <1>5, FS_CardinalityType, LimitsPositive
  <1>7. \A n : IsFiniteSet(Around(graph, n, call[r].edges))
    BY <1>1, FiniteAround DEF GraphSorted, Sortable
  <1>8. Hops(call[r]) \in Nat /\ Hops(call[r]) > 1
    BY <1>1, <1>2, HopsType DEF Knows, HopKnows
  <1> QED
    BY <1>1, <1>2, <1>3, <1>4, <1>5, <1>6, <1>7, <1>8 DEF Functional

\* A node later, a walk is complete or goes on.
LEMMA NodeLater ==
    ASSUME QueriesInv, NEW r \in Readers, at[r] = "walking", NEW node \in walk[r].level
    PROVE  LET new   == Around(graph, node, call[r].edges) \ answer[r].rows
               found == Near(graph, node, call[r].edges) \ walk[r].visited
               after == Walked(walk[r], node, found)
               rows  == answer[r].rows \cup new
               over  == after.left = 0 \/ after.level = {}
           IN  /\ rows \subseteq Neighbourhood(ever[r], call[r])
               /\ over => Neighbourhood(since[r], call[r]) \subseteq rows
               /\ ~over => GoesOn(call[r], after, rows, since[r], ever[r])
  <1> DEFINE q == call[r]
             w == walk[r]
             some == answer[r].rows
             g == since[r]
             now == graph
             h == ever[r]
             new == Around(now, node, q.edges) \ some
             found == Near(now, node, q.edges) \ w.visited
             after == Walked(w, node, found)
             hops == Hops(q) - w.left
             rows == some \cup new
  <1>0. /\ q \in Reading[r] /\ q.kind = "walk" /\ GoesOn(q, w, some, g, h)
        /\ g \subseteq now /\ now \subseteq h /\ node \in w.level
        /\ new = Around(now, node, q.edges) \ some
        /\ found = Near(now, node, q.edges) \ w.visited
        /\ after = Walked(w, node, found)
    BY WalkIs
  <1> SUFFICES /\ rows \subseteq Neighbourhood(h, q)
               /\ after.left = 0 \/ after.level = {} => Neighbourhood(g, q) \subseteq rows
               /\ ~(after.left = 0 \/ after.level = {}) => GoesOn(q, after, rows, g, h)
    OBVIOUS
  <1> HIDE DEF q, w, some, g, now, h, new, found, after
  <1> USE <1>0
  <1>1. /\ Hops(q) \in Nat /\ Hops(q) >= 1 /\ w.left \in 1..Hops(q)
        /\ hops \in Nat /\ hops <= Hops(q) - 1
    BY HopsType DEF GoesOn
  <1>2. /\ w = [level |-> w.level, next |-> w.next, visited |-> w.visited, left |-> w.left]
        /\ w.level \cup w.next \subseteq w.visited
        /\ q.start \in w.visited /\ w.visited \subseteq Memory \cup {q.start}
        /\ Ball(g, q, hops) \subseteq w.visited \ w.next
        /\ \A n \in w.visited \ (w.level \cup w.next) :
              Around(g, n, q.edges) \subseteq some /\ Near(g, n, q.edges) \subseteq w.visited
        /\ w.level \subseteq Ball(h, q, hops) /\ w.next \subseteq Ball(h, q, hops + 1)
        /\ some \subseteq Neighbourhood(h, q)
    BY DEF GoesOn, Expanded
  <1> HIDE DEF hops
  <1>3. rows = some \cup Around(now, node, q.edges)
    OBVIOUS
  <1>4. /\ Around(g, node, q.edges) \subseteq rows
        /\ Near(g, node, q.edges) \subseteq w.visited \cup found
    <2>1. /\ Around(g, node, q.edges) \subseteq Around(now, node, q.edges)
          /\ Near(g, node, q.edges) \subseteq Near(now, node, q.edges)
      BY MoreAround
    <2> QED
      BY <1>3, <2>1
  <1>5. rows \subseteq Neighbourhood(h, q)
    <2>1. node \in Ball(h, q, Hops(q) - 1)
      <3>1. Ball(h, q, hops) \subseteq Ball(h, q, Hops(q) - 1)
        BY <1>1, BallGrows
      <3> QED
        BY <1>2, <3>1
    <2>2. Around(now, node, q.edges) \subseteq Around(h, node, q.edges)
      BY MoreAround
    <2>3. Neighbourhood(h, q) = UNION {Around(h, n, q.edges) : n \in Ball(h, q, Hops(q) - 1)}
      BY <1>1, NeighbourhoodIs
    <2> QED
      BY <1>2, <1>3, <2>1, <2>2, <2>3
  <1>6. found \subseteq Ball(h, q, hops + 1) /\ found \subseteq Memory /\ found \cap w.visited = {}
    <2>1. Near(now, node, q.edges) \subseteq Near(h, node, q.edges)
      BY MoreAround
    <2>2. node \in Ball(h, q, hops)
      BY <1>2
    <2>3. \A n \in Near(h, node, q.edges) : n \in Ball(h, q, hops + 1)
      BY <1>1, <2>2, BallExtends
    <2> QED
      BY <2>1, <2>3, NearIsOurs
  <1>7. CASE w.level # {node}
    <2>1. /\ after.level = w.level \ {node} /\ after.next = w.next \cup found
          /\ after.visited = w.visited \cup found /\ after.left = w.left
          /\ after = [level |-> after.level, next |-> after.next,
                      visited |-> after.visited, left |-> after.left]
      BY <1>2, <1>7 DEF Walked
    <2>2. after.level # {} /\ after.left # 0
      <3>1. \E n \in w.level : n # node
        BY <1>7
      <3>2. after.level # {}
        BY <2>1, <3>1
      <3>3. w.left # 0
        BY <1>1
      <3> QED
        BY <2>1, <3>2, <3>3
    <2>3. Expanded(after) \subseteq (w.visited \ (w.level \cup w.next)) \cup {node}
      BY <1>6, <2>1 DEF Expanded
    <2>4. /\ after.level \cup after.next \subseteq after.visited
          /\ q.start \in after.visited /\ after.visited \subseteq Memory \cup {q.start}
      BY <1>2, <1>6, <2>1
    <2>5. Ball(g, q, hops) \subseteq after.visited \ after.next
      BY <1>2, <1>6, <2>1
    <2>6. /\ after.level \subseteq Ball(h, q, hops) /\ after.next \subseteq Ball(h, q, hops + 1)
      BY <1>2, <1>6, <2>1
    <2>7. \A n \in Expanded(after) : /\ Around(g, n, q.edges) \subseteq rows
                                     /\ Near(g, n, q.edges) \subseteq after.visited
      BY <1>2, <1>4, <2>1, <2>3
    <2>8. GoesOn(q, after, rows, g, h)
      BY <1>1, <1>5, <2>1, <2>2, <2>4, <2>5, <2>6, <2>7 DEF GoesOn, hops
    <2> QED
      BY <1>5, <2>2, <2>8
  <1>8. CASE w.level = {node}
    <2>1. /\ after.level = w.next \cup found /\ after.next = {}
          /\ after.visited = w.visited \cup found /\ after.left = w.left - 1
          /\ after = [level |-> after.level, next |-> after.next,
                      visited |-> after.visited, left |-> after.left]
      BY <1>2, <1>8 DEF Walked
    <2>2. \A n \in w.visited \ w.next : /\ Around(g, n, q.edges) \subseteq rows
                                        /\ Near(g, n, q.edges) \subseteq after.visited
      BY <1>2, <1>4, <1>8, <2>1
    <2>3. ASSUME after.left = 0
          PROVE  Neighbourhood(g, q) \subseteq rows
      <3>1. hops = Hops(q) - 1
        BY <1>1, <2>1, <2>3 DEF hops
      <3>2. Neighbourhood(g, q) = UNION {Around(g, n, q.edges) : n \in Ball(g, q, hops)}
        BY <1>1, <3>1, NeighbourhoodIs
      <3> QED
        BY <1>2, <2>2, <3>2
    <2>4. ASSUME after.level = {}
          PROVE  Neighbourhood(g, q) \subseteq rows
      <3>1. w.next = {} /\ found = {}
        BY <2>1, <2>4
      <3>2. \A n \in w.visited : Near(g, n, q.edges) \subseteq w.visited
        BY <2>1, <2>2, <3>1
      <3>3. Hops(q) - 1 \in Nat
        BY <1>1
      <3>4. Ball(g, q, Hops(q) - 1) \subseteq w.visited
        BY <1>2, <3>2, <3>3, BallClosed
      <3>5. Neighbourhood(g, q) = UNION {Around(g, n, q.edges) : n \in Ball(g, q, Hops(q) - 1)}
        BY <1>1, NeighbourhoodIs
      <3> QED
        BY <2>2, <3>1, <3>4, <3>5
    <2>5. ASSUME ~(after.left = 0 \/ after.level = {})
          PROVE  GoesOn(q, after, rows, g, h)
      <3>1. /\ after.left \in 1..Hops(q) /\ after.level # {}
            /\ Hops(q) - after.left = hops + 1
        <4>1. after.left = w.left - 1 /\ after.left # 0
          BY <2>1, <2>5
        <4>2. \A all, left \in Nat : left \in 1..all /\ left - 1 # 0 =>
                  left - 1 \in 1..all /\ all - (left - 1) = (all - left) + 1
          OBVIOUS
        <4>3. w.left \in Nat
          BY <1>1
        <4> HIDE DEF hops
        <4>4. Hops(q) - after.left = (Hops(q) - w.left) + 1 /\ after.left \in 1..Hops(q)
          BY <1>1, <4>1, <4>2, <4>3
        <4> QED
          BY <2>5, <4>4 DEF hops
      <3>2. /\ after.level \cup after.next \subseteq after.visited
            /\ q.start \in after.visited /\ after.visited \subseteq Memory \cup {q.start}
        BY <1>2, <1>6, <2>1
      <3>3. Ball(g, q, hops + 1) \subseteq after.visited \ after.next
        <4>1. ASSUME NEW n \in Ball(g, q, hops + 1)
              PROVE  n \in after.visited
          <5>1. n = q.start \/ \E m \in Ball(g, q, hops) : n \in Near(g, m, q.edges)
            BY <1>1, BallStep
          <5> QED
            BY <1>2, <2>2, <3>2, <5>1
        <4> QED
          BY <2>1, <4>1
      <3>4. \A n \in Expanded(after) : /\ Around(g, n, q.edges) \subseteq rows
                                       /\ Near(g, n, q.edges) \subseteq after.visited
        <4>1. Expanded(after) \subseteq w.visited \ w.next
          BY <2>1 DEF Expanded
        <4> QED
          BY <2>2, <4>1
      <3>5. /\ after.level \subseteq Ball(h, q, hops + 1)
            /\ after.next \subseteq Ball(h, q, (hops + 1) + 1)
        BY <1>2, <1>6, <2>1
      <3> QED
        BY <1>5, <2>1, <3>1, <3>2, <3>3, <3>4, <3>5 DEF GoesOn
    <2> QED
      BY <1>5, <2>3, <2>4, <2>5
  <1> QED
    BY <1>7, <1>8

\* A walk ends without rows that are not real, and complete if it is not cut.
WalkEnds(r) ==
    /\ IsFiniteSet(answer'[r].rows) /\ Cardinality(answer'[r].rows) <= MaxTriples
    /\ answer'[r].rows \subseteq Neighbourhood(ever[r], call[r])
    /\ ~answer'[r].truncated => Neighbourhood(since[r], call[r]) \subseteq answer'[r].rows
    /\ CutIsFull(call[r], answer'[r], ever[r])

\* A traversal ends, with an answer or without.
LEMMA EndKnows ==
    ASSUME QueriesInv, NEW r \in Readers, NEW from \in {"direct", "walking"},
           NEW to \in {"done", "warned", "failed"}, Reads(r, from, to),
           UNCHANGED walk \/ \E w : walk' = [walk EXCEPT ![r] = w], walk'[r] = NoWalk,
           UNCHANGED answer \/ \E some : Gets(r, some) \/ Cut(r, some),
           UNCHANGED answer \/ WalkEnds(r),
           to = "done" => WalkEnds(r)
    PROVE  QueriesInv'
  <1>1. Knows(r)
    BY DEF QueriesInv
  <1>2. UNCHANGED answer \/ \E a : answer' = [answer EXCEPT ![r] = a]
    BY AnswerGets, AnswerCut
  <1>3. to \in Stages \cup Ends
    BY DEF Ends
  <1>4. /\ at[r] = from /\ at'[r] = to
        /\ call'[r] = call[r] /\ since'[r] = since[r] /\ ever'[r] = ever[r]
        /\ graph' = graph
        /\ Knows(r)' => QueriesInv'
    BY <1>2, <1>3, ReadStep
  <1>5. call[r].kind = "walk" /\ at[r] # "idle" /\ at[r] \in Stages
    BY <1>1, <1>4 DEF Knows, Purpose, Stages
  <1>6. Purpose(r)' /\ Between(r)'
    BY <1>1, <1>4, <1>5 DEF Knows, Purpose, Between
  <1>7. AnswerTyped(r)'
    <2>1. CASE UNCHANGED answer
      BY <1>1, <1>4, <1>5, <2>1 DEF Knows, AnswerTyped
    <2>2. CASE WalkEnds(r) /\ \E some : Gets(r, some) \/ Cut(r, some)
      <3>1. PICK some : Gets(r, some) \/ Cut(r, some)
        BY <2>2
      <3>2. /\ answer'[r].offset = answer[r].offset /\ answer'[r].total = answer[r].total
            /\ answer'[r].truncated \in {answer[r].truncated, TRUE}
            /\ answer'[r] = [rows |-> answer'[r].rows, offset |-> answer'[r].offset,
                             total |-> answer'[r].total, truncated |-> answer'[r].truncated]
        BY <3>1, AnswerGets, AnswerCut
      <3>3. answer[r].truncated \in BOOLEAN /\ answer[r].offset \in Nat /\ answer[r].total \in Nat
        BY <1>1 DEF Knows, AnswerTyped
      <3>4. answer'[r].truncated \in BOOLEAN
        BY <3>2, <3>3
      <3>5. call'[r].kind = "walk" /\ at'[r] \in {"done", "warned", "failed"}
        BY <1>4, <1>5
      <3>6. IsFiniteSet(answer'[r].rows) /\ Cardinality(answer'[r].rows) <= MaxTriples
        BY <2>2 DEF WalkEnds
      <3> QED
        BY <3>2, <3>3, <3>4, <3>5, <3>6 DEF AnswerTyped
    <2> QED
      BY <2>1, <2>2
  <1>8. WalkKnows(r)' /\ HopKnows(r)'
    BY <1>4 DEF WalkKnows, HopKnows
  <1>9. ListKnows(r)' /\ ObservationKnows(r)'
    BY <1>4, <1>5 DEF ListKnows, ObservationKnows
  <1>10. Answered(r)'
    BY <1>4, <1>5 DEF Answered, Done, WalkEnds
  <1> QED
    BY <1>4, <1>6, <1>7, <1>8, <1>9, <1>10 DEF Knows

\* A traversal of one hop is a single query.
LEMMA DirectKnows ==
    ASSUME QueriesInv, NEW r \in Readers, Direct(r)
    PROVE  QueriesInv'
  <1> DEFINE q == call[r]
             rows == Around(graph, q.start, q.edges)
             size(some) == Results(graph, q.start, Hops(q), some)
  <1>1. Knows(r) /\ GraphSorted /\ MaxTriples \in Nat
    BY LimitsPositive DEF QueriesInv
  <1>2. /\ Reads(r, "direct", "done") /\ UNCHANGED walk
        /\ \/ size(rows) <= MaxTriples /\ Gets(r, rows)
           \/ \E some \in SUBSET rows :
                 Cardinality(some) <= MaxTriples /\ MaxTriples <= size(some) /\ Cut(r, some)
    BY DEF Direct
  <1>3. at[r] = "direct"
    BY <1>2 DEF Reads
  <1>4. q \in Reading[r] /\ q.kind = "walk" /\ Hops(q) <= 1 /\ walk[r] = NoWalk
    BY <1>1, <1>3 DEF Knows, Purpose, HopKnows, WalkKnows
  <1>5. IsFiniteSet(rows) /\ Cardinality(rows) <= size(rows) /\ size(rows) \in Nat
    BY <1>1, EachRowCounts DEF GraphSorted, Sortable
  <1>6. answer[r].rows = {} /\ answer[r].truncated = FALSE
    BY <1>1, <1>3 DEF Knows, AnswerTyped, NoRows
  <1>7. /\ rows \subseteq Neighbourhood(ever[r], q)
        /\ Neighbourhood(since[r], q) \subseteq rows
    <2>1. since[r] \subseteq graph /\ graph \subseteq ever[r]
      BY <1>1, <1>3 DEF Knows, Between, Stages
    <2>2. Neighbourhood(graph, q) = rows
      BY <1>4, NeighbourhoodIs
    <2> QED
      BY <1>4, <2>1, <2>2, NeighbourhoodGrows
  <1>10. Hops(q) \in Nat
    BY <1>4, HopsType
  <1>11. \A some : IsFiniteSet(some) =>
            /\ size(some) \in Nat /\ Results(ever[r], q.start, Hops(q), some) \in Nat
            /\ size(some) <= Results(ever[r], q.start, Hops(q), some)
    <2>1. graph \subseteq ever[r] /\ IsFiniteSet(ever[r])
      BY <1>1, <1>3 DEF Knows, Between, Stages
    <2> QED
      BY <2>1, MoreResults
  <1> HIDE DEF size, rows
  <1>8. CASE size(rows) <= MaxTriples /\ Gets(r, rows)
    <2>1. answer'[r].rows = rows /\ answer'[r].truncated = FALSE
      <3>1. answer'[r].rows = answer[r].rows \cup rows /\ answer'[r].truncated = answer[r].truncated
        BY <1>8, AnswerGets
      <3> QED
        BY <1>6, <3>1
    <2>2. Cardinality(rows) \in Nat
      BY <1>5, FS_CardinalityType
    <2>3. WalkEnds(r)
      BY <1>1, <1>5, <1>7, <1>8, <2>1, <2>2 DEF WalkEnds, CutIsFull
    <2> QED
      BY <1>2, <1>4, <1>8, <2>3, EndKnows
  <1>9. ASSUME NEW some \in SUBSET rows, Cardinality(some) <= MaxTriples,
               MaxTriples <= size(some), Cut(r, some)
        PROVE  QueriesInv'
    <2>1. answer'[r].rows = some /\ answer'[r].truncated
      <3>1. answer'[r].rows = answer[r].rows \cup some /\ answer'[r].truncated = TRUE
        BY <1>9, AnswerCut
      <3> QED
        BY <1>6, <3>1
    <2>2. IsFiniteSet(some)
      BY <1>5, FS_Subset
    <2>4. MaxTriples <= Results(ever[r], q.start, Hops(q), some)
      BY <1>1, <1>9, <1>11, <2>2
    <2>5. CutIsFull(q, answer'[r], ever[r])
      BY <1>4, <1>10, <2>1, <2>4 DEF CutIsFull
    <2>3. WalkEnds(r)
      BY <1>7, <1>9, <2>1, <2>2, <2>5 DEF WalkEnds
    <2> QED
      BY <1>2, <1>4, <1>9, <2>3, EndKnows
  <1> QED
    BY <1>2, <1>8, <1>9

\* A filter that is no SPARQL ends a traversal.
LEMMA RefusalKnows ==
    ASSUME QueriesInv, NEW r \in Readers, DirectRefused(r) \/ WalkRefused(r)
    PROVE  QueriesInv'
  <1>1. Knows(r) /\ Functional
    BY DEF QueriesInv
  <1>2. CASE DirectRefused(r)
    <2>1. Reads(r, "direct", "warned") /\ UNCHANGED <<walk, answer>>
      BY <1>2 DEF DirectRefused
    <2>2. walk'[r] = NoWalk
      BY <1>1, <2>1 DEF Knows, WalkKnows, Reads
    <2> QED
      BY <2>1, <2>2, EndKnows
  <1>3. CASE WalkRefused(r)
    <2>1. /\ Reads(r, "walking", "failed") /\ UNCHANGED answer
          /\ walk' = [walk EXCEPT ![r] = NoWalk]
      BY <1>3 DEF WalkRefused
    <2>2. walk'[r] = NoWalk
      BY <1>1, <2>1 DEF Functional
    <2> QED
      BY <2>1, <2>2, EndKnows
  <1> QED
    BY <1>2, <1>3

\* A traversal queries one node of its level, and perhaps the last of it.
LEMMA VisitKnows ==
    ASSUME QueriesInv, NEW r \in Readers, NEW node \in walk[r].level, Visit(r, node)
    PROVE  QueriesInv'
  <1> DEFINE q == call[r]
             w == walk[r]
             some == answer[r].rows
             new == Around(graph, node, q.edges) \ some
             found == Near(graph, node, q.edges) \ w.visited
             after == Walked(w, node, found)
             over == after.left = 0 \/ after.level = {}
             to == IF over THEN "done" ELSE "walking"
             next == IF over THEN NoWalk ELSE after
  <1>1. /\ Reads(r, "walking", to) /\ Gets(r, new) /\ walk' = [walk EXCEPT ![r] = next]
        /\ Cardinality(some) + Cardinality(new) <= MaxTriples
    BY DEF Visit, Fits
  <1>2. at[r] = "walking"
    BY <1>1 DEF Reads
  <1>3. /\ q \in Reading[r] /\ q.kind = "walk" /\ ~answer[r].truncated
        /\ GoesOn(q, w, some, since[r], ever[r])
        /\ since[r] \subseteq graph /\ graph \subseteq ever[r]
        /\ IsFiniteSet(some) /\ Cardinality(some) \in Nat /\ MaxTriples \in Nat
        /\ walk = [s \in Readers |-> walk[s]]
        /\ IsFiniteSet(Around(graph, node, q.edges))
    BY <1>2, WalkIs
  <1>4. /\ some \cup new \subseteq Neighbourhood(ever[r], q)
        /\ over => Neighbourhood(since[r], q) \subseteq some \cup new
        /\ ~over => GoesOn(q, after, some \cup new, since[r], ever[r])
    BY <1>2, NodeLater
  <1>5. IsFiniteSet(some \cup new) /\ Cardinality(some \cup new) <= MaxTriples
    <2>1. IsFiniteSet(new)
      BY <1>3, FS_Subset
    <2>2. some \cap new = {}
      OBVIOUS
    <2> HIDE DEF some, new
    <2>3. /\ IsFiniteSet(some \cup new)
          /\ Cardinality(some \cup new) = Cardinality(some) + Cardinality(new) - Cardinality({})
      BY <1>3, <2>1, <2>2, FS_Union
    <2>4. Cardinality(new) \in Nat /\ Cardinality({}) = 0
      BY <2>1, FS_CardinalityType, FS_EmptySet
    <2> QED
      BY <1>1, <1>3, <2>3, <2>4
  <1>6. /\ over => to = "done" /\ next = NoWalk
        /\ ~over => to = "walking" /\ next = after
    OBVIOUS
  <1> HIDE DEF new, over, to, next, after
  <1>7. walk'[r] = next
    BY <1>1, <1>3
  <1>8. /\ answer'[r].rows = some \cup new /\ answer'[r].offset = answer[r].offset
        /\ answer'[r].total = answer[r].total /\ answer'[r].truncated = answer[r].truncated
        /\ answer'[r] = [rows |-> answer'[r].rows, offset |-> answer'[r].offset,
                         total |-> answer'[r].total, truncated |-> answer'[r].truncated]
        /\ \E a : answer' = [answer EXCEPT ![r] = a]
    BY <1>1, AnswerGets
  <1>9. CASE over
    <2>1. WalkEnds(r)
      BY <1>3, <1>4, <1>5, <1>8, <1>9 DEF WalkEnds, CutIsFull
    <2> QED
      BY <1>1, <1>6, <1>7, <1>9, <2>1, EndKnows
  <1>10. CASE ~over
    <2>1. to \in Stages \cup Ends
      BY <1>6, <1>10 DEF Stages
    <2>2. /\ at'[r] = "walking"
          /\ call'[r] = q /\ since'[r] = since[r] /\ ever'[r] = ever[r]
          /\ graph' = graph
          /\ Knows(r)' => QueriesInv'
      <3>1. \E v : walk' = [walk EXCEPT ![r] = v]
        BY <1>1
      <3>2. to = "walking"
        BY <1>6, <1>10
      <3> HIDE DEF q, w, some, found
      <3>3. /\ at'[r] = to
            /\ call'[r] = call[r] /\ since'[r] = since[r] /\ ever'[r] = ever[r]
            /\ graph' = graph
            /\ Knows(r)' => QueriesInv'
        <4>1. Reads(r, "walking", to) /\ \E a : answer' = [answer EXCEPT ![r] = a]
          BY <1>1, <1>8
        <4> QED
          BY <2>1, <3>1, <4>1, ReadStep
      <3> QED
        BY <3>2, <3>3 DEF q
    <2>3. Knows(r)
      BY DEF QueriesInv
    <2>4. Purpose(r)' /\ Between(r)'
      BY <1>2, <2>2, <2>3 DEF Knows, Purpose, Between
    <2>5. AnswerTyped(r)'
      BY <1>3, <1>5, <1>8, <2>2, <2>3 DEF Knows, AnswerTyped
    <2>6. WalkKnows(r)'
      <3>1. GoesOn(q, walk'[r], answer'[r].rows, since[r], ever[r])
        BY <1>4, <1>6, <1>7, <1>8, <1>10
      <3> QED
        BY <1>3, <1>8, <2>2, <3>1 DEF WalkKnows
    <2>7. HopKnows(r)' /\ ListKnows(r)'
      BY <1>2, <2>2, <2>3 DEF Knows, HopKnows, ListKnows
    <2>8. ObservationKnows(r)' /\ Answered(r)'
      BY <1>3, <2>2 DEF ObservationKnows, Answered, Done
    <2> QED
      BY <2>2, <2>4, <2>5, <2>6, <2>7, <2>8 DEF Knows
  <1> QED
    BY <1>9, <1>10

\* A traversal meets its cap in the middle of a node.
LEMMA TruncationKnows ==
    ASSUME QueriesInv, NEW r \in Readers, NEW node \in walk[r].level, Truncate(r, node)
    PROVE  QueriesInv'
  <1> DEFINE q == call[r]
             w == walk[r]
             some == answer[r].rows
             new == Around(graph, node, q.edges) \ some
             room == MaxTriples - Cardinality(some)
  <1>1. /\ Reads(r, "walking", "done") /\ walk' = [walk EXCEPT ![r] = NoWalk]
        /\ \E last \in kSubset(room, new) : Cut(r, last)
        /\ ~(Cardinality(some) + Cardinality(new) <= MaxTriples)
    BY DEF Truncate, Fits
  <1>2. at[r] = "walking"
    BY <1>1 DEF Reads
  <1>3. /\ q \in Reading[r] /\ q.kind = "walk"
        /\ GoesOn(q, w, some, since[r], ever[r])
        /\ since[r] \subseteq graph /\ graph \subseteq ever[r]
        /\ IsFiniteSet(some) /\ Cardinality(some) \in Nat /\ MaxTriples \in Nat
        /\ Cardinality(some) <= MaxTriples
        /\ walk = [s \in Readers |-> walk[s]]
        /\ IsFiniteSet(Around(graph, node, q.edges))
        /\ Hops(q) \in Nat /\ Hops(q) > 1
    BY <1>2, WalkIs
  <1>4. some \cup new \subseteq Neighbourhood(ever[r], q)
    BY <1>2, NodeLater
  <1>5. PICK last \in kSubset(room, new) : Cut(r, last)
    BY <1>1
  <1>6. last \subseteq new /\ Cardinality(last) = room
    BY DEF kSubset
  <1>7. IsFiniteSet(some \cup last) /\ Cardinality(some \cup last) = MaxTriples
    <2>1. IsFiniteSet(last)
      BY <1>3, <1>6, FS_Subset
    <2>2. some \cap last = {} /\ Cardinality({}) = 0
      BY <1>6, FS_EmptySet
    <2> HIDE DEF some
    <2>3. /\ IsFiniteSet(some \cup last)
          /\ Cardinality(some \cup last)
               = Cardinality(some) + Cardinality(last) - Cardinality(some \cap last)
      BY <1>3, <2>1, FS_Union
    <2>4. Cardinality(some \cap last) = 0
      BY <2>2
    <2>5. Cardinality(last) = room /\ room \in Int
      BY <1>3, <1>6
    <2> HIDE DEF new, room
    <2>6. Cardinality(some \cup last) = Cardinality(some) + room
      BY <1>3, <2>3, <2>4, <2>5
    <2> QED
      BY <1>3, <2>3, <2>6 DEF room
  <1>11. some \cup last # Neighbourhood(ever[r], q)
    <2>1. IsFiniteSet(new)
      BY <1>3, FS_Subset
    <2>2. Cardinality(new) \in Nat
      BY <2>1, FS_CardinalityType
    <2>3. last # new
      <3>1. Cardinality(new) # room
        <4> HIDE DEF new, some
        <4> QED
          BY <1>1, <1>3, <2>2
      <3> QED
        BY <1>6, <3>1
    <2>4. PICK row \in new : row \notin last
      BY <1>6, <2>3
    <2>5. row \notin some
      OBVIOUS
    <2> QED
      BY <1>4, <2>4, <2>5
  <1> HIDE DEF new
  <1>8. walk'[r] = NoWalk
    BY <1>1, <1>3
  <1>9. answer'[r].rows = some \cup last /\ answer'[r].truncated = TRUE
    BY <1>5, AnswerCut
  <1>10. WalkEnds(r)
    BY <1>3, <1>4, <1>6, <1>7, <1>9, <1>11 DEF WalkEnds, CutIsFull
  <1> QED
    BY <1>1, <1>5, <1>8, <1>10, EndKnows

\* Every step of a reader preserves what all readers know.
LEMMA ReaderStepInductive ==
    ASSUME QueriesInv, NEW r \in Readers, ReaderStep(r)
    PROVE  QueriesInv'
  <1>1. CASE \E q \in Reading[r] : Ask(r, q)
    BY <1>1, AskKnows
  <1>2. CASE Direct(r)
    BY <1>2, DirectKnows
  <1>3. CASE DirectRefused(r) \/ WalkRefused(r)
    BY <1>3, RefusalKnows
  <1>4. CASE \E node \in walk[r].level : Visit(r, node) \/ Truncate(r, node)
    BY <1>4, VisitKnows, TruncationKnows
  <1>5. CASE Count(r)
    BY <1>5, CountKnowsTotal
  <1>6. CASE TurnPage(r)
    BY <1>6, TurnPageKnows
  <1>7. CASE \/ FindObservation(r) \/ ReadReferences(r) \/ FindDecision(r) \/ ReadAlternatives(r)
             \/ FindEntity(r) \/ ReadObservations(r) \/ ReadRelations(r) \/ AskOnce(r)
    BY <1>7, DetailsKnow
  <1>8. CASE QueryFails(r)
    BY <1>8, FailureKnows
  <1> QED
    BY <1>1, <1>2, <1>3, <1>4, <1>5, <1>6, <1>7, <1>8 DEF ReaderStep

-----------------------------------------------------------------------------
(* Writers leave the readers what they know.                               *)

\* So does every call that writes between their queries.
LEMMA WriterStepInductive ==
    ASSUME QueriesInv, WriterStep
    PROVE  QueriesInv'
  <1>1. PICK writer \in Requests : RequestStep(writer)
    BY DEF WriterStep
  <1>2. IInv /\ GraphSorted /\ Functional
    BY DEF QueriesInv
  <1>3. IInv' /\ \A t \in graph : t[2] \notin Replaced => t \in graph'
    BY <1>1, <1>2, RequestStepInductive DEF Kept
  <1>5. GraphSorted'
    BY <1>1, <1>2, WritersAdd
  <1>6. /\ since' = [s \in Readers |-> IF at[s] \in Ends THEN since[s] ELSE since[s] \cap graph']
        /\ ever' = [s \in Readers |-> IF at[s] \in Ends \cup {"idle"} THEN ever[s]
                                      ELSE ever[s] \cup graph']
        /\ call' = call /\ at' = at /\ walk' = walk /\ answer' = answer
    BY DEF WriterStep
  <1>7. Functional'
    BY <1>2, <1>6 DEF Functional
  <1>8. ASSUME NEW s \in Readers
        PROVE  Knows(s)'
    <2> DEFINE q == call[s]
               some == answer[s].rows
    <2>1. Knows(s)
      BY DEF QueriesInv
    <2>2. /\ call'[s] = q /\ at'[s] = at[s] /\ walk'[s] = walk[s] /\ answer'[s] = answer[s]
          /\ at[s] \in Ends => since'[s] = since[s] /\ ever'[s] = ever[s]
          /\ at[s] \in Stages => since'[s] = since[s] \cap graph' /\ ever'[s] = ever[s] \cup graph'
          /\ since'[s] \subseteq ever'[s] /\ IsFiniteSet(ever'[s])
      <3>1. IsFiniteSet(graph') /\ IsFiniteSet(ever[s])
        BY <1>5, <2>1 DEF GraphSorted, Sortable, Knows, Between
      <3>2. IsFiniteSet(ever[s] \cup graph')
        BY <3>1, FS_Union
      <3> QED
        BY <1>6, <2>1, <3>1, <3>2 DEF Knows, Between, Stages, Ends
    <2>3. Purpose(s)' /\ Between(s)' /\ AnswerTyped(s)' /\ HopKnows(s)'
      BY <2>1, <2>2 DEF Knows, Purpose, Between, AnswerTyped, HopKnows
    <2>4. Answered(s)'
      BY <2>1, <2>2 DEF Knows, Answered, Done, Ends
    <2>5. WalkKnows(s)'
      <3>1. CASE at[s] = "walking"
        <4>1. q \in Reading[s] /\ q.kind = "walk" /\ ~answer[s].truncated
              /\ GoesOn(q, walk[s], some, since[s], ever[s])
          BY <3>1, WalkIs
        <4>2. since'[s] \subseteq since[s] /\ ever[s] \subseteq ever'[s]
          BY <2>2, <3>1 DEF Stages
        <4>3. GoesOn(q, walk[s], some, since'[s], ever'[s])
          <5> HIDE DEF q, some
          <5> QED
            BY <4>1, <4>2, StillGoesOn
        <4> QED
          BY <2>2, <3>1, <4>1, <4>3 DEF WalkKnows
      <3>2. CASE at[s] # "walking"
        BY <2>1, <2>2, <3>2 DEF Knows, WalkKnows
      <3> QED
        BY <3>1, <3>2
    <2>6. ASSUME at[s] \in {"counting", "paging"}
          PROVE  ListKnows(s)'
      <3> DEFINE S == Listed(graph, q)
                 T == Listed(graph', q)
      <3>1. /\ some \subseteq Listed(ever[s], q) /\ Ahead(q, some, answer[s].offset, since[s])
            /\ at[s] = "paging" /\ q.class = "Decision" => answer[s].total <= Cardinality(S)
            /\ answer[s].offset \in Nat /\ answer[s].total \in Nat
        BY <2>1, <2>6 DEF Knows, ListKnows, AnswerTyped
      <3>2. /\ since'[s] = since[s] \cap graph' /\ ever'[s] = ever[s] \cup graph'
            /\ since[s] \subseteq graph
        BY <2>1, <2>2, <2>6 DEF Stages, Knows, Between
      <3>3. /\ Listed(ever[s], q) \subseteq Listed(ever'[s], q)
            /\ Listed(since'[s], q) \subseteq Listed(since[s], q)
            /\ Listed(since[s], q) \subseteq S /\ S \subseteq T
        BY <1>3, <3>2, ListedGrows
      <3>4. IsFiniteSet(T) /\ T \in SUBSET Ordered
        BY <1>5, ListedIs DEF GraphSorted, Sortable
      <3>5. IsFiniteSet(S) /\ Cardinality(S) <= Cardinality(T)
            /\ Cardinality(S) \in Nat /\ Cardinality(T) \in Nat
        BY <3>3, <3>4, FS_Subset, FS_CardinalityType
      <3>6. \A n \in S : Rank(n, S, q) \in Nat /\ Rank(n, T, q) \in Nat
                         /\ Rank(n, S, q) <= Rank(n, T, q)
        BY <3>3, <3>4, RankGrows
      <3>7. \A n \in Listed(since[s], q) : n \in some \/ Rank(n, S, q) > answer[s].offset
        BY <3>1 DEF Ahead
      <3>8. \A n \in Listed(since'[s], q) : n \in some \/ Rank(n, T, q) > answer[s].offset
        <4> HIDE DEF S, T
        <4> QED
          BY <3>1, <3>3, <3>6, <3>7
      <3>9. some \subseteq Listed(ever'[s], q)
        BY <3>1, <3>3
      <3>10. at[s] = "paging" /\ q.class = "Decision" => answer[s].total <= Cardinality(T)
        BY <3>1, <3>5
      <3> QED
        BY <2>2, <3>8, <3>9, <3>10 DEF ListKnows, Ahead
    <2>7. ASSUME at[s] # "idle", q.kind = "observation"
          PROVE  ObservationKnows(s)'
      <3>1. ListedObservations(graph) \subseteq ListedObservations(graph')
        BY <1>3, ListedGrows
      <3>2. at[s] = "absent" => q.id \notin ListedObservations(since[s])
        BY <2>1, <2>7 DEF Knows, ObservationKnows
      <3>3. ASSUME NEW shown \in SUBSET Texts, Shows(s, shown)
            PROVE  Shows(s, shown)'
        <4>1. /\ q.id \in ListedObservations(graph)
              /\ Of(since[s] \cup Own(q.id), q.id, shown) \subseteq some
              /\ some \subseteq Of(graph, q.id, shown)
          BY <3>3 DEF Shows
        <4>2. \A o : Known(graph, o) => Own(o)' = Own(o)
          BY <1>1, <1>2, OwnStays
        <4>3. since'[s] \subseteq since[s]
          BY <1>6
        <4>4. Of(since'[s] \cup Own(q.id), q.id, shown) \subseteq some
          BY <4>1, <4>3, OfIs
        <4>5. some \subseteq Of(graph', q.id, shown)
          <5>1. \A t \in graph : t[2] \in shown => t \in graph'
            BY <1>3 DEF Texts, Replaced
          <5> QED
            BY <4>1, <5>1, OfIs
        <4> QED
          BY <2>2, <3>1, <4>1, <4>2, <4>4, <4>5, ListedIsKnown DEF Shows
      <3>4. at[s] = "absent" => since'[s] = since[s]
        BY <2>2 DEF Ends
      <3>5. /\ at[s] = "references" => Shows(s, {"plainTextContent"})
            /\ at[s] = "done" => Shows(s, Texts)
        BY <2>1, <2>7 DEF Knows, ObservationKnows
      <3>6. {"plainTextContent"} \in SUBSET Texts /\ Texts \in SUBSET Texts
        BY DEF Texts
      <3> QED
        BY <2>2, <3>2, <3>3, <3>4, <3>5, <3>6 DEF ObservationKnows
    <2>8. ListKnows(s)' /\ ObservationKnows(s)'
      BY <2>2, <2>6, <2>7 DEF ListKnows, ObservationKnows
    <2> QED
      BY <2>3, <2>4, <2>5, <2>8 DEF Knows
  <1> QED
    BY <1>3, <1>5, <1>7, <1>8 DEF QueriesInv

-----------------------------------------------------------------------------
(* Theorems.                                                               *)

\* Before the first call there is nothing to know.
LEMMA QueriesInitially ==
    ASSUME QueriesInit
    PROVE  QueriesInv
  <1>1. /\ Init
        /\ call = [r \in Readers |-> NoCall] /\ at = [r \in Readers |-> "idle"]
        /\ walk = [r \in Readers |-> NoWalk] /\ answer = [r \in Readers |-> NoRows]
        /\ since = [r \in Readers |-> {}] /\ ever = [r \in Readers |-> {}]
    BY DEF QueriesInit
  <1>2. IInv
    BY <1>1, Initially
  <1>3. GraphSorted
    BY <1>1, CallsAreFinite, OrderIsTotal DEF Init, GraphSorted, Sortable, Ordered
  <1>4. Functional
    BY <1>1 DEF Functional
  <1>5. ASSUME NEW r \in Readers
        PROVE  Knows(r)
    <2>1. /\ call[r] = NoCall /\ at[r] = "idle" /\ walk[r] = NoWalk /\ answer[r] = NoRows
          /\ since[r] = {} /\ ever[r] = {}
      BY <1>1
    <2>2. Purpose(r) /\ Between(r) /\ WalkKnows(r) /\ HopKnows(r)
      BY <2>1, FS_EmptySet DEF Purpose, Between, WalkKnows, HopKnows, Stages
    <2>3. AnswerTyped(r)
      BY <2>1 DEF AnswerTyped, NoRows
    <2>4. ListKnows(r) /\ ObservationKnows(r) /\ Answered(r)
      BY <2>1 DEF ListKnows, ObservationKnows, Answered, Done
    <2> QED
      BY <2>2, <2>3, <2>4 DEF Knows
  <1> QED
    BY <1>2, <1>3, <1>4, <1>5 DEF QueriesInv

\* What every reader knows holds whatever is asked and written: the inductive
\* invariant behind the theorems below.
THEOREM ReadersKnow == QueriesSpec => []QueriesInv
  <1>1. QueriesInit => QueriesInv
    BY QueriesInitially
  <1>2. QueriesInv /\ [QueriesNext]_<<readers, vars>> => QueriesInv'
    <2> SUFFICES ASSUME QueriesInv, [QueriesNext]_<<readers, vars>>
                 PROVE  QueriesInv'
      OBVIOUS
    <2>1. CASE WriterStep
      BY <2>1, WriterStepInductive
    <2>2. CASE \E r \in Readers : ReaderStep(r)
      BY <2>2, ReaderStepInductive
    <2>3. CASE UNCHANGED <<readers, vars>>
      <3>1. UNCHANGED <<graph, pc, prepared, tracked, worker, faults>>
            /\ UNCHANGED <<call, at, walk, answer, since, ever>>
        BY <2>3 DEF readers, vars
      <3>2. faults' \in 0..MaxFaults
        BY <3>1 DEF QueriesInv, IInv, CallsTyped
      <3>3. IInv' /\ GraphSorted' /\ Functional'
        BY <3>1, <3>2, WritersRest DEF QueriesInv, GraphSorted, Sortable, Functional
      <3>4. \A s \in Readers : Knows(s)'
        BY <3>1, OthersKnow DEF QueriesInv
      <3> QED
        BY <3>3, <3>4 DEF QueriesInv
    <2> QED
      BY <2>1, <2>2, <2>3 DEF QueriesNext
  <1> QED
    BY <1>1, <1>2, PTL DEF QueriesSpec

\* Types of the readers' variables: a traversal goes on exactly while it has
\* hops left and nodes to visit, visits only nodes it may, and never has more
\* rows than the cap, whatever is written meanwhile, and a client that turns
\* pages never has more rows than its offset counts.
THEOREM ReadersTyped == QueriesSpec => []QueriesTypeOK
  <1>1. ASSUME QueriesInv
        PROVE  QueriesTypeOK
    <2>1. at \in [Readers -> Stages \cup Ends \cup {"idle"}]
      BY <1>1 DEF QueriesInv, Functional
    <2>2. ASSUME NEW r \in Readers
          PROVE  /\ call[r] \in Reading[r] \cup {NoCall}
                 /\ (at[r] = "idle") = (call[r] = NoCall)
                 /\ (at[r] = "walking") = (walk[r].level # {})
                 /\ (at[r] = "walking") = (walk[r].left \in Nat \ {0})
                 /\ walk[r].level \cup walk[r].next \subseteq walk[r].visited
                 /\ walk[r].visited \subseteq
                       Memory \cup {n.start : n \in {q \in Reading[r] : q.kind = "walk"}}
                 /\ (at[r] = "walking") = (walk[r] # NoWalk)
                 /\ answer[r].offset \in Nat /\ answer[r].total \in Nat
                 /\ answer[r].truncated \in BOOLEAN
                 /\ (at[r] # "idle" /\ call[r].kind = "walk") => Cardinality(answer[r].rows) <= MaxTriples
                 /\ (at[r] # "idle" /\ call[r].kind = "list") =>
                       Cardinality(answer[r].rows) <= answer[r].offset
                 /\ since[r] \subseteq ever[r]
      <3>1. Knows(r)
        BY <1>1 DEF QueriesInv
      <3>2. CASE at[r] = "walking"
        <4>1. call[r] \in Reading[r] /\ call[r].kind = "walk"
          BY <3>1, <3>2 DEF Knows, Purpose
        <4>2. /\ walk[r].level # {} /\ walk[r].level \cup walk[r].next \subseteq walk[r].visited
              /\ walk[r].visited \subseteq Memory \cup {call[r].start}
              /\ walk[r].left \in 1..Hops(call[r])
          BY <3>1, <3>2 DEF Knows, WalkKnows, GoesOn
        <4>3. walk[r] # NoWalk
          BY <4>2 DEF NoWalk
        <4>4. call[r].start \in {n.start : n \in {q \in Reading[r] : q.kind = "walk"}}
          BY <4>1
        <4>5. walk[r].left \in Nat \ {0}
          BY <4>1, <4>2, HopsType
        <4> QED
          BY <3>1, <3>2, <4>2, <4>3, <4>4, <4>5 DEF Knows, Purpose, AnswerTyped, Between
      <3>3. CASE at[r] # "walking"
        <4>1. walk[r] = NoWalk
          BY <3>1, <3>3 DEF Knows, WalkKnows
        <4> QED
          BY <3>1, <3>3, <4>1 DEF Knows, Purpose, AnswerTyped, Between, NoWalk
      <3> QED
        BY <3>2, <3>3
    <2> QED
      BY <2>1, <2>2 DEF QueriesTypeOK
  <1> QED
    BY <1>1, ReadersKnow, PTL

\* What can be reached without going on from the schema can be reached.
LEMMA FactsAreReached ==
    ASSUME NEW g, NEW q
    PROVE  MemoryFacts(g, q) \subseteq Neighbourhood(g, q)
  <1> DEFINE most == Max({0, Hops(q) - 1})
  <1>1. ASSUME NEW k \in 0..most, NEW p \in SchemaFree(g, q, k)
        PROVE  p[k] \in Ball(g, q, most)
    <2>1. p \in Paths(g, q, k)
      BY DEF SchemaFree
    <2> HIDE DEF most
    <2> QED
      BY <2>1 DEF Ball
  <1> QED
    BY <1>1 DEF MemoryFacts, Neighbourhood

\* A traversal that ends uncut has all rows around all nodes it could reach over
\* triples that were there all the time, every row of a traversal is one around
\* a node it could reach, and one that was cut has met its cap: for any graph,
\* depth, filter and cap, and any calls that write between its queries.
THEOREM WalksComplete == QueriesSpec => []WalksAreComplete
  <1>1. ASSUME QueriesInv
        PROVE  WalksAreComplete
    <2>1. ASSUME NEW r \in Readers, Done(r, "walk")
          PROVE  /\ answer[r].rows \subseteq Neighbourhood(ever[r], call[r])
                 /\ ~answer[r].truncated => Neighbourhood(since[r], call[r]) \subseteq answer[r].rows
                 /\ CutIsFull(call[r], answer[r], ever[r])
      BY <1>1, <2>1 DEF QueriesInv, Knows, Answered
    <2>2. \A r \in Readers : MemoryFacts(since[r], call[r]) \subseteq Neighbourhood(since[r], call[r])
      BY FactsAreReached
    <2> QED
      BY <2>1, <2>2 DEF WalksAreComplete, CutIsFull
  <1> QED
    BY <1>1, ReadersKnow, PTL

\* A client that turns pages to the end has seen all that was listed all the
\* time and nothing that never was, and with decisions no total was too high, for
\* any limit and any calls that store between the pages.
THEOREM PagesComplete == QueriesSpec => []PagesMissNothing
  <1>1. QueriesInv => PagesMissNothing
    BY DEF QueriesInv, Knows, Answered, PagesMissNothing
  <1> QED
    BY <1>1, ReadersKnow, PTL

\* An observation that is found is shown with its text and all entities it was
\* stored with, though they are read by two queries between which others write,
\* and with nothing that is not there.
THEOREM ObservationsWhole == QueriesSpec => []ObservationsShownWhole
  <1>1. QueriesInv => ObservationsShownWhole
    BY DEF QueriesInv, Knows, ObservationKnows, Shows, ObservationsShownWhole
  <1> QED
    BY <1>1, ReadersKnow, PTL
=============================================================================
