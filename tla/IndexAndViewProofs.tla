------------------------- MODULE IndexAndViewProofs -------------------------
(***************************************************************************)
(* The index of a session's rows, and the view of its search.              *)
(*                                                                         *)
(* IndexedMap.  For every set of rows and every pair of limits: the two    *)
(* halves of the index agree, the index implements the table of found and  *)
(* marked rows, and every question about positions is answered as the      *)
(* table says. The invariant speaks of one map value, so that each         *)
(* operation of the map has one lemma, and an action that calls two of     *)
(* them uses both.                                                         *)
(*                                                                         *)
(* SearchView.  For any number of searches, rows, retries and nested       *)
(* searches, whatever they match: at rest the view shows what the core     *)
(* has, and navigates from where it is to the nearest hit. Its invariant,  *)
(* ViewInv, says what the view will show once it has heard all that is on  *)
(* its way (SyncInv), that the searches take turns at the holder unless    *)
(* one was missed (OrderInv, MapInv), and that whatever clears the matches *)
(* has a count of zero with it, which closes a nested search (ClosesInv,   *)
(* NestedInv).                                                             *)
(***************************************************************************)
EXTENDS IndexedMap, SearchView, FiniteSetTheorems, FunctionTheorems,
        SequenceTheorems, WellFoundedInduction, TLAPS

\* The shape of a map: its keys hold the rows of the hash map, each once.
Shaped(m) ==
    /\ m = [indexes |-> m.indexes, keys |-> m.keys, sorted |-> m.sorted]
    /\ Shown(m) \subseteq Rows
    /\ \A r \in Shown(m) : m.indexes[r] \subseteq Natures
    /\ m.keys \in Orders[Shown(m)]
    /\ m.sorted \in BOOLEAN
    /\ m.sorted => Increasing(m.keys)

Good(m) == Shaped(m) /\ \A r \in Shown(m) : m.indexes[r] # {}

IInv == Good(map) /\ told = Cardinality(Shown(map))

-----------------------------------------------------------------------------
(* Sizes and orders.                                                        *)

\* Sets of rows are finite, and no larger than the set of all rows.
LEMMA SubsetsAreFinite ==
    ASSUME NEW S \in SUBSET Rows
    PROVE  /\ IsFiniteSet(S)
           /\ Cardinality(S) \in Nat
           /\ Cardinality(S) <= Cardinality(Rows)
  BY RowsAreFinite, FS_Subset, FS_CardinalityType

\* An order of S is a sequence with the values S, each once.
LEMMA OrderOf ==
    ASSUME NEW S \in SUBSET Rows, NEW q \in Orders[S]
    PROVE  /\ q \in [1 .. Cardinality(S) -> S]
           /\ q \in Seq(S)
           /\ Len(q) = Cardinality(S)
           /\ ValuesOf(q) = S
           /\ Distinct(q)
  <1>1. q \in [1 .. Cardinality(S) -> S] /\ ValuesOf(q) = S /\ Distinct(q)
    BY DEF Orders
  <1>2. Cardinality(S) \in Nat
    BY SubsetsAreFinite
  <1> QED
    BY <1>1, <1>2

\* One order after another is an order of the union of disjoint sets.
LEMMA OrdersConcatenate ==
    ASSUME NEW S \in SUBSET Rows, NEW T \in SUBSET Rows, S \cap T = {},
           NEW p \in Orders[S], NEW q \in Orders[T]
    PROVE  p \o q \in Orders[S \cup T]
  <1>1. /\ p \in Seq(S) /\ Len(p) = Cardinality(S) /\ ValuesOf(p) = S /\ Distinct(p)
        /\ q \in Seq(T) /\ Len(q) = Cardinality(T) /\ ValuesOf(q) = T /\ Distinct(q)
    BY OrderOf
  <1>2. Cardinality(S \cup T) = Cardinality(S) + Cardinality(T)
    <2>1. IsFiniteSet(S) /\ IsFiniteSet(T) /\ Cardinality(S) \in Nat /\ Cardinality(T) \in Nat
      BY SubsetsAreFinite
    <2>2. Cardinality(S \cap T) = 0
      BY FS_EmptySet
    <2>3. Cardinality(S \cup T) = Cardinality(S) + Cardinality(T) - Cardinality(S \cap T)
      BY <2>1, FS_Union
    <2> QED
      BY <2>1, <2>2, <2>3
  <1>3. /\ Len(p) \in Nat /\ Len(q) \in Nat
        /\ p \in [1 .. Len(p) -> S] /\ q \in [1 .. Len(q) -> T]
    BY <1>1, SubsetsAreFinite
  <1> DEFINE pq == p \o q
  <1>4. /\ DOMAIN pq = 1 .. Len(p) + Len(q)
        /\ \A i \in 1 .. Len(p) : pq[i] = p[i]
        /\ \A i \in Len(p) + 1 .. Len(p) + Len(q) : pq[i] = q[i - Len(p)]
        /\ pq \in [1 .. Len(p) + Len(q) -> S \cup T]
    <2>1. p \in Seq(S \cup T) /\ q \in Seq(S \cup T)
      BY <1>3
    <2>2. /\ pq \in Seq(S \cup T) /\ Len(pq) = Len(p) + Len(q)
          /\ \A i \in 1 .. Len(p) + Len(q) : pq[i] = IF i <= Len(p) THEN p[i] ELSE q[i - Len(p)]
      BY <2>1, ConcatProperties
    <2> HIDE DEF pq
    <2>3. \A i \in Len(p) + 1 .. Len(p) + Len(q) : i - Len(p) \in 1 .. Len(q)
      BY <1>3
    <2>4. \A i \in 1 .. Len(p) + Len(q) :
            IF i <= Len(p) THEN i \in 1 .. Len(p) ELSE i \in Len(p) + 1 .. Len(p) + Len(q)
      BY <1>3
    <2>5. \A i \in 1 .. Len(p) + Len(q) : pq[i] \in S \cup T
      BY <2>2, <2>3, <2>4, <1>3
    <2>6. /\ \A i \in 1 .. Len(p) : pq[i] = p[i]
          /\ \A i \in Len(p) + 1 .. Len(p) + Len(q) : pq[i] = q[i - Len(p)]
      BY <2>2, <1>3
    <2> QED
      BY <2>2, <2>5, <2>6
  <1>45. /\ \A i \in 1 .. Len(p) : pq[i] \in S
         /\ \A i \in Len(p) + 1 .. Len(p) + Len(q) : pq[i] \in T
    <2>1. \A i \in Len(p) + 1 .. Len(p) + Len(q) : i - Len(p) \in 1 .. Len(q)
      BY <1>3
    <2> HIDE DEF pq
    <2> QED
      BY <2>1, <1>3, <1>4
  <1> HIDE DEF pq
  <1>5. ValuesOf(pq) = S \cup T
    <2>1. ASSUME NEW x \in S PROVE x \in ValuesOf(pq)
      <3>1. PICK i \in 1 .. Len(p) : p[i] = x
        BY <1>1, <1>3 DEF ValuesOf
      <3> QED
        BY <3>1, <1>3, <1>4 DEF ValuesOf
    <2>2. ASSUME NEW x \in T PROVE x \in ValuesOf(pq)
      <3>1. PICK i \in 1 .. Len(q) : q[i] = x
        BY <1>1, <1>3 DEF ValuesOf
      <3>2. Len(p) + i \in DOMAIN pq /\ pq[Len(p) + i] = x
        BY <3>1, <1>3, <1>4
      <3> QED
        BY <3>2 DEF ValuesOf
    <2> QED
      BY <2>1, <2>2, <1>4 DEF ValuesOf
  <1>6. Distinct(pq)
    <2> SUFFICES ASSUME NEW i \in 1 .. Len(p) + Len(q), NEW j \in 1 .. Len(p) + Len(q),
                        pq[i] = pq[j]
                 PROVE  i = j
      BY <1>4 DEF Distinct
    <2>1. CASE i <= Len(p) /\ j <= Len(p)
      <3>1. i \in 1 .. Len(p) /\ j \in 1 .. Len(p)
        BY <2>1, <1>3
      <3>2. p[i] = p[j]
        BY <3>1, <1>4
      <3> QED
        BY <3>1, <3>2, <1>1, <1>3 DEF Distinct
    <2>2. CASE i > Len(p) /\ j > Len(p)
      <3>1. i - Len(p) \in 1 .. Len(q) /\ j - Len(p) \in 1 .. Len(q)
        BY <2>2, <1>3
      <3>2. q[i - Len(p)] = q[j - Len(p)]
        BY <2>2, <1>3, <1>4
      <3>3. i - Len(p) = j - Len(p)
        BY <3>1, <3>2, <1>1, <1>3 DEF Distinct
      <3> QED
        BY <3>3, <1>3
    <2>3. CASE i <= Len(p) /\ j > Len(p)
      <3>1. i \in 1 .. Len(p) /\ j \in Len(p) + 1 .. Len(p) + Len(q)
        BY <2>3, <1>3
      <3>2. pq[i] \in S /\ pq[j] \in T
        BY <3>1, <1>45
      <3> QED
        BY <3>2
    <2>4. CASE i > Len(p) /\ j <= Len(p)
      <3>1. j \in 1 .. Len(p) /\ i \in Len(p) + 1 .. Len(p) + Len(q)
        BY <2>4, <1>3
      <3>2. pq[j] \in S /\ pq[i] \in T
        BY <3>1, <1>45
      <3> QED
        BY <3>2
    <2> QED
      BY <2>1, <2>2, <2>3, <2>4, <1>3
  <1>7. pq \in Orders[S \cup T]
    BY <1>1, <1>2, <1>4, <1>5, <1>6 DEF Orders
  <1> QED
    BY <1>7 DEF pq

\* Sorting an order of S gives an increasing order of S.
LEMMA SortingsAreOrders ==
    ASSUME NEW S \in SUBSET Rows, NEW q \in Orders[S], NEW s \in Sortings(q)
    PROVE  s \in Orders[S] /\ Increasing(s)
  <1>1. /\ q \in [1 .. Cardinality(S) -> S] /\ Len(q) = Cardinality(S)
        /\ ValuesOf(q) = S /\ Distinct(q)
    BY OrderOf
  <1>2. Cardinality(S) \in 0 .. Cardinality(Rows)
    BY SubsetsAreFinite, RowsAreFinite, FS_CardinalityType
  <1> DEFINE n == Cardinality(S)
  <1>3. PICK p \in Permuted[n] : s = [i \in 1 .. n |-> q[p[i]]]
    BY <1>1 DEF Sortings
  <1>4. /\ p \in [1 .. n -> 1 .. n]
        /\ ValuesOf(p) = 1 .. n
        /\ Distinct(p)
    BY <1>2, <1>3 DEF Permuted
  <1>5. s \in [1 .. n -> S] /\ DOMAIN s = 1 .. n
    BY <1>1, <1>3, <1>4
  <1>6. Distinct(s)
    BY <1>1, <1>3, <1>4, <1>5 DEF Distinct
  <1>7. ValuesOf(s) = S
    <2>1. ASSUME NEW x \in S PROVE x \in ValuesOf(s)
      <3>1. PICK j \in 1 .. n : q[j] = x
        BY <1>1 DEF ValuesOf
      <3>2. PICK i \in 1 .. n : p[i] = j
        BY <1>4 DEF ValuesOf
      <3> QED
        BY <3>1, <3>2, <1>3, <1>5 DEF ValuesOf
    <2> QED
      BY <2>1, <1>5 DEF ValuesOf
  <1>8. s \in Orders[S]
    BY <1>5, <1>6, <1>7 DEF Orders
  <1>9. \A i, j \in 1 .. n : i < j => s[i] <= s[j]
    BY <1>1 DEF Sortings
  <1>10. Increasing(s)
    <2> SUFFICES ASSUME NEW i \in 1 .. n, NEW j \in 1 .. n, i < j
                 PROVE  s[i] < s[j]
      BY <1>5 DEF Increasing
    <2>1. s[i] \in Nat /\ s[j] \in Nat
      BY <1>5, RowsAreFinite
    <2>2. s[i] # s[j]
      BY <1>5, <1>6, <1>2 DEF Distinct
    <2> QED
      BY <2>1, <2>2, <1>9
  <1> QED
    BY <1>8, <1>10

-----------------------------------------------------------------------------
(* The operations of the map.                                               *)

\* Sorting the keys of a map changes nothing but their order.
LEMMA SortedIsGood ==
    ASSUME NEW m, Good(m), NEW n \in Sorted(m)
    PROVE  Good(n) /\ n.indexes = m.indexes
  <1>1. CASE m.sorted
    BY <1>1 DEF Sorted
  <1>2. CASE ~m.sorted
    <2>1. PICK s \in Sortings(m.keys) : n = [m EXCEPT !.keys = s, !.sorted = TRUE]
      BY <1>2 DEF Sorted
    <2>2. n = [indexes |-> m.indexes, keys |-> s, sorted |-> TRUE]
      BY <2>1 DEF Good, Shaped
    <2>3. s \in Orders[Shown(m)] /\ Increasing(s)
      BY SortingsAreOrders DEF Good, Shaped
    <2> QED
      BY <2>2, <2>3 DEF Good, Shaped, Shown
  <1> QED
    BY <1>1, <1>2

\* Rows that come are pushed behind the keys, and gain the nature.
LEMMA InsertedIsGood ==
    ASSUME NEW m, Good(m), NEW S \in SUBSET Rows, NEW nature \in Natures,
           NEW n \in Inserted(m, S, nature)
    PROVE  /\ Good(n)
           /\ \A o \in Natures : With(n, o) = IF o = nature THEN With(m, o) \cup S ELSE With(m, o)
  <1> DEFINE ix == [r \in Shown(m) \cup S |->
                      (IF r \in Shown(m) THEN m.indexes[r] ELSE {})
                      \cup (IF r \in S THEN {nature} ELSE {})]
  <1>1. PICK new \in Arrivals(S \ Shown(m), nature) :
          n = [indexes |-> ix, keys |-> m.keys \o new, sorted |-> m.sorted /\ new = <<>>]
    BY DEF Inserted
  <1>2. new \in Orders[S \ Shown(m)]
    BY DEF Arrivals
  <1>3. n.indexes = ix /\ Shown(n) = Shown(m) \cup S
    BY <1>1 DEF Shown
  <1>4. n.keys \in Orders[Shown(n)]
    <2>1. Shown(m) \cup (S \ Shown(m)) = Shown(n)
      BY <1>3
    <2>2. m.keys \o new \in Orders[Shown(m) \cup (S \ Shown(m))]
      BY <1>2, OrdersConcatenate DEF Good, Shaped
    <2> QED
      BY <2>1, <2>2, <1>1
  <1>5. n.sorted => Increasing(n.keys)
    <2> SUFFICES ASSUME m.sorted, new = <<>> PROVE Increasing(m.keys \o new)
      BY <1>1
    <2>1. m.keys \in Seq(Shown(m))
      BY OrderOf DEF Good, Shaped
    <2>2. m.keys \o new = m.keys
      BY <2>1
    <2> QED
      BY <2>2 DEF Good, Shaped
  <1>6. \A r \in Shown(n) : n.indexes[r] \subseteq Natures /\ n.indexes[r] # {}
    BY <1>3 DEF Good, Shaped
  <1>7. Good(n)
    BY <1>1, <1>3, <1>4, <1>5, <1>6 DEF Good, Shaped
  <1>8. \A o \in Natures :
          With(n, o) = IF o = nature THEN With(m, o) \cup S ELSE With(m, o)
    BY <1>3 DEF With
  <1> QED
    BY <1>7, <1>8

\* What leaves the hash map leaves the keys, drained or rebuilt.
LEMMA WithoutIsShaped ==
    ASSUME NEW m, Shaped(m), NEW S \in SUBSET Rows, NEW n \in Without(m, S)
    PROVE  /\ Shaped(n)
           /\ Shown(n) = Shown(m) \ S
           /\ \A r \in Shown(n) : n.indexes[r] = m.indexes[r]
  <1> DEFINE left == [r \in Shown(m) \ S |-> m.indexes[r]]
  <1>1. ValuesOf(m.keys) = Shown(m)
    BY OrderOf DEF Shaped
  <1>2. PICK q \in Orders[Shown(m) \ S], f \in BOOLEAN :
          /\ n = [indexes |-> left, keys |-> q, sorted |-> f]
          /\ f => Increasing(q)
    BY <1>1 DEF Without
  <1>3. Shown(n) = Shown(m) \ S /\ n.indexes = left
    BY <1>2 DEF Shown
  <1> QED
    BY <1>2, <1>3 DEF Shaped

\* A nature that is taken from rows takes those along that have no other.
LEMMA ExcludedIsGood ==
    ASSUME NEW m, Good(m), NEW S, NEW nature \in Natures,
           NEW n \in Excluded(m, S, nature)
    PROVE  /\ Good(n)
           /\ \A o \in Natures : With(n, o) = IF o = nature THEN With(m, o) \ S ELSE With(m, o)
  <1> DEFINE ix == [r \in Shown(m) |-> IF r \in S THEN m.indexes[r] \ {nature}
                                       ELSE m.indexes[r]]
             kept == [m EXCEPT !.indexes = ix]
             gone == {r \in S \cap Shown(m) : m.indexes[r] \subseteq {nature}}
  <1>1. kept = [indexes |-> ix, keys |-> m.keys, sorted |-> m.sorted]
    <2> DEFINE old == m.indexes
               keys == m.keys
               flag == m.sorted
    <2>1. m = [indexes |-> old, keys |-> keys, sorted |-> flag]
      BY DEF Good, Shaped
    <2> HIDE DEF old, keys, flag, ix
    <2>2. kept = [indexes |-> ix, keys |-> keys, sorted |-> flag]
      BY <2>1
    <2> QED
      BY <2>2 DEF keys, flag
  <1>2. Shown(kept) = Shown(m) /\ kept.indexes = ix
    BY <1>1 DEF Shown
  <1>3. Shaped(kept)
    BY <1>1, <1>2 DEF Good, Shaped
  <1>4. n \in Without(kept, gone)
    BY DEF Excluded
  <1> HIDE DEF kept
  <1>5. /\ Shaped(n)
        /\ Shown(n) = Shown(m) \ gone
        /\ \A r \in Shown(n) : n.indexes[r] = ix[r]
    <2>1. gone \in SUBSET Rows
      BY DEF Good, Shaped
    <2> HIDE DEF gone, ix
    <2>2. /\ Shaped(n)
          /\ Shown(n) = Shown(kept) \ gone
          /\ \A r \in Shown(n) : n.indexes[r] = kept.indexes[r]
      BY <2>1, <1>3, <1>4, WithoutIsShaped
    <2> QED
      BY <2>2, <1>2
  <1>6. \A r \in Shown(n) : n.indexes[r] # {}
    BY <1>5 DEF Good
  <1>7. \A o \in Natures :
          With(n, o) = IF o = nature THEN With(m, o) \ S ELSE With(m, o)
    BY <1>5 DEF With
  <1> QED
    BY <1>5, <1>6, <1>7 DEF Good

-----------------------------------------------------------------------------
(* The controller.                                                          *)

\* A row is shown exactly when it is found or marked.
LEMMA ShownIsUnion ==
    ASSUME NEW m, Good(m)
    PROVE  Shown(m) = With(m, "search") \cup With(m, "bookmark")
  BY DEF Good, Shaped, With, Natures

LEMMA InitIsGood == Init => IInv
  <1> SUFFICES ASSUME Init PROVE IInv
    OBVIOUS
  <1>1. Shown(map) = {} /\ map.keys = <<>> /\ map.sorted = FALSE
    BY DEF Init, Shown
  <1>2. Cardinality({}) = 0
    BY FS_EmptySet
  <1>3. map.keys \in Orders[{}]
    BY <1>1, <1>2 DEF Orders, ValuesOf, Distinct
  <1> QED
    BY <1>1, <1>2, <1>3 DEF Init, IInv, Good, Shaped

\* What each step does with the map: it becomes a good map, in which the
\* search or the bookmarks, but never both, have changed, or nothing is left.
Found(m) == With(m, "search")
Marked(m) == With(m, "bookmark")
Effect ==
    \/ Found(map') \in SUBSET Rows /\ Marked(map') = Marked(map)
    \/ Found(map') = Found(map) /\ Marked(map) \subseteq Marked(map') /\ Marked(map') \in SUBSET Rows
    \/ Found(map') = Found(map) /\ \E r \in Rows : Marked(map') = Marked(map) \ {r}
    \/ Found(map') = {} /\ Marked(map') = {}

\* The operations with a search leave the bookmarks alone, and those with a
\* bookmark the search.
LEMMA SearchInserted ==
    ASSUME NEW m, Good(m), NEW S \in SUBSET Rows, NEW n \in Inserted(m, S, "search")
    PROVE  Good(n) /\ Marked(n) = Marked(m)
  <1>1. "search" \in Natures /\ "bookmark" \in Natures
    BY DEF Natures
  <1>3. Good(n) /\ \A o \in Natures : With(n, o) = IF o = "search" THEN With(m, o) \cup S ELSE With(m, o)
    BY <1>1, InsertedIsGood
  <1> QED
    BY <1>1, <1>3 DEF Marked

LEMMA SearchCleaned ==
    ASSUME NEW m, Good(m), NEW n \in Cleaned(m, "search")
    PROVE  Good(n) /\ Marked(n) = Marked(m)
  <1>1. "search" \in Natures /\ "bookmark" \in Natures
    BY DEF Natures
  <1>2. n \in Excluded(m, Shown(m), "search")
    BY DEF Cleaned
  <1>3. Good(n) /\ \A o \in Natures : With(n, o) = IF o = "search" THEN With(m, o) \ Shown(m) ELSE With(m, o)
    BY <1>1, <1>2, ExcludedIsGood
  <1> QED
    BY <1>1, <1>3 DEF Marked

LEMMA BookmarkInserted ==
    ASSUME NEW m, Good(m), NEW S \in SUBSET Rows, NEW n \in Inserted(m, S, "bookmark")
    PROVE  Good(n) /\ Marked(n) = Marked(m) \cup S /\ Found(n) = Found(m)
  <1>1. "search" \in Natures /\ "bookmark" \in Natures
    BY DEF Natures
  <1>3. Good(n) /\ \A o \in Natures : With(n, o) = IF o = "bookmark" THEN With(m, o) \cup S ELSE With(m, o)
    BY <1>1, InsertedIsGood
  <1> QED
    BY <1>1, <1>3 DEF Marked, Found

LEMMA BookmarkExcluded ==
    ASSUME NEW m, Good(m), NEW S, NEW n \in Excluded(m, S, "bookmark")
    PROVE  Good(n) /\ Marked(n) = Marked(m) \ S /\ Found(n) = Found(m)
  <1>1. "search" \in Natures /\ "bookmark" \in Natures
    BY DEF Natures
  <1>3. Good(n) /\ \A o \in Natures : With(n, o) = IF o = "bookmark" THEN With(m, o) \ S ELSE With(m, o)
    BY <1>1, ExcludedIsGood
  <1> QED
    BY <1>1, <1>3 DEF Marked, Found

LEMMA RowsOfGood ==
    ASSUME NEW m, Good(m)
    PROVE  Found(m) \in SUBSET Rows /\ Marked(m) \in SUBSET Rows
  BY DEF Good, Shaped, Found, Marked, With

\* A change of the map keeps the invariant and is one of the effects.
LEMMA ChangesAreGood ==
    ASSUME IInv, Changes
    PROVE  IInv' /\ Effect
  <1>1. Good(map) /\ Marked(map) \in SUBSET Rows /\ Found(map) \in SUBSET Rows
    BY RowsOfGood DEF IInv
  <1>2. ASSUME NEW m, Good(m), Becomes(m)
        PROVE  IInv' /\ map' = m
    BY <1>2 DEF Becomes, IInv
  <1>4. CASE \E S \in SUBSET Rows : \E m \in Inserted(map, S, "bookmark") : Becomes(m)
    <2>1. PICK S \in SUBSET Rows : \E m \in Inserted(map, S, "bookmark") : Becomes(m)
      BY <1>4
    <2>2. PICK m \in Inserted(map, S, "bookmark") : Becomes(m)
      BY <2>1
    <2>3. Good(m) /\ Marked(m) = Marked(map) \cup S /\ Found(m) = Found(map)
      BY <1>1, <2>2, BookmarkInserted
    <2> QED
      BY <1>1, <1>2, <2>2, <2>3 DEF Effect
  <1>5. CASE \E r \in Rows : RemoveBookmark(r)
    <2>1. PICK r \in Rows : RemoveBookmark(r)
      BY <1>5
    <2>2. PICK m \in Excluded(map, {r}, "bookmark") : Becomes(m)
      BY <2>1 DEF RemoveBookmark
    <2>3. Good(m) /\ Marked(m) = Marked(map) \ {r} /\ Found(m) = Found(map)
      BY <1>1, <2>2, BookmarkExcluded
    <2> QED
      BY <1>2, <2>2, <2>3 DEF Effect
  <1>6. ASSUME NEW m \in Cleaned(map, "search")
        PROVE  Good(m) /\ Marked(m) = Marked(map)
    BY <1>1, SearchCleaned
  <1>7. ASSUME NEW m, Good(m), Marked(m) = Marked(map), Becomes(m)
        PROVE  IInv' /\ Effect
    BY <1>2, <1>7, RowsOfGood DEF Effect
  <1>8. ASSUME NEW m, Good(m), Marked(m) = Marked(map), NEW S \in SUBSET Rows,
               NEW n \in Inserted(m, S, "search")
        PROVE  Good(n) /\ Marked(n) = Marked(map)
    BY <1>8, SearchInserted
  <1>9. CASE \E S \in SUBSET Rows : SetSearchResults(S)
    <2>1. PICK S \in SUBSET Rows : SetSearchResults(S)
      BY <1>9
    <2>2. PICK m \in Cleaned(map, "search") : \E n \in Inserted(m, S, "search") : Becomes(n)
      BY <2>1 DEF SetSearchResults
    <2>3. PICK n \in Inserted(m, S, "search") : Becomes(n)
      BY <2>2
    <2> QED
      BY <2>3, <1>6, <1>7, <1>8
  <1>10. CASE \E S \in SUBSET Rows : AppendSearchResults(S)
    BY <1>10, <1>1, <1>7, <1>8 DEF AppendSearchResults
  <1>11. CASE DropSearch
    BY <1>11, <1>6, <1>7 DEF DropSearch
  <1>12. CASE \E len \in {0, 1} : SetStreamLen(len)
    <2>1. CASE Becomes(map)
      BY <2>1, <1>1, <1>7
    <2>2. CASE Becomes([indexes |-> [r \in {} |-> {}], keys |-> <<>>, sorted |-> map.sorted])
      <3> DEFINE flag == map.sorted
                 m == [indexes |-> [r \in {} |-> {}], keys |-> <<>>, sorted |-> flag]
      <3>1. m = [indexes |-> [r \in {} |-> {}], keys |-> <<>>, sorted |-> flag]
        OBVIOUS
      <3>2. flag \in BOOLEAN
        BY <1>1 DEF Good, Shaped
      <3> HIDE DEF m, flag
      <3>3. Shown(m) = {} /\ Found(m) = {} /\ Marked(m) = {}
        BY <3>1 DEF Shown, Found, Marked, With
      <3>4. m.keys \in Orders[{}] /\ Increasing(m.keys)
        BY <3>1, FS_EmptySet DEF Orders, ValuesOf, Distinct, Increasing
      <3>5. Good(m)
        BY <3>1, <3>2, <3>3, <3>4 DEF Good, Shaped
      <3>6. Becomes(m)
        BY <2>2 DEF m, flag
      <3> QED
        BY <1>2, <3>3, <3>5, <3>6 DEF Effect
    <2> QED
      BY <1>12, <2>1, <2>2 DEF SetStreamLen
  <1>13. ASSUME NEW r \in Rows, AddBookmark(r)
         PROVE  \E S \in SUBSET Rows : \E m \in Inserted(map, S, "bookmark") : Becomes(m)
    <2>1. {r} \in SUBSET Rows
      OBVIOUS
    <2> QED
      BY <1>13, <2>1 DEF AddBookmark
  <1>14. ASSUME NEW S \in SUBSET Rows, SetBookmarks(S)
         PROVE  \E T \in SUBSET Rows : \E m \in Inserted(map, T, "bookmark") : Becomes(m)
    BY <1>14 DEF SetBookmarks
  <1> QED
    BY <1>4, <1>5, <1>9, <1>10, <1>11, <1>12, <1>13, <1>14 DEF Changes

\* A question may sort the keys, and changes nothing else.
LEMMA QuestionsAreGood ==
    ASSUME IInv, Questions \/ Replied \/ UNCHANGED vars
    PROVE  IInv' /\ map'.indexes = map.indexes /\ told' = told
  <1>1. Good(map)
    BY DEF IInv
  <1>2. CASE UNCHANGED <<map, told>>
    BY <1>2 DEF IInv, Good, Shaped
  <1>3. CASE \E m \in Sorted(map) : map' = m /\ told' = told
    <2>1. PICK m \in Sorted(map) : map' = m /\ told' = told
      BY <1>3
    <2>2. Good(m) /\ m.indexes = map.indexes
      BY <1>1, SortedIsGood
    <2> QED
      BY <2>1, <2>2 DEF IInv, Shown
  <1>4. ASSUME NEW r PROVE Asks(map, r) => UNCHANGED <<map, told>>
    BY DEF Asks
  <1>5. ASSUME NEW m, NEW r PROVE Asks(m, r) => map' = m /\ told' = told
    BY DEF Asks
  <1>6. Questions => UNCHANGED <<map, told>> \/ \E m \in Sorted(map) : map' = m /\ told' = told
    BY <1>4, <1>5 DEF Questions, IndexedRowIndex, NearestIndexedRow, IndexedNeighbor, Frame,
                      GetIndexedRanges
  <1> QED
    BY <1>2, <1>3, <1>6 DEF Replied, vars

-----------------------------------------------------------------------------
(* Theorems.                                                                *)

\* Every reachable map is good and its size has been announced.
THEOREM Invariance == Spec => []IInv
  <1>1. Init => IInv
    BY InitIsGood
  <1>2. IInv /\ [Next]_vars => IInv'
    BY ChangesAreGood, QuestionsAreGood DEF Next
  <1> QED
    BY <1>1, <1>2, PTL DEF Spec

\* The vector of keys and the hash map agree, the flag tells the truth, and no
\* row stays without a nature, after any sequence of operations.
THEOREM Consistency == Spec => []MapIsConsistent
  <1>1. IInv => MapIsConsistent
    BY OrderOf DEF IInv, Good, Shaped, MapIsConsistent, KeysAreRows, FlagIsTrue, NoRowWithoutNature
  <1> QED
    BY <1>1, Invariance, PTL

\* The types, and with them that there are never more keys than rows.
THEOREM TypeCorrect == Spec => []TypeOK
  <1>1. IInv => TypeOK
    <2> SUFFICES ASSUME IInv PROVE TypeOK
      OBVIOUS
    <2>1. Shown(map) \in SUBSET Rows
      BY DEF IInv, Good, Shaped
    <2>2. /\ map.keys \in [1 .. Cardinality(Shown(map)) -> Rows]
          /\ Cardinality(Shown(map)) \in 0 .. Cardinality(Rows)
      <3>1. map.keys \in [1 .. Cardinality(Shown(map)) -> Shown(map)]
        BY <2>1, OrderOf DEF IInv, Good, Shaped
      <3>2. Cardinality(Rows) \in Nat
        BY RowsAreFinite, FS_CardinalityType
      <3> QED
        BY <2>1, <3>1, <3>2, SubsetsAreFinite
    <2> QED
      BY <2>1, <2>2 DEF IInv, Good, Shaped, TypeOK
  <1> QED
    BY <1>1, Invariance, PTL

\* The index implements the table of found and marked rows: a search never
\* costs a bookmark and a bookmark never a match.
THEOREM Implementation == Spec => IsTheTable
  <1>1. Init => Table!Init
    BY FS_EmptySet DEF Init, Table!Init, With, Shown
  <1>2. ASSUME IInv, [Next]_vars
        PROVE  [Table!Next]_(Table!vars)
    <2>1. CASE Questions \/ Replied \/ UNCHANGED vars
      <3>1. map'.indexes = map.indexes /\ told' = told
        BY <1>2, <2>1, QuestionsAreGood
      <3> QED
        BY <3>1 DEF Table!vars, With, Shown
    <2>2. CASE Changes
      <3>1. IInv' /\ Effect
        BY <1>2, <2>2, ChangesAreGood
      <3>2. told' = Cardinality(Found(map') \cup Marked(map'))
        BY <3>1, ShownIsUnion DEF IInv, Found, Marked
      <3> QED
        BY <3>1, <3>2 DEF Effect, Found, Marked, Table!Next, Table!Search, Table!Mark,
                          Table!Unmark, Table!Empties, Table!Tells
    <2> QED
      BY <1>2, <2>1, <2>2 DEF Next
  <1> QED
    BY <1>1, <1>2, Invariance, PTL DEF Spec, IsTheTable, Table!Spec

-----------------------------------------------------------------------------
(* Positions.                                                               *)

\* A set of positions that has with each the ones before it is as long as it
\* has members.
LEMMA InitialPositions ==
    ASSUME NEW n \in Nat, NEW T \in SUBSET (1 .. n),
           \A i \in T : \A j \in 1 .. i : j \in T
    PROVE  /\ Cardinality(T) \in 0 .. n
           /\ T = 1 .. Cardinality(T)
  <1>1. IsFiniteSet(1 .. n) /\ Cardinality(1 .. n) = n
    BY FS_Interval
  <1>2. /\ IsFiniteSet(T) /\ Cardinality(T) <= n /\ Cardinality(T) \in Nat
    <2>1. T \in SUBSET (1 .. n)
      OBVIOUS
    <2>2. IsFiniteSet(T) /\ Cardinality(T) <= Cardinality(1 .. n)
      BY <1>1, <2>1, FS_Subset
    <2> QED
      BY <1>1, <2>2, FS_CardinalityType
  <1> DEFINE c == Cardinality(T)
  <1>3. IsFiniteSet(1 .. c) /\ Cardinality(1 .. c) = c
    BY <1>2, FS_Interval
  <1>4. T \subseteq 1 .. c
    <2> SUFFICES ASSUME NEW i \in T PROVE i <= c
      BY <1>2
    <2>1. (1 .. i) \in SUBSET T
      OBVIOUS
    <2>2. Cardinality(1 .. i) = i
      BY FS_Interval
    <2> QED
      BY <1>2, <2>1, <2>2, FS_Subset
  <1>5. T = 1 .. c
    <2>1. T \in SUBSET (1 .. c) /\ Cardinality(1 .. c) = Cardinality(T)
      BY <1>3, <1>4
    <2> HIDE DEF c
    <2> QED
      BY <1>3, <2>1, FS_Subset
  <1> QED
    BY <1>2, <1>5

\* An order of some rows as a function on its positions.
LEMMA OrderTypes ==
    ASSUME NEW S \in SUBSET Rows, NEW q \in Orders[S]
    PROVE  /\ q \in [1 .. Len(q) -> S] /\ Len(q) \in Nat
           /\ DOMAIN q = 1 .. Len(q)
           /\ ValuesOf(q) = S /\ Distinct(q) /\ S \subseteq Nat
  <1>1. /\ q \in [1 .. Cardinality(S) -> S] /\ Len(q) = Cardinality(S)
        /\ ValuesOf(q) = S /\ Distinct(q)
    BY OrderOf
  <1>2. Cardinality(S) \in Nat
    BY SubsetsAreFinite
  <1>3. S \subseteq Nat
    BY RowsAreFinite
  <1> QED
    BY <1>1, <1>2, <1>3

\* What a binary search finds in sorted keys: they split at the row, and the
\* number of keys below it is the number of rows below it.
LEMMA SplitAt ==
    ASSUME NEW S \in SUBSET Rows, NEW q \in Orders[S], Increasing(q), NEW p \in Nat
    PROVE  /\ Below(q, p) \in 0 .. Len(q)
           /\ \A i \in 1 .. Len(q) : q[i] < p <=> i <= Below(q, p)
           /\ Below(q, p) = Cardinality(Lower(S, p))
  <1> DEFINE n == Len(q)
             T == {i \in 1 .. n : q[i] < p}
             c == Cardinality(T)
  <1>1. /\ q \in [1 .. n -> S] /\ n \in Nat /\ DOMAIN q = 1 .. n
        /\ ValuesOf(q) = S /\ Distinct(q) /\ S \subseteq Nat
    BY OrderTypes
  <1>2. Below(q, p) = c
    BY <1>1 DEF Below
  <1> HIDE DEF n
  <1>3. \A i \in T : \A j \in 1 .. i : j \in T
    <2> SUFFICES ASSUME NEW i \in T, NEW j \in 1 .. i PROVE j \in T
      OBVIOUS
    <2>1. i \in 1 .. n /\ q[i] < p
      OBVIOUS
    <2>2. j \in 1 .. n
      BY <1>1, <2>1
    <2>3. q[i] \in Nat /\ q[j] \in Nat
      BY <1>1, <2>1, <2>2
    <2>4. j = i \/ q[j] < q[i]
      BY <1>1, <2>1, <2>2 DEF Increasing
    <2> QED
      BY <2>1, <2>2, <2>3, <2>4
  <1>4. c \in 0 .. n /\ T = 1 .. c
    <2>1. T \in SUBSET (1 .. n)
      OBVIOUS
    <2> HIDE DEF T
    <2> QED
      BY <1>1, <1>3, <2>1, InitialPositions
  <1>5. \A i \in 1 .. n : q[i] < p <=> i <= c
    <2>1. \A i \in 1 .. n : i \in T <=> i <= c
      BY <1>4
    <2> QED
      BY <2>1
  <1>6. c = Cardinality(Lower(S, p))
    <2> DEFINE f == [i \in T |-> q[i]]
    <2>1. f \in [T -> Lower(S, p)]
      BY <1>1 DEF Lower
    <2>2. \A r \in Lower(S, p) : \E i \in T : f[i] = r
      <3> SUFFICES ASSUME NEW r \in Lower(S, p) PROVE \E i \in T : f[i] = r
        OBVIOUS
      <3>1. PICK i \in 1 .. n : q[i] = r
        BY <1>1 DEF ValuesOf, Lower
      <3> QED
        BY <3>1 DEF Lower
    <2>3. \A i, j \in T : f[i] = f[j] => i = j
      BY <1>1 DEF Distinct
    <2>4. f \in Bijection(T, Lower(S, p))
      BY <2>1, <2>2, <2>3 DEF Bijection, Injection, IsInjective, Surjection
    <2>5. IsFiniteSet(T)
      <3>1. T \in SUBSET (1 .. n) /\ IsFiniteSet(1 .. n)
        BY <1>1, FS_Interval
      <3> HIDE DEF T
      <3> QED
        BY <3>1, FS_Subset
    <2> QED
      BY <2>4, <2>5, FS_Bijection DEF ExistsBijection
  <1> QED
    BY <1>2, <1>4, <1>5, <1>6 DEF n

-----------------------------------------------------------------------------
(* Answers.  q is the vector of keys, sorted, and S the rows it holds.      *)

\* The key at a position has as many rows below it as there are positions
\* before it.
LEMMA RankOfKey ==
    ASSUME NEW S \in SUBSET Rows, NEW q \in Orders[S], Increasing(q), NEW i \in 1 .. Len(q)
    PROVE  q[i] \in S /\ Cardinality(Lower(S, q[i])) = i - 1
  <1>1. q \in [1 .. Len(q) -> S] /\ Len(q) \in Nat /\ S \subseteq Nat /\ DOMAIN q = 1 .. Len(q)
    BY OrderTypes
  <1> DEFINE p == q[i]
             c == Below(q, p)
  <1>2. p \in S /\ p \in Nat
    BY <1>1
  <1>3. /\ c \in 0 .. Len(q) /\ c = Cardinality(Lower(S, p))
        /\ \A j \in 1 .. Len(q) : q[j] < p <=> j <= c
    BY <1>2, SplitAt
  <1>4. \A j \in 1 .. Len(q) : j < i <=> q[j] < p
    <2> SUFFICES ASSUME NEW j \in 1 .. Len(q) PROVE j < i <=> q[j] < p
      OBVIOUS
    <2>1. q[j] \in Nat
      BY <1>1
    <2>2. (j < i => q[j] < p) /\ (i < j => p < q[j])
      BY <1>1 DEF Increasing
    <2> QED
      BY <1>1, <1>2, <2>1, <2>2
  <1> HIDE DEF c, p
  <1>5. ~(i <= c)
    BY <1>3, <1>4
  <1>6. i > 1 => i - 1 <= c
    BY <1>1, <1>3, <1>4
  <1> QED
    BY <1>1, <1>2, <1>3, <1>5, <1>6 DEF p

\* Where the keys begin and end.
LEMMA EndsOfKeys ==
    ASSUME NEW S \in SUBSET Rows, NEW q \in Orders[S], Increasing(q), S # {}
    PROVE  /\ Len(q) \in Nat \ {0} /\ q[1] \in S /\ q[Len(q)] \in S
           /\ \A x \in S : q[1] <= x /\ x <= q[Len(q)]
  <1>1. /\ q \in [1 .. Len(q) -> S] /\ Len(q) \in Nat /\ S \subseteq Nat /\ DOMAIN q = 1 .. Len(q)
        /\ ValuesOf(q) = S
    BY OrderTypes
  <1>2. ASSUME NEW x \in S PROVE \E i \in 1 .. Len(q) : q[i] = x
    BY <1>1 DEF ValuesOf
  <1>3. Len(q) \in Nat \ {0} /\ q[1] \in S /\ q[Len(q)] \in S
    <2>1. PICK x \in S : TRUE
      OBVIOUS
    <2>2. PICK i \in 1 .. Len(q) : q[i] = x
      BY <1>2
    <2>3. Len(q) \in Nat \ {0} /\ 1 \in 1 .. Len(q) /\ Len(q) \in 1 .. Len(q)
      BY <1>1, <2>2
    <2> QED
      BY <1>1, <2>3
  <1>4. ASSUME NEW x \in S PROVE q[1] <= x /\ x <= q[Len(q)]
    <2>1. PICK i \in 1 .. Len(q) : q[i] = x
      BY <1>2
    <2>2. (1 < i => q[1] < q[i]) /\ (i < Len(q) => q[i] < q[Len(q)])
      BY <1>1, <1>3 DEF Increasing
    <2>3. (1 = i \/ 1 < i) /\ (i = Len(q) \/ i < Len(q))
      <3> DEFINE n == Len(q)
      <3>1. n \in Nat /\ i \in 1 .. n
        BY <1>1
      <3> HIDE DEF n
      <3>2. i \in Int /\ 1 <= i /\ i <= n
        BY <3>1
      <3>3. (1 = i \/ 1 < i) /\ (i = n \/ i < n)
        BY <3>1, <3>2
      <3> QED
        BY <3>3 DEF n
    <2>4. q[1] \in Nat /\ q[i] \in Nat /\ q[Len(q)] \in Nat
      BY <1>1, <1>3
    <2>5. q[1] <= q[i]
      BY <2>2, <2>3, <2>4
    <2>6. q[i] <= q[Len(q)]
      BY <2>2, <2>3, <2>4
    <2> QED
      BY <2>1, <2>5, <2>6
  <1> QED
    BY <1>3, <1>4

\* Two neighbours in the keys have no row between them.
LEMMA NothingBetween ==
    ASSUME NEW S \in SUBSET Rows, NEW q \in Orders[S], Increasing(q),
           NEW i \in 1 .. Len(q), i < Len(q)
    PROVE  \A x \in S : x <= q[i] \/ q[i + 1] <= x
  <1>1. /\ q \in [1 .. Len(q) -> S] /\ Len(q) \in Nat /\ S \subseteq Nat /\ DOMAIN q = 1 .. Len(q)
        /\ ValuesOf(q) = S
    BY OrderTypes
  <1> SUFFICES ASSUME NEW x \in S PROVE x <= q[i] \/ q[i + 1] <= x
    OBVIOUS
  <1>2. PICK j \in 1 .. Len(q) : q[j] = x
    BY <1>1 DEF ValuesOf
  <1>3. i + 1 \in 1 .. Len(q)
    BY <1>1
  <1>4. q[i] \in Nat /\ q[j] \in Nat /\ q[i + 1] \in Nat
    BY <1>1, <1>3
  <1>5. (j < i => q[j] < q[i]) /\ (i + 1 < j => q[i + 1] < q[j])
    BY <1>1, <1>3 DEF Increasing
  <1> QED
    BY <1>1, <1>2, <1>3, <1>4, <1>5

\* The least and the greatest of a set are what they are called.
LEMMA LeastIs ==
    ASSUME NEW S \in SUBSET Nat, NEW r \in S, \A x \in S : r <= x
    PROVE  Least(S) = r
  <1>1. \A y \in S : (\A x \in S : y <= x) => y = r
    OBVIOUS
  <1> QED
    BY <1>1 DEF Least

LEMMA GreatestIs ==
    ASSUME NEW S \in SUBSET Nat, NEW r \in S, \A x \in S : r >= x
    PROVE  Greatest(S) = r
  <1>1. \A y \in S : (\A x \in S : y >= x) => y = r
    OBVIOUS
  <1> QED
    BY <1>1 DEF Greatest

\* The index of a row.
LEMMA IndexIsRight ==
    ASSUME NEW S \in SUBSET Rows, NEW q \in Orders[S], Increasing(q), NEW p \in Rows
    PROVE  IndexOf(q, p) = IF p \in S THEN Cardinality(Lower(S, p)) ELSE None
  BY SplitAt, OrderOf, RowsAreFinite DEF IndexOf, Holds

\* The index of the nearest row, the lower one of two.
LEMMA NearestIsRight ==
    ASSUME NEW S \in SUBSET Rows, NEW q \in Orders[S], Increasing(q), NEW p \in Rows
    PROVE  IF S = {} THEN Nearest(q, p) = None
           ELSE \E r \in S :
                  /\ Nearest(q, p) = Cardinality(Lower(S, r))
                  /\ \A x \in S : \/ Distance(r, p) < Distance(x, p)
                                  \/ Distance(r, p) = Distance(x, p) /\ r <= x
  <1>1. /\ q \in [1 .. Len(q) -> S] /\ q \in Seq(S) /\ Len(q) \in Nat
        /\ S \subseteq Nat /\ DOMAIN q = 1 .. Len(q) /\ ValuesOf(q) = S /\ p \in Nat
        /\ Len(q) = Cardinality(S)
    <2>1. q \in Seq(S) /\ Len(q) = Cardinality(S)
      BY OrderOf
    <2>2. /\ q \in [1 .. Len(q) -> S] /\ Len(q) \in Nat
          /\ S \subseteq Nat /\ DOMAIN q = 1 .. Len(q) /\ ValuesOf(q) = S
      BY OrderTypes
    <2> QED
      BY <2>1, <2>2, RowsAreFinite
  <1>2. CASE S = {}
    <2>1. q = <<>>
      BY <1>1, <1>2, FS_EmptySet
    <2> QED
      BY <1>2, <2>1 DEF Nearest
  <1>3. CASE S # {}
    <2> DEFINE i == Below(q, p)
    <2>1. /\ i \in 0 .. Len(q) /\ i = Cardinality(Lower(S, p))
          /\ \A j \in 1 .. Len(q) : q[j] < p <=> j <= i
      BY <1>1, SplitAt
    <2>2. /\ Len(q) \in Nat \ {0} /\ q[1] \in S /\ q[Len(q)] \in S
          /\ \A x \in S : q[1] <= x /\ x <= q[Len(q)]
      BY <1>3, EndsOfKeys
    <2>3. q # <<>>
      BY <2>2
    <2>4. \A j \in 1 .. Len(q) : q[j] \in S /\ Cardinality(Lower(S, q[j])) = j - 1
      BY RankOfKey
    <2>5. SUFFICES \E r \in S :
                  /\ Nearest(q, p) = Cardinality(Lower(S, r))
                  /\ \A x \in S : \/ Distance(r, p) < Distance(x, p)
                                  \/ Distance(r, p) = Distance(x, p) /\ r <= x
      BY <1>3
    <2>6. CASE p \in S
      <3>1. Nearest(q, p) = Cardinality(Lower(S, p))
        BY <1>1, <2>1, <2>3, <2>6 DEF Nearest, Holds
      <3>2. \A x \in S : \/ Distance(p, p) < Distance(x, p)
                         \/ Distance(p, p) = Distance(x, p) /\ p <= x
        BY <1>1 DEF Distance
      <3> QED
        BY <2>6, <3>1, <3>2
    <2>7. CASE p \notin S /\ i = 0
      <3>1. Nearest(q, p) = 0
        BY <2>3, <2>7 DEF Nearest
      <3>2. Cardinality(Lower(S, q[1])) = 0
        BY <2>2, <2>4
      <3> DEFINE a == q[1]
      <3>3. a \in S /\ a \in Nat /\ ~(a < p) /\ \A x \in S : a <= x
        <4>1. 1 \in 1 .. Len(q) /\ ~(1 <= i)
          BY <2>2, <2>7
        <4> QED
          BY <1>1, <2>1, <2>2, <4>1
      <3>4. \A x \in S : \/ Distance(a, p) < Distance(x, p)
                         \/ Distance(a, p) = Distance(x, p) /\ a <= x
        <4> HIDE DEF a
        <4> SUFFICES ASSUME NEW x \in S
                     PROVE  \/ Distance(a, p) < Distance(x, p)
                            \/ Distance(a, p) = Distance(x, p) /\ a <= x
          OBVIOUS
        <4>1. x \in Nat /\ a <= x
          BY <1>1, <3>3
        <4> QED
          BY <1>1, <3>3, <4>1 DEF Distance
      <3> QED
        BY <2>2, <3>1, <3>2, <3>4
    <2>8. CASE p \notin S /\ i # 0 /\ i = Len(q)
      <3>1. Nearest(q, p) = i - 1
        BY <1>1, <2>3, <2>8 DEF Nearest, Holds
      <3>2. Cardinality(Lower(S, q[Len(q)])) = i - 1
        BY <2>2, <2>4, <2>8
      <3> DEFINE a == q[Len(q)]
      <3>3. a \in S /\ a \in Nat /\ a < p /\ \A x \in S : x <= a
        <4>1. Len(q) \in 1 .. Len(q) /\ Len(q) <= i
          BY <2>2, <2>8
        <4> QED
          BY <1>1, <2>1, <2>2, <4>1
      <3>4. \A x \in S : \/ Distance(a, p) < Distance(x, p)
                         \/ Distance(a, p) = Distance(x, p) /\ a <= x
        <4> HIDE DEF a
        <4> SUFFICES ASSUME NEW x \in S
                     PROVE  \/ Distance(a, p) < Distance(x, p)
                            \/ Distance(a, p) = Distance(x, p) /\ a <= x
          OBVIOUS
        <4>1. x \in Nat /\ x <= a
          BY <1>1, <3>3
        <4> QED
          BY <1>1, <3>3, <4>1 DEF Distance
      <3> QED
        BY <2>2, <3>1, <3>2, <3>4
    <2>9. CASE p \notin S /\ i # 0 /\ i # Len(q)
      <3>1. i \in 1 .. Len(q) /\ i + 1 \in 1 .. Len(q)
        BY <2>1, <2>9
      <3>2. Nearest(q, p) = IF p - q[i] <= q[i + 1] - p THEN i - 1 ELSE i
        BY <1>1, <2>3, <2>9 DEF Nearest, Holds
      <3>3. /\ q[i] \in S /\ Cardinality(Lower(S, q[i])) = i - 1
            /\ q[i + 1] \in S /\ Cardinality(Lower(S, q[i + 1])) = i
        BY <2>1, <2>4, <3>1
      <3>4. \A x \in S : x <= q[i] \/ q[i + 1] <= x
        BY <2>1, <2>9, <3>1, NothingBetween
      <3>5. q[i] < p /\ p < q[i + 1]
        <4>1. q[i] < p /\ ~(q[i + 1] < p)
          BY <2>1, <3>1
        <4>2. q[i + 1] # p /\ q[i + 1] \in Nat
          BY <1>1, <2>9, <3>3
        <4> QED
          BY <1>1, <4>1, <4>2
      <3> DEFINE a == q[i]
                 b == q[i + 1]
      <3>6. a \in S /\ b \in S /\ a \in Nat /\ b \in Nat /\ a < p /\ p < b
            /\ \A x \in S : x <= a \/ b <= x
        BY <1>1, <3>3, <3>4, <3>5
      <3>7. CASE p - a <= b - p
        <4>1. \A x \in S : \/ Distance(a, p) < Distance(x, p)
                           \/ Distance(a, p) = Distance(x, p) /\ a <= x
          <5> HIDE DEF a, b
          <5> QED
            BY <1>1, <3>6, <3>7 DEF Distance
        <4> QED
          BY <3>2, <3>3, <3>7, <4>1
      <3>8. CASE ~(p - a <= b - p)
        <4>1. \A x \in S : \/ Distance(b, p) < Distance(x, p)
                           \/ Distance(b, p) = Distance(x, p) /\ b <= x
          <5> HIDE DEF a, b
          <5> QED
            BY <1>1, <3>6, <3>8 DEF Distance
        <4> QED
          BY <3>2, <3>3, <3>8, <4>1
      <3> QED
        BY <3>7, <3>8
    <2> QED
      BY <2>6, <2>7, <2>8, <2>9
  <1> QED
    BY <1>2, <1>3

\* The neighbour of a row: the next or the previous one, or the other end.
LEMMA NeighborIsRight ==
    ASSUME NEW S \in SUBSET Rows, NEW q \in Orders[S], Increasing(q), S # {},
           NEW anchor \in Rows \cup {None}, NEW direction \in Directions
    PROVE  LET above == {r \in S : r > anchor}
               lower == Lower(S, anchor)
           IN  Neighbor(q, anchor, direction) =
                 IF anchor = None THEN Least(S)
                 ELSE IF direction = "next" THEN Least(IF above = {} THEN S ELSE above)
                 ELSE Greatest(IF lower = {} THEN S ELSE lower)
  <1> DEFINE above == {r \in S : r > anchor}
             lower == Lower(S, anchor)
  <1>1. /\ q \in [1 .. Len(q) -> S] /\ Len(q) \in Nat
        /\ S \subseteq Nat /\ DOMAIN q = 1 .. Len(q) /\ ValuesOf(q) = S
    BY OrderTypes
  <1>2. /\ Len(q) \in Nat \ {0} /\ q[1] \in S /\ q[Len(q)] \in S
        /\ \A x \in S : q[1] <= x /\ x <= q[Len(q)]
    BY EndsOfKeys
  <1>3. Least(S) = q[1] /\ Greatest(S) = q[Len(q)]
    <2>1. \A x \in S : q[Len(q)] >= x
      BY <1>1, <1>2
    <2> QED
      BY <1>1, <1>2, <2>1, LeastIs, GreatestIs
  <1>4. CASE anchor = None
    BY <1>3, <1>4 DEF Neighbor
  <1>5. CASE anchor # None
    <2> DEFINE below == Below(q, anchor)
               next == IF anchor \in S THEN below + 1 ELSE below
    <2>1. anchor \in Nat
      BY <1>5, RowsAreFinite
    <2>2. /\ below \in 0 .. Len(q)
          /\ \A j \in 1 .. Len(q) : q[j] < anchor <=> j <= below
      BY <2>1, SplitAt
    <2>3. Neighbor(q, anchor, direction) =
            IF direction = "next" THEN IF next < Len(q) THEN q[next + 1] ELSE q[1]
            ELSE IF below > 0 THEN q[below] ELSE q[Len(q)]
      BY <1>1, <1>5 DEF Neighbor, Holds
    <2> HIDE DEF below
    <2>4. \A j \in 1 .. Len(q) : q[j] > anchor <=> j > next
      <3>1. CASE anchor \in S
        <4>1. PICK k \in 1 .. Len(q) : q[k] = anchor
          BY <1>1, <3>1 DEF ValuesOf
        <4>2. \A j \in 1 .. Len(q) :
                /\ q[j] \in Nat /\ (j < k => q[j] < q[k]) /\ (k < j => q[k] < q[j])
          BY <1>1 DEF Increasing
        <4>3. k = below + 1
          <5>1. ~(k <= below)
            BY <2>1, <2>2, <4>1
          <5>2. k > 1 => k - 1 <= below
            <6> SUFFICES ASSUME k > 1 PROVE k - 1 <= below
              OBVIOUS
            <6>1. k - 1 \in 1 .. Len(q)
              BY <1>1, <4>1
            <6>2. q[k - 1] < anchor
              BY <4>1, <4>2, <6>1
            <6> QED
              BY <2>2, <6>1, <6>2
          <5> QED
            BY <1>1, <2>2, <4>1, <5>1, <5>2
        <4> SUFFICES ASSUME NEW j \in 1 .. Len(q) PROVE q[j] > anchor <=> j > next
          OBVIOUS
        <4>4. q[j] \in Nat /\ (j < k => q[j] < anchor) /\ (k < j => anchor < q[j])
          BY <4>1, <4>2
        <4>5. next = k
          BY <3>1, <4>3
        <4> HIDE DEF next
        <4>6. j < k \/ j = k \/ k < j
          BY <1>1, <4>1
        <4>7. CASE j < k
          BY <1>1, <2>1, <4>1, <4>4, <4>5, <4>7
        <4>8. CASE j = k
          BY <1>1, <2>1, <4>1, <4>5, <4>8
        <4>9. CASE k < j
          BY <1>1, <2>1, <4>1, <4>4, <4>5, <4>9
        <4> QED
          BY <4>6, <4>7, <4>8, <4>9
      <3>2. CASE anchor \notin S
        <4> SUFFICES ASSUME NEW j \in 1 .. Len(q) PROVE q[j] > anchor <=> j > next
          OBVIOUS
        <4>1. next = below
          BY <3>2
        <4>2. q[j] \in S /\ q[j] \in Nat /\ q[j] # anchor
          BY <1>1, <3>2
        <4>3. q[j] < anchor <=> j <= below
          BY <2>2
        <4> QED
          BY <1>1, <2>1, <2>2, <4>1, <4>2, <4>3
      <3> QED
        BY <3>1, <3>2
    <2>5. next \in 0 .. Len(q)
      <3>1. CASE anchor \in S
        <4>1. PICK k \in 1 .. Len(q) : q[k] = anchor
          BY <1>1, <3>1 DEF ValuesOf
        <4>2. ~(k <= below)
          BY <2>1, <2>2, <4>1
        <4> QED
          BY <1>1, <2>2, <3>1, <4>1, <4>2
      <3> QED
        BY <2>2, <3>1
    <2> HIDE DEF next
    <2>6. CASE direction = "next"
      <3>1. CASE next < Len(q)
        <4> DEFINE r == q[next + 1]
        <4>1. next + 1 \in 1 .. Len(q)
          BY <1>1, <2>5, <3>1
        <4>2. r \in S /\ r > anchor
          BY <1>1, <2>4, <2>5, <4>1
        <4>3. \A x \in above : r <= x
          <5> SUFFICES ASSUME NEW x \in above PROVE r <= x
            OBVIOUS
          <5>1. PICK j \in 1 .. Len(q) : q[j] = x
            BY <1>1 DEF ValuesOf
          <5>2. j > next
            BY <2>4, <5>1
          <5>3. next + 1 = j \/ next + 1 < j
            BY <1>1, <2>5, <5>1, <5>2
          <5>4. q[j] \in Nat /\ q[next + 1] \in Nat
            BY <1>1, <4>1, <5>1
          <5>5. next + 1 < j => q[next + 1] < q[j]
            BY <1>1, <4>1, <5>1 DEF Increasing
          <5> QED
            BY <5>1, <5>3, <5>4, <5>5
        <4>4. above # {} /\ Least(above) = r
          <5>1. r \in above /\ above \in SUBSET Nat
            BY <1>1, <4>2
          <5> HIDE DEF r, above
          <5> QED
            BY <4>3, <5>1, LeastIs
        <4> QED
          BY <1>5, <2>3, <2>6, <3>1, <4>4
      <3>2. CASE ~(next < Len(q))
        <4>1. above = {}
          <5> SUFFICES ASSUME NEW x \in above PROVE FALSE
            OBVIOUS
          <5>1. PICK j \in 1 .. Len(q) : q[j] = x
            BY <1>1 DEF ValuesOf
          <5>2. j > next
            BY <2>4, <5>1
          <5> QED
            BY <1>1, <2>5, <3>2, <5>1, <5>2
        <4> QED
          BY <1>3, <1>5, <2>3, <2>6, <3>2, <4>1
      <3> QED
        BY <3>1, <3>2
    <2>7. CASE direction # "next"
      <3>1. CASE below > 0
        <4> DEFINE r == q[below]
        <4>1. below \in 1 .. Len(q)
          BY <1>1, <2>2, <3>1
        <4>2. r \in S /\ r < anchor
          BY <1>1, <2>2, <4>1
        <4>3. \A x \in lower : r >= x
          <5> SUFFICES ASSUME NEW x \in lower PROVE r >= x
            OBVIOUS
          <5>0. x \in S /\ x < anchor
            BY DEF Lower
          <5>1. PICK j \in 1 .. Len(q) : q[j] = x
            BY <1>1, <5>0 DEF ValuesOf
          <5>2. j <= below
            BY <2>2, <5>0, <5>1
          <5>3. j = below \/ j < below
            BY <1>1, <4>1, <5>1, <5>2
          <5>4. q[j] \in Nat /\ q[below] \in Nat
            BY <1>1, <4>1, <5>1
          <5>5. j < below => q[j] < q[below]
            BY <1>1, <4>1, <5>1 DEF Increasing
          <5> QED
            BY <5>1, <5>3, <5>4, <5>5
        <4>4. lower # {} /\ Greatest(lower) = r
          <5>1. r \in lower /\ lower \in SUBSET Nat
            BY <1>1, <4>2 DEF Lower
          <5> HIDE DEF r, lower
          <5> QED
            BY <4>3, <5>1, GreatestIs
        <4> QED
          BY <1>5, <2>3, <2>7, <3>1, <4>4
      <3>2. CASE ~(below > 0)
        <4>1. lower = {}
          <5> SUFFICES ASSUME NEW x \in lower PROVE FALSE
            OBVIOUS
          <5>0. x \in S /\ x < anchor
            BY DEF Lower
          <5>1. PICK j \in 1 .. Len(q) : q[j] = x
            BY <1>1, <5>0 DEF ValuesOf
          <5>2. j <= below
            BY <2>2, <5>0, <5>1
          <5> QED
            BY <1>1, <2>2, <3>2, <5>1, <5>2
        <4> QED
          BY <1>3, <1>5, <2>3, <2>7, <3>2, <4>1
      <3> QED
        BY <3>1, <3>2
    <2> QED
      BY <2>6, <2>7
  <1> QED
    BY <1>4, <1>5

\* Once sorted, the keys of a good map are an increasing order of its rows.
LEMMA SortedKeys ==
    ASSUME NEW m, Good(m), NEW n \in Sorted(m)
    PROVE  /\ Shown(n) = Shown(m) /\ n.indexes = m.indexes
           /\ Shown(m) \in SUBSET Rows
           /\ n.keys \in Orders[Shown(m)]
           /\ Increasing(n.keys)
  <1>1. Good(n) /\ n.indexes = m.indexes
    BY SortedIsGood
  <1>2. n.sorted
    <2>1. CASE m.sorted
      BY <2>1 DEF Sorted
    <2>2. CASE ~m.sorted
      <3>1. PICK s \in Sortings(m.keys) : n = [m EXCEPT !.keys = s, !.sorted = TRUE]
        BY <2>2 DEF Sorted
      <3>2. n = [indexes |-> m.indexes, keys |-> s, sorted |-> TRUE]
        BY <3>1 DEF Good, Shaped
      <3> QED
        BY <3>2
    <2> QED
      BY <2>1, <2>2
  <1> QED
    BY <1>1, <1>2 DEF Good, Shaped, Shown

\* Every question leaves a right answer about the map as it is then.
LEMMA QuestionsAreAnswered ==
    ASSUME IInv, Questions
    PROVE  AnswersAreRight'
  <1> DEFINE S == Shown(map)
  <1>1. Good(map) /\ S \in SUBSET Rows
    BY DEF IInv, Good, Shaped
  <1>2. ASSUME NEW p \in Rows, IndexedRowIndex(p)
        PROVE  AnswersAreRight'
    <2>1. PICK m \in Sorted(map) : Asks(m, [op |-> "index", row |-> p, got |-> IndexOf(m.keys, p)])
      BY <1>2 DEF IndexedRowIndex
    <2>2. /\ map' = m /\ Shown(m) = S
          /\ reply'.op = "index" /\ reply'.row = p
          /\ reply'.got = IF p \in S THEN Cardinality(Lower(S, p)) ELSE None
      BY <1>1, <2>1, SortedKeys, IndexIsRight DEF Asks
    <2>3. Shown(map)' = S
      BY <2>2 DEF Shown
    <2> QED
      BY <2>2, <2>3 DEF AnswersAreRight, Lower
  <1>3. ASSUME NEW p \in Rows, NearestIndexedRow(p)
        PROVE  AnswersAreRight'
    <2>1. PICK m \in Sorted(map) : Asks(m, [op |-> "nearest", row |-> p, got |-> Nearest(m.keys, p)])
      BY <1>3 DEF NearestIndexedRow
    <2>2. /\ map' = m /\ Shown(m) = S
          /\ reply'.op = "nearest" /\ reply'.row = p
          /\ reply'.got = Nearest(m.keys, p)
          /\ m.keys \in Orders[S] /\ Increasing(m.keys)
      BY <1>1, <2>1, SortedKeys DEF Asks
    <2>3. Shown(map)' = S
      BY <2>2 DEF Shown
    <2>4. IF S = {} THEN reply'.got = None
          ELSE \E r \in S :
                 /\ reply'.got = Cardinality(Lower(S, r))
                 /\ \A x \in S : \/ Distance(r, p) < Distance(x, p)
                                 \/ Distance(r, p) = Distance(x, p) /\ r <= x
      <3> HIDE DEF S
      <3> QED
        BY <1>1, <2>2, NearestIsRight
    <2> HIDE DEF S
    <2> QED
      BY <2>2, <2>3, <2>4 DEF AnswersAreRight, Lower, Distance
  <1>4. ASSUME NEW anchor \in Rows \cup {None}, NEW direction \in Directions,
               IndexedNeighbor(anchor, direction)
        PROVE  AnswersAreRight'
    <2> DEFINE above == {r \in S : r > anchor}
               lower == Lower(S, anchor)
               right == IF S = {} THEN None
                        ELSE IF anchor = None THEN Least(S)
                        ELSE IF direction = "next" THEN Least(IF above = {} THEN S ELSE above)
                        ELSE Greatest(IF lower = {} THEN S ELSE lower)
    <2>1. /\ Shown(map)' = S
          /\ reply'.op = "neighbor" /\ reply'.anchor = anchor /\ reply'.direction = direction
          /\ reply'.got = right
      <3>1. map.keys = <<>> <=> S = {}
        <4>1. map.keys \in Seq(S) /\ Len(map.keys) = Cardinality(S) /\ ValuesOf(map.keys) = S
          BY <1>1, OrderOf DEF Good, Shaped
        <4>2. IsFiniteSet(S)
          BY <1>1, SubsetsAreFinite
        <4>3. map.keys = <<>> => S = {}
          BY <4>1 DEF ValuesOf
        <4> HIDE DEF S
        <4>4. S = {} => Len(map.keys) = 0
          BY <4>1, <4>2, FS_EmptySet
        <4> QED
          BY <4>1, <4>3, <4>4
      <3>2. CASE S = {}
        <4>1. Asks(map, [op |-> "neighbor", anchor |-> anchor, direction |-> direction, got |-> None])
          BY <1>4, <3>1, <3>2 DEF IndexedNeighbor
        <4> QED
          BY <3>2, <4>1 DEF Asks, Shown
      <3>3. CASE S # {}
        <4>1. PICK m \in Sorted(map) :
                Asks(m, [op |-> "neighbor", anchor |-> anchor, direction |-> direction,
                         got |-> Neighbor(m.keys, anchor, direction)])
          BY <1>4, <3>1, <3>3 DEF IndexedNeighbor
        <4>2. /\ map' = m /\ Shown(m) = S
              /\ m.keys \in Orders[S] /\ Increasing(m.keys)
          BY <1>1, <4>1, SortedKeys DEF Asks
        <4>3. Neighbor(m.keys, anchor, direction) =
                 IF anchor = None THEN Least(S)
                 ELSE IF direction = "next" THEN Least(IF above = {} THEN S ELSE above)
                 ELSE Greatest(IF lower = {} THEN S ELSE lower)
          <5> DEFINE q == m.keys
          <5>1. q \in Orders[S] /\ Increasing(q) /\ S \in SUBSET Rows /\ S # {}
            BY <1>1, <3>3, <4>2
          <5> HIDE DEF S, q
          <5>2. Neighbor(q, anchor, direction) =
                  IF anchor = None THEN Least(S)
                  ELSE IF direction = "next" THEN Least(IF above = {} THEN S ELSE above)
                  ELSE Greatest(IF lower = {} THEN S ELSE lower)
            BY <5>1, NeighborIsRight
          <5> QED
            BY <5>2 DEF q
        <4> QED
          BY <3>3, <4>1, <4>2, <4>3 DEF Asks, Shown
      <3> QED
        BY <3>2, <3>3
    <2> HIDE DEF S
    <2> QED
      BY <2>1 DEF AnswersAreRight, Lower, Least, Greatest
  <1>5. ASSUME NEW from \in 0 .. Cardinality(Rows), NEW to \in 0 .. Cardinality(Rows),
               from <= to, Frame(from, to)
        PROVE  AnswersAreRight'
    <2>1. CASE to >= Cardinality(S)
      <3>1. Asks(map, [op |-> "frame", from |-> from, to |-> to, got |-> <<>>])
        BY <1>5, <2>1 DEF Frame
      <3> QED
        BY <2>1, <3>1 DEF Asks, AnswersAreRight, Shown
    <2>2. CASE ~(to >= Cardinality(S))
      <3>1. PICK m \in Sorted(map) :
              Asks(m, [op |-> "frame", from |-> from, to |-> to,
                       got |-> [i \in 1 .. to - from + 1 |->
                                  [row |-> m.keys[from + i],
                                   nature |-> m.indexes[m.keys[from + i]]]]])
        BY <1>5, <2>2 DEF Frame
      <3>2. /\ map' = m /\ Shown(m) = S
            /\ m.keys \in Orders[S] /\ Increasing(m.keys)
        BY <1>1, <3>1, SortedKeys DEF Asks
      <3> DEFINE got == [i \in 1 .. to - from + 1 |->
                                  [row |-> m.keys[from + i],
                                   nature |-> m.indexes[m.keys[from + i]]]]
      <3>3. /\ reply'.op = "frame" /\ reply'.from = from /\ reply'.to = to
            /\ reply'.got = got
        BY <3>1 DEF Asks
      <3>4. Shown(map)' = S
        BY <3>2 DEF Shown
      <3>5. Len(m.keys) = Cardinality(S) /\ Cardinality(S) \in Nat
        BY <1>1, <3>2, OrderOf, SubsetsAreFinite
      <3>6. from \in Nat /\ to \in Nat /\ to - from + 1 \in Nat
        BY <1>5, RowsAreFinite, FS_CardinalityType
      <3>7. Len(got) = to - from + 1 /\ DOMAIN got = 1 .. to - from + 1
        BY <3>6
      <3>8. ASSUME NEW i \in DOMAIN got
            PROVE  /\ got[i].row \in S
                   /\ Cardinality(Lower(S, got[i].row)) = from + i - 1
                   /\ got[i].nature = map'.indexes[got[i].row]
        <4>1. i \in 1 .. to - from + 1
          BY <3>7
        <4>2. from + i \in 1 .. Len(m.keys)
          BY <2>2, <3>5, <3>6, <4>1
        <4>3. got[i] = [row |-> m.keys[from + i], nature |-> m.indexes[m.keys[from + i]]]
          BY <4>1
        <4>4. m.keys[from + i] \in S /\ Cardinality(Lower(S, m.keys[from + i])) = from + i - 1
          <5> HIDE DEF S
          <5> QED
            BY <1>1, <3>2, <4>2, RankOfKey
        <4> QED
          BY <3>2, <4>3, <4>4
      <3> HIDE DEF S, got
      <3> QED
        BY <2>2, <3>3, <3>4, <3>7, <3>8 DEF AnswersAreRight, Lower
    <2> QED
      BY <2>1, <2>2
  <1>6. ASSUME GetIndexedRanges PROVE AnswersAreRight'
    BY <1>6 DEF GetIndexedRanges, Asks, AnswersAreRight
  <1> QED
    BY <1>2, <1>3, <1>4, <1>5, <1>6 DEF Questions

\* The index of a row and the row of an index are inverse, the nearest row is
\* the nearest and the lower one of two, the neighbour is the next or the
\* previous row or the other end, and a frame shows the rows of its positions:
\* every question about positions is answered as the table says.
THEOREM AnswersHold == Spec => []AnswersAreRight
  <1>1. Init => AnswersAreRight
    BY DEF Init, NoReply, AnswersAreRight
  <1>2. IInv /\ AnswersAreRight /\ [Next]_vars => AnswersAreRight'
    <2> SUFFICES ASSUME IInv, AnswersAreRight, [Next]_vars PROVE AnswersAreRight'
      OBVIOUS
    <2>1. CASE reply' = NoReply
      BY <2>1 DEF NoReply, AnswersAreRight
    <2>2. CASE UNCHANGED vars
      BY <2>2 DEF vars, AnswersAreRight, Shown
    <2>3. CASE Questions
      BY <2>3, QuestionsAreAnswered
    <2>4. Changes => reply' = NoReply
      <3>1. ASSUME NEW m PROVE Becomes(m) => reply' = NoReply
        BY DEF Becomes
      <3> QED
        BY <3>1 DEF Changes, AddBookmark, RemoveBookmark, SetBookmarks, SetSearchResults,
                    AppendSearchResults, DropSearch, SetStreamLen
    <2> QED
      BY <2>1, <2>2, <2>3, <2>4 DEF Next, Replied
  <1> QED
    BY <1>1, <1>2, Invariance, PTL DEF Spec

-----------------------------------------------------------------------------
(* The view of a search: numbers. *)

\* A set of naturals that is not empty has a smallest member.
LEMMA SmallestIsThere ==
  ASSUME NEW S \in SUBSET Nat, S # {}
  PROVE  \E x \in S : \A y \in S : x <= y
<1> DEFINE R == {p \in Nat \X Nat : p[1] < p[2]}
<1>1. IsWellFoundedOn(R, Nat)
  BY NatLessThanWellFounded, Zenon DEF OpToRel
<1>2. PICK x \in S : \A y \in S : ~(<<y, x>> \in R)
  <2> HIDE DEF R
  <2> QED
    BY <1>1, WFMin, Zenon
<1>3. ASSUME NEW y \in S PROVE x <= y
  <2>1. x \in Nat /\ y \in Nat /\ ~(y < x)
    BY <1>2
  <2> QED
    BY <2>1
<1> QED
  BY <1>3

-----------------------------------------------------------------------------
(* The view of a search: where its searches are. *)

ApplyOf(o) == [is |-> "apply", op |-> o]
DropFor(o) == [is |-> "drop", op |-> o]

IsOver(o) == task[o].at \in {"clears", "ended"}
HasHolder(o) == task[o].at \in {"searches", "found"}

\* A search that has not been tried to drop for yet.
IsFresh ==
  \/ task[view.op].at \in {"none", "queued"}
  \/ task[view.op].at = "drops" /\ task[view.op].tries = 0

\* The view shows a search that has told it of a drop.
ViewFollows == view.op # NoOp /\ ~view.missed /\ ~IsFresh

\* There is one holder, and who has it; a search has not tried before it begins.
HolderInv ==
  /\ \A o \in Ops : task[o].at \in {"none", "queued"} => task[o].tries = 0
  /\ \A o, p \in Ops : HasHolder(o) /\ HasHolder(p) => o = p
  /\ core.slot = "lent" <=> \E o \in Ops : HasHolder(o)

\* A search waits for its command or has begun; the one that is shown is not
\* cancelled.
StartInv ==
  /\ view.op <= view.made
  /\ \A o \in Ops : task[o].at = "none" /\ o <= view.made =>
       \E i \in DOMAIN commands : commands[i] = ApplyOf(o)
  /\ \A o \in Ops : o > view.made => task[o].at = "none"
  /\ \A i \in DOMAIN commands : commands[i].is = "apply" =>
       commands[i].op <= view.made /\ task[commands[i].op].at = "none"
  /\ \A i, j \in DOMAIN commands :
       commands[i].is = "apply" /\ commands[i] = commands[j] => i = j
  /\ \A i \in DOMAIN commands : commands[i].is = "drop" =>
       commands[i].op <= view.made /\ (view.op # NoOp => commands[i].op # view.op)
  /\ \A o \in Ops : task[o].aborted => o <= view.made /\ o # view.op
  /\ \A o \in Ops : task[o].at = "clears" => task[o].ends # "none"

\* Who has heard all of box knows that o has ended.
HearsEnd(phase, box, o) ==
  \/ /\ phase # "running"
     /\ \A i \in DOMAIN box : box[i] # PhaseIs(o, "running")
  \/ \E k \in DOMAIN box :
       /\ \E p \in {"success", "failed"} : box[k] = PhaseIs(o, p)
       /\ \A i \in k + 1 .. Len(box) : box[i] # PhaseIs(o, "running")

RunInv ==
  view.op # NoOp /\ task[view.op].at = "ended" => HearsEnd(view.phase, inbox, view.op)

-----------------------------------------------------------------------------
(* Nested searches *)

FindsPending(i) == commands[i].is = "find" /\ commands[i].request = nested.pending
AnswersPending(i) == inbox[i].is = "answer" /\ inbox[i].request = nested.pending

PendingInv ==
  /\ nested.pending <= nested.made
  /\ nested.pending # 0 =>
       \/ \E i \in DOMAIN commands : FindsPending(i)
       \/ \E i \in DOMAIN inbox : AnswersPending(i)
  /\ \A i \in DOMAIN commands : commands[i].is = "find" =>
       commands[i].request \in 1 .. nested.made
  /\ \A i \in DOMAIN inbox : inbox[i].is = "answer" =>
       inbox[i].request \in 1 .. nested.made
  /\ \A i \in DOMAIN commands : FindsPending(i) => commands[i].filter = nested.filter
  /\ \A i \in DOMAIN inbox : AnswersPending(i) /\ inbox[i].at # NoAnchor =>
       inbox[i].row \in Hits[nested.filter]
  /\ nested.anchor # NoAnchor /\ nested.found => nested.row \in Hits[nested.filter]
  /\ nested.filter = NoFilter => nested.anchor = NoAnchor /\ nested.pending = 0

\* The count that the view has when it hears box[i] is zero.
ZeroAt(count, box, i) ==
  \E j \in 0 .. i - 1 :
    /\ IF j = 0 THEN count = 0 ELSE box[j] = CountIs(0)
    /\ \A m \in j + 1 .. i - 1 : box[m].is # "count"

ZeroAhead(box) == \E i \in DOMAIN box : box[i] = CountIs(0)

\* Whenever matches are cleared the count is zero before or after.
ClearsCounted(count, box) ==
  \A i \in DOMAIN box : box[i] = Cleared =>
    \/ ZeroAt(count, box, i)
    \/ \E j \in i + 1 .. Len(box) : box[j] = CountIs(0)

ClosesInv ==
  /\ ClearsCounted(view.count, inbox)
  /\ view.count = 0 => nested.filter = NoFilter \/ ZeroAhead(inbox)

-----------------------------------------------------------------------------
(* One search at a time *)

\* Among the first n commands is the drop of o, if it needs one.
IsLeft(o, n) ==
  IsOver(o) \/ task[o].aborted \/ \E j \in 1 .. n : commands[j] = DropFor(o)

OrderInv ==
  /\ \A i \in DOMAIN commands : commands[i].is = "apply" =>
       \A o \in Ops : o < commands[i].op => IsLeft(o, i - 1)
  /\ \A o, p \in Ops : o < p /\ task[p].at # "none" => IsOver(o) \/ task[o].aborted
  /\ \A o \in Ops : o <= view.made /\ o # view.op => IsLeft(o, Len(commands))

\* Nothing is found while a search that goes on has, or is about to get, the
\* holder.
MapInv ==
  /\ \A o \in Ops : task[o].at = "asks" /\ ~task[o].aborted =>
       /\ core.map = << >> /\ core.slot # "ready"
       /\ \A p \in Ops : task[p].at # "found"
  /\ \A o \in Ops : task[o].at = "searches" /\ ~task[o].aborted => core.map = << >>
  /\ \A o \in Ops : task[o].at = "found" => core.map = << >>

-----------------------------------------------------------------------------
(* What the view shows once it has heard all *)

\* After all of box the first `last` entries of matches are shown.  f[i] of them
\* are after box[i], where i is not before k: the beginning, or the last time
\* that they were cleared.
Tracks(shown, box, matches, last) ==
  \E f \in [0 .. Len(box) -> 0 .. Len(matches)], k \in 0 .. Len(box) :
    /\ IF k = 0 THEN shown = SubSeq(matches, 1, f[0]) ELSE box[k] = Cleared /\ f[k] = 0
    /\ \A i \in k + 1 .. Len(box) :
         /\ box[i] # Cleared /\ f[i - 1] <= f[i]
         /\ IF box[i].is = "found" THEN box[i].list = SubSeq(matches, f[i - 1] + 1, f[i])
            ELSE f[i] = f[i - 1]
    /\ f[Len(box)] = last

CountTracks(count, box, n) ==
  \E k \in 0 .. Len(box) :
    /\ IF k = 0 THEN count = n ELSE box[k] = CountIs(n)
    /\ \A i \in k + 1 .. Len(box) : box[i].is # "count" /\ (box[i] = Cleared => n = 0)

IndexedTracks(indexed, count, box, n) ==
  \E k \in 0 .. Len(box) :
    /\ IF k = 0 THEN indexed = n ELSE box[k] = [is |-> "indexed", n |-> n]
    /\ \A i \in k + 1 .. Len(box) :
         box[i].is # "indexed" /\ (box[i] = Cleared => ZeroAt(count, box, i))

IsCalm == core.slot # "lent" /\ \A o \in Ops : task[o].at # "clears"

SyncOf(v, box, c, calm) ==
  /\ \E last \in {0, Len(c.map)} :
       /\ Tracks(v.shown, box, c.map, last)
       /\ c.slot = "ready" \/ calm => last = Len(c.map)
  /\ calm =>
       /\ CountTracks(v.count, box, Len(c.map))
       /\ IndexedTracks(v.indexed, v.count, box, Cardinality(c.found \cup c.marks))

SyncInv == SyncOf(view, inbox, core, IsCalm)

IsMatch(matches, n, row) == n <= Len(matches) /\ matches[n] = row

\* What navigation has gone to is where it was found, or will be forgotten.
NestedInv ==
  ZeroAhead(inbox) \/
    /\ nested.anchor # NoAnchor => IsMatch(core.map, nested.anchor, nested.row)
    /\ \A i \in DOMAIN inbox : AnswersPending(i) /\ inbox[i].at # NoAnchor =>
         IsMatch(core.map, inbox[i].at, inbox[i].row)

ViewInv ==
  /\ HolderInv /\ StartInv /\ RunInv /\ PendingInv /\ ClosesInv
  /\ ~view.missed => OrderInv /\ MapInv
  /\ ViewFollows => SyncInv /\ NestedInv
-----------------------------------------------------------------------------
(* The types of the view, its messages and its commands. *)

\* Whatever a search can find.
Entries == {MatchesOf(o, a, b)[i] : o \in Ops, a \in Nat, b \in Nat, i \in Nat}

Phases == {"none", "running", "success", "failed"}

Messages ==
  [is : {"phase"}, op : Ops, phase : {"running", "success", "failed"}]
    \cup [is : {"count"}, n : Nat]
    \cup [is : {"found"}, list : Seq(Entries)]
    \cup [is : {"cleared"}]
    \cup [is : {"indexed"}, n : Nat]
    \cup [is : {"answer"}, request : Nat, at : Nat, row : Entries \cup {0}]

Commands ==
  [is : {"drop"}, op : Ops \cup {NoOp}]
    \cup [is : {"apply"}, op : Ops]
    \cup [is : {"find"}, request : Nat, filter : DOMAIN Hits, anchor : Nat,
          next : BOOLEAN]
    \cup [is : {"mark"}, row : Nat]

Views == [op : Ops \cup {NoOp}, phase : Phases, shown : Seq(Entries), count : Nat,
          indexed : Nat, made : 0 .. MaxOps, missed : BOOLEAN]

Nesteds == [filter : DOMAIN Hits \cup {NoFilter}, anchor : Nat, row : Entries \cup {0},
            found : BOOLEAN, pending : Nat, made : Nat]

Cores ==
  {c \in [rows : Nat, map : Seq(Entries), found : SUBSET Entries, marks : SUBSET Nat,
          slot : {"empty", "lent", "ready"}, by : Ops \cup {NoOp}, upTo : Nat,
          asides : Nat] :
     /\ IsFiniteSet(c.found) /\ IsFiniteSet(c.marks)
     /\ c.slot # "empty" => c.by \in Ops}

Tasks == [at : {"none", "queued", "drops", "asks", "searches", "found", "clears", "ended"},
          tries : Nat, aborted : BOOLEAN, ends : {"none", "success", "failed"}]

ViewTypes ==
  /\ view \in Views /\ nested \in Nesteds
  /\ commands \in Seq(Commands) /\ inbox \in Seq(Messages)
  /\ core \in Cores /\ task \in [Ops -> Tasks]

\* The kinds of messages.
LEMMA MessageIs ==
  ASSUME NEW m \in Messages
  PROVE  /\ m.is \in {"phase", "count", "found", "cleared", "indexed", "answer"}
         /\ m.is = "phase" =>
              m.op \in Ops /\ m.phase \in {"running", "success", "failed"}
              /\ m = PhaseIs(m.op, m.phase)
         /\ m.is = "count" => m.n \in Nat /\ m = CountIs(m.n)
         /\ m.is = "found" => m.list \in Seq(Entries) /\ m = MoreFound(m.list)
         /\ m.is = "cleared" => m = Cleared
         /\ m.is = "indexed" => m.n \in Nat /\ m = [is |-> "indexed", n |-> m.n]
         /\ m.is = "answer" => m.request \in Nat /\ m.at \in Nat /\ m.row \in Entries \cup {0}
<1>1. CASE m \in [is : {"phase"}, op : Ops, phase : {"running", "success", "failed"}]
  BY <1>1 DEF PhaseIs
<1>2. CASE m \in [is : {"count"}, n : Nat]
  BY <1>2 DEF CountIs
<1>3. CASE m \in [is : {"found"}, list : Seq(Entries)]
  BY <1>3 DEF MoreFound
<1>4. CASE m \in [is : {"cleared"}]
  BY <1>4 DEF Cleared
<1>5. CASE m \in [is : {"indexed"}, n : Nat]
  BY <1>5
<1>6. CASE m \in [is : {"answer"}, request : Nat, at : Nat, row : Entries \cup {0}]
  BY <1>6
<1> QED
  BY <1>1, <1>2, <1>3, <1>4, <1>5, <1>6 DEF Messages

\* What is told are messages.
LEMMA ToldAre ==
  /\ \A o \in Ops, p \in {"running", "success", "failed"} :
       PhaseIs(o, p) \in Messages /\ PhaseIs(o, p).is = "phase"
  /\ \A n \in Nat : CountIs(n) \in Messages /\ CountIs(n).is = "count"
  /\ \A list \in Seq(Entries) : MoreFound(list) \in Messages
       /\ MoreFound(list).is = "found" /\ MoreFound(list).list = list
  /\ Cleared \in Messages /\ Cleared.is = "cleared"
  /\ \A n \in Nat : [is |-> "indexed", n |-> n] \in Messages
  /\ \A r, at \in Nat, row \in Entries \cup {0} :
       Answer(r, at, row) \in Messages /\ Answer(r, at, row).is = "answer"
BY DEF PhaseIs, CountIs, MoreFound, Cleared, Answer, Messages

\* The kinds of commands.
LEMMA CommandIs ==
  ASSUME NEW c \in Commands
  PROVE  /\ c.is \in {"drop", "apply", "find", "mark"}
         /\ c.is = "drop" => c.op \in Ops \cup {NoOp} /\ c = DropFor(c.op)
         /\ c.is = "apply" => c.op \in Ops /\ c = ApplyOf(c.op)
         /\ c.is = "find" => c.request \in Nat /\ c.filter \in DOMAIN Hits
                             /\ c.anchor \in Nat /\ c.next \in BOOLEAN
         /\ c.is = "mark" => c.row \in Nat
<1>1. CASE c \in [is : {"drop"}, op : Ops \cup {NoOp}]
  BY <1>1 DEF DropFor
<1>2. CASE c \in [is : {"apply"}, op : Ops]
  BY <1>2 DEF ApplyOf
<1>3. CASE c \in [is : {"find"}, request : Nat, filter : DOMAIN Hits, anchor : Nat,
                  next : BOOLEAN]
  BY <1>3
<1>4. CASE c \in [is : {"mark"}, row : Nat]
  BY <1>4
<1> QED
  BY <1>1, <1>2, <1>3, <1>4 DEF Commands

\* Elements of a sequence that was extended.
LEMMA Appended ==
  ASSUME NEW S, NEW s \in Seq(S), NEW e \in S
  PROVE  /\ Append(s, e) \in Seq(S) /\ Len(Append(s, e)) = Len(s) + 1
         /\ Len(s) \in Nat /\ DOMAIN Append(s, e) = 1 .. Len(s) + 1
         /\ DOMAIN s = 1 .. Len(s)
         /\ \A i \in 1 .. Len(s) : Append(s, e)[i] = s[i]
         /\ Append(s, e)[Len(s) + 1] = e
BY AppendProperties, LenProperties

\* Several messages are told one by one.
LEMMA ToldOneByOne ==
  ASSUME NEW S, NEW s \in Seq(S)
  PROVE  /\ s \o << >> = s
         /\ \A a \in S : s \o <<a>> = Append(s, a)
         /\ \A a, b \in S : s \o <<a, b>> = Append(Append(s, a), b)
         /\ \A a, b, c \in S : s \o <<a, b, c>> = Append(Append(Append(s, a), b), c)
         /\ \A t \in Seq(S), e \in S : s \o Append(t, e) = Append(s \o t, e)
<1>1. \A t \in Seq(S), e \in S : s \o Append(t, e) = Append(s \o t, e)
  <2> TAKE t \in Seq(S), e \in S
  <2>1. Append(t, e) = t \o <<e>> /\ <<e>> \in Seq(S)
    BY AppendIsConcat
  <2>2. s \o t \in Seq(S)
    BY ConcatProperties
  <2>3. Append(s \o t, e) = (s \o t) \o <<e>>
    BY <2>2, AppendIsConcat
  <2> QED
    BY <2>1, <2>3, ConcatAssociative
<1>2. << >> \in Seq(S) /\ s \o << >> = s
  BY ConcatEmptySeq
<1>3. ASSUME NEW a \in S PROVE s \o <<a>> = Append(s, a)
  BY AppendIsConcat
<1>4. ASSUME NEW a \in S, NEW b \in S
      PROVE  /\ <<a>> \in Seq(S) /\ Append(<<a>>, b) = <<a, b>>
             /\ s \o <<a, b>> = Append(Append(s, a), b)
  <2>1. <<a>> \in Seq(S) /\ Len(<<a>>) = 1 /\ <<a>>[1] = a
    OBVIOUS
  <2>2. /\ <<a, b>> \in Seq(S) /\ Len(<<a, b>>) = 2
        /\ <<a, b>>[1] = a /\ <<a, b>>[2] = b
    OBVIOUS
  <2>3. /\ Append(<<a>>, b) \in Seq(S) /\ Len(Append(<<a>>, b)) = 2
        /\ Append(<<a>>, b)[1] = a /\ Append(<<a>>, b)[2] = b
    BY <2>1, AppendProperties
  <2>4. Append(<<a>>, b) = <<a, b>>
    <3>1. \A i \in 1 .. Len(Append(<<a>>, b)) : Append(<<a>>, b)[i] = <<a, b>>[i]
      BY <2>2, <2>3
    <3> QED
      BY <3>1, <2>2, <2>3, SeqEqual
  <2> QED
    BY <2>1, <2>4, <1>1, <1>3
<1>5. ASSUME NEW a \in S, NEW b \in S, NEW c \in S
      PROVE  s \o <<a, b, c>> = Append(Append(Append(s, a), b), c)
  <2>1. /\ <<a, b>> \in Seq(S) /\ Len(<<a, b>>) = 2
        /\ <<a, b>>[1] = a /\ <<a, b>>[2] = b
    OBVIOUS
  <2>2. /\ <<a, b, c>> \in Seq(S) /\ Len(<<a, b, c>>) = 3
        /\ <<a, b, c>>[1] = a /\ <<a, b, c>>[2] = b /\ <<a, b, c>>[3] = c
    OBVIOUS
  <2>3. LET t == Append(<<a, b>>, c)
        IN  t \in Seq(S) /\ Len(t) = 3 /\ t[1] = a /\ t[2] = b /\ t[3] = c
    BY <2>1, AppendProperties
  <2>4. Append(<<a, b>>, c) = <<a, b, c>>
    <3>1. \A i \in 1 .. Len(Append(<<a, b>>, c)) : Append(<<a, b>>, c)[i] = <<a, b, c>>[i]
      BY <2>2, <2>3
    <3> QED
      BY <3>1, <2>2, <2>3, SeqEqual
  <2> QED
    BY <2>1, <2>4, <1>1, <1>4
<1> QED
  BY <1>1, <1>2, <1>3, <1>4, <1>5

\* Elements behind the first one.
LEMMA Tailed ==
  ASSUME NEW S, NEW s \in Seq(S), s # << >>
  PROVE  /\ Tail(s) \in Seq(S) /\ Len(s) \in Nat \ {0} /\ Len(Tail(s)) = Len(s) - 1
         /\ DOMAIN s = 1 .. Len(s) /\ DOMAIN Tail(s) = 1 .. Len(s) - 1
         /\ Head(s) = s[1] /\ s[1] \in S
         /\ \A i \in 1 .. Len(s) - 1 : Tail(s)[i] = s[i + 1]
<1>1. Len(s) \in Nat \ {0} /\ Len(Tail(s)) = Len(s) - 1 /\ Tail(s) \in Seq(S)
  BY EmptySeq, HeadTailProperties, LenProperties
<1>2. Head(s) = s[1] /\ s[1] \in S
  BY <1>1, HeadTailProperties
<1> QED
  BY <1>1, <1>2, HeadTailProperties, LenProperties

\* A message among others.
LEMMA InsertedAt ==
  ASSUME NEW S, NEW s \in Seq(S), NEW e \in S, NEW k \in 1 .. Len(s) + 1
  PROVE  /\ InsertAt(s, k, e) \in Seq(S) /\ Len(InsertAt(s, k, e)) = Len(s) + 1
         /\ Len(s) \in Nat /\ DOMAIN InsertAt(s, k, e) = 1 .. Len(s) + 1
         /\ DOMAIN s = 1 .. Len(s)
         /\ \A i \in 1 .. k - 1 : InsertAt(s, k, e)[i] = s[i]
         /\ InsertAt(s, k, e)[k] = e
         /\ \A i \in k + 1 .. Len(s) + 1 : InsertAt(s, k, e)[i] = s[i - 1]
<1> DEFINE a == SubSeq(s, 1, k - 1)
           b == SubSeq(s, k, Len(s))
           h == a \o <<e>>
<1>0. Len(s) \in Nat /\ DOMAIN s = 1 .. Len(s)
  BY LenProperties
<1>1. a \in Seq(S) /\ Len(a) = k - 1 /\ \A i \in 1 .. k - 1 : a[i] = s[i]
  <2>1. \A i \in 1 .. k - 1 : s[i] \in S
    BY <1>0, ElementOfSeq
  <2> QED
    BY <2>1, <1>0, SubSeqProperties
<1>2. /\ b \in Seq(S) /\ Len(b) = Len(s) - k + 1
      /\ \A i \in 1 .. Len(s) - k + 1 : b[i] = s[k + i - 1]
  <2>1. \A i \in k .. Len(s) : s[i] \in S
    BY <1>0, ElementOfSeq
  <2> QED
    BY <2>1, <1>0, SubSeqProperties
<1>3. <<e>> \in Seq(S) /\ Len(<<e>>) = 1 /\ <<e>>[1] = e
  OBVIOUS
<1> HIDE DEF a, b
<1>4. /\ h \in Seq(S) /\ Len(h) = k
      /\ \A i \in 1 .. k : h[i] = IF i <= k - 1 THEN s[i] ELSE e
  <2>1. /\ h \in Seq(S) /\ Len(h) = Len(a) + 1
        /\ \A i \in 1 .. Len(a) + 1 : h[i] = IF i <= Len(a) THEN a[i] ELSE <<e>>[i - Len(a)]
    BY <1>1, <1>3, ConcatProperties
  <2> QED
    BY <2>1, <1>0, <1>1, <1>3
<1> HIDE DEF h
<1>5. /\ h \o b \in Seq(S) /\ Len(h \o b) = Len(s) + 1
      /\ \A i \in 1 .. Len(s) + 1 : (h \o b)[i] = IF i <= k THEN h[i] ELSE b[i - k]
  <2>1. /\ h \o b \in Seq(S) /\ Len(h \o b) = Len(h) + Len(b)
        /\ \A i \in 1 .. Len(h) + Len(b) : (h \o b)[i] = IF i <= Len(h) THEN h[i] ELSE b[i - Len(h)]
    BY <1>2, <1>4, ConcatProperties
  <2> QED
    BY <2>1, <1>0, <1>2, <1>4
<1>6. InsertAt(s, k, e) = h \o b
  BY DEF InsertAt, h, a, b
<1>7. DOMAIN (h \o b) = 1 .. Len(s) + 1
  BY <1>5, LenProperties
<1> QED
  BY <1>0, <1>2, <1>4, <1>5, <1>6, <1>7

-----------------------------------------------------------------------------
(* What a search finds is a sequence. *)

\* How many rows of a range are in a set.
LEMMA SubRange ==
  ASSUME NEW a \in Nat, NEW b \in Nat, NEW S
  PROVE  /\ IsFiniteSet({r \in a .. b : r \in S})
         /\ Cardinality({r \in a .. b : r \in S}) \in Nat
<1>1. IsFiniteSet(a .. b)
  BY FS_Interval
<1>2. {r \in a .. b : r \in S} \subseteq a .. b
  OBVIOUS
<1>3. IsFiniteSet({r \in a .. b : r \in S})
  BY <1>1, <1>2, FS_Subset, Zenon
<1> QED
  BY <1>3, FS_CardinalityType, Zenon

\* What a search finds is a list of entries.
LEMMA ListIs ==
  ASSUME NEW o \in Ops, NEW a \in Nat, NEW b \in Nat
  PROVE  MatchesOf(o, a, b) \in Seq(Entries)
<1> DEFINE hits == {row \in a .. b : row \in Matching[o]}
           list == MatchesOf(o, a, b)
           n == Cardinality(hits)
           e(i) == CHOOSE row \in hits : Cardinality({r \in hits : r < row}) = i - 1
<1>1. n \in Nat
  BY SubRange
<1>2. list = [i \in 1 .. n |-> e(i)]
  BY DEF MatchesOf
<1> HIDE DEF n, list, e
<1>3. \A i \in 1 .. n : list[i] \in Entries
  BY <1>1 DEF Entries, list
<1>4. DOMAIN list = 1 .. n /\ list = [i \in 1 .. n |-> list[i]]
  BY <1>2
<1>5. list \in [1 .. n -> Entries]
  BY <1>3, <1>4
<1>6. list \in Seq(Entries)
  BY <1>1, <1>5
<1> QED
  BY <1>6 DEF list

\* The members of a sequence.
LEMMA MembersAre ==
  ASSUME NEW S, NEW s \in Seq(S)
  PROVE  ToSet(s) \in SUBSET S /\ IsFiniteSet(ToSet(s))
<1>1. Len(s) \in Nat /\ DOMAIN s = 1 .. Len(s)
  BY LenProperties
<1>2. ToSet(s) = {s[i] : i \in 1 .. Len(s)}
  BY <1>1, Zenon DEF ToSet
<1>3. \A i \in 1 .. Len(s) : s[i] \in S
  BY ElementOfSeq
<1>4. IsFiniteSet(1 .. Len(s))
  BY <1>1, FS_Interval
<1>5. IsFiniteSet({s[i] : i \in 1 .. Len(s)})
  <2> DEFINE f == [i \in 1 .. Len(s) |-> s[i]]
  <2>1. f \in Surjection(1 .. Len(s), {s[i] : i \in 1 .. Len(s)})
    BY DEF Surjection
  <2> QED
    BY <2>1, <1>4, FS_Surjection
<1> QED
  BY <1>2, <1>3, <1>5

-----------------------------------------------------------------------------
(* The matches that are shown once all of a box is heard. *)

\* A message that is put at k into a box, the end included.
IsInserted(w, box, k, m) ==
  /\ w \in Seq(Messages) /\ Len(w) = Len(box) + 1 /\ Len(box) \in Nat
  /\ DOMAIN w = 1 .. Len(box) + 1 /\ DOMAIN box = 1 .. Len(box)
  /\ k \in 1 .. Len(box) + 1
  /\ \A i \in 1 .. k - 1 : w[i] = box[i]
  /\ w[k] = m
  /\ \A i \in k + 1 .. Len(box) + 1 : w[i] = box[i - 1]

\* Appending is inserting at the end.
LEMMA InsertedIs ==
  ASSUME NEW box \in Seq(Messages), NEW m \in Messages
  PROVE  /\ IsInserted(Append(box, m), box, Len(box) + 1, m)
         /\ \A k \in 1 .. Len(box) + 1 : IsInserted(InsertAt(box, k, m), box, k, m)
<1>1. IsInserted(Append(box, m), box, Len(box) + 1, m)
  BY Appended DEF IsInserted
<1>2. ASSUME NEW k \in 1 .. Len(box) + 1
      PROVE  IsInserted(InsertAt(box, k, m), box, k, m)
  BY InsertedAt DEF IsInserted
<1> QED
  BY <1>1, <1>2

\* Messages about other things do not matter.
LEMMA TracksOther ==
  ASSUME NEW shown, NEW box \in Seq(Messages), NEW matches \in Seq(Entries), NEW last,
         NEW m \in Messages, m.is \notin {"found", "cleared"},
         NEW w, NEW c, IsInserted(w, box, c, m),
         Tracks(shown, box, matches, last)
  PROVE  Tracks(shown, w, matches, last)
<1> DEFINE n == Len(box)
<1>0. /\ n \in Nat /\ Len(w) = n + 1 /\ c \in 1 .. n + 1 /\ w[c] = m
      /\ \A i \in 1 .. c - 1 : w[i] = box[i]
      /\ \A i \in c + 1 .. n + 1 : w[i] = box[i - 1]
  BY DEF IsInserted
<1>1. PICK f \in [0 .. n -> 0 .. Len(matches)], k \in 0 .. n :
        /\ IF k = 0 THEN shown = SubSeq(matches, 1, f[0]) ELSE box[k] = Cleared /\ f[k] = 0
        /\ \A i \in k + 1 .. n :
             /\ box[i] # Cleared /\ f[i - 1] <= f[i]
             /\ IF box[i].is = "found" THEN box[i].list = SubSeq(matches, f[i - 1] + 1, f[i])
                ELSE f[i] = f[i - 1]
        /\ f[n] = last
  BY DEF Tracks
<1> DEFINE g == [i \in 0 .. n + 1 |-> IF i < c THEN f[i] ELSE f[i - 1]]
           l == IF k < c THEN k ELSE k + 1
<1>2. /\ g \in [0 .. n + 1 -> 0 .. Len(matches)]
      /\ \A i \in 0 .. c - 1 : g[i] = f[i]
      /\ \A i \in c .. n + 1 : g[i] = f[i - 1]
  BY <1>0
<1>3. /\ l \in 0 .. n + 1
      /\ k < c => l = k
      /\ k >= c => l = k + 1
  BY <1>0
<1>4. m # Cleared /\ \A i \in 0 .. n : f[i] \in Nat
  <2>1. Len(matches) \in Nat
    BY LenProperties
  <2>2. \A i \in 0 .. n : f[i] \in 0 .. Len(matches)
    BY <1>0
  <2> QED
    BY <2>1, <2>2, ToldAre
<1> HIDE DEF n, g, l
<1>5. g[n + 1] = last
  BY <1>0, <1>1, <1>2
<1>6. IF l = 0 THEN shown = SubSeq(matches, 1, g[0]) ELSE w[l] = Cleared /\ g[l] = 0
  <2>1. CASE k = 0
    <3>1. l = 0 /\ g[0] = f[0]
      BY <2>1, <1>0, <1>2, <1>3
    <3> QED
      BY <3>1, <2>1, <1>1
  <2>2. CASE k # 0 /\ k < c
    <3>1. l = k /\ k \in 0 .. c - 1 /\ k \in 1 .. c - 1 /\ l # 0
      BY <2>2, <1>0, <1>3
    <3> QED
      BY <3>1, <2>2, <1>0, <1>1, <1>2
  <2>3. CASE k # 0 /\ k >= c
    <3>1. l # 0 /\ l \in c .. n + 1 /\ l \in c + 1 .. n + 1 /\ l - 1 = k
      BY <2>3, <1>0, <1>3
    <3>2. g[l] = f[l - 1] /\ w[l] = box[l - 1]
      BY <3>1, <1>0, <1>2
    <3> QED
      BY <3>1, <3>2, <2>3, <1>1
  <2> QED
    BY <2>1, <2>2, <2>3, <1>0
<1>7. ASSUME NEW i \in l + 1 .. n + 1
      PROVE  /\ w[i] # Cleared /\ g[i - 1] <= g[i]
             /\ IF w[i].is = "found" THEN w[i].list = SubSeq(matches, g[i - 1] + 1, g[i])
                ELSE g[i] = g[i - 1]
  <2>1. CASE i < c
    <3>1. i \in k + 1 .. n /\ i \in 1 .. c - 1 /\ i - 1 \in 0 .. c - 1 /\ i \in 0 .. c - 1
      BY <2>1, <1>0, <1>3
    <3>2. w[i] = box[i] /\ g[i] = f[i] /\ g[i - 1] = f[i - 1]
      BY <3>1, <1>0, <1>2
    <3> QED
      BY <3>1, <3>2, <1>1
  <2>2. CASE i = c
    <3>1. c - 1 \in 0 .. c - 1 /\ c \in c .. n + 1 /\ c - 1 \in 0 .. n
      BY <1>0
    <3>2. g[c] = f[c - 1] /\ g[c - 1] = f[c - 1] /\ f[c - 1] \in Nat
      BY <3>1, <1>2, <1>4
    <3> QED
      BY <3>2, <2>2, <1>0, <1>4
  <2>3. CASE i > c
    <3>1. /\ i - 1 \in k + 1 .. n /\ i \in c + 1 .. n + 1 /\ i - 1 \in c .. n + 1
          /\ i \in c .. n + 1
      BY <2>3, <1>0, <1>3
    <3>2. w[i] = box[i - 1] /\ g[i] = f[i - 1] /\ g[i - 1] = f[i - 1 - 1]
      BY <3>1, <1>0, <1>2
    <3> QED
      BY <3>1, <3>2, <1>1
  <2> QED
    BY <2>1, <2>2, <2>3, <1>0, <1>3
<1> QED
  BY <1>0, <1>2, <1>3, <1>5, <1>6, <1>7 DEF Tracks

\* Nothing is shown after the matches were cleared.
LEMMA TracksCleared ==
  ASSUME NEW shown, NEW box \in Seq(Messages), NEW matches \in Seq(Entries)
  PROVE  Tracks(shown, Append(box, Cleared), matches, 0)
<1> DEFINE n == Len(box)
           w == Append(box, Cleared)
           g == [i \in 0 .. n + 1 |-> 0]
<1>0. n \in Nat /\ Len(w) = n + 1 /\ w[n + 1] = Cleared /\ Len(matches) \in Nat
  BY Appended, ToldAre, LenProperties
<1>1. g \in [0 .. n + 1 -> 0 .. Len(matches)] /\ g[n + 1] = 0
  BY <1>0
<1> HIDE DEF n, w, g
<1>2. n + 1 \in 0 .. n + 1 /\ n + 1 # 0 /\ \A i \in n + 2 .. n + 1 : FALSE
  BY <1>0
<1> QED
  BY <1>0, <1>1, <1>2 DEF Tracks, w

\* New matches are told behind the old ones.
LEMMA TracksFound ==
  ASSUME NEW shown, NEW box \in Seq(Messages), NEW matches \in Seq(Entries),
         NEW list \in Seq(Entries), Tracks(shown, box, matches, Len(matches))
  PROVE  Tracks(shown, Append(box, MoreFound(list)), matches \o list, Len(matches \o list))
<1> DEFINE n == Len(box)
           m == MoreFound(list)
           w == Append(box, m)
           all == matches \o list
<1>0. /\ n \in Nat /\ Len(w) = n + 1 /\ w[n + 1] = m
      /\ \A i \in 1 .. n : w[i] = box[i]
      /\ m.is = "found" /\ m.list = list /\ m # Cleared
  BY Appended, ToldAre
<1>a. /\ all \in Seq(Entries) /\ Len(all) = Len(matches) + Len(list)
      /\ Len(matches) \in Nat /\ Len(list) \in Nat
      /\ \A i \in 1 .. Len(matches) + Len(list) :
           all[i] = IF i <= Len(matches) THEN matches[i] ELSE list[i - Len(matches)]
  BY ConcatProperties, LenProperties
<1>1. PICK f \in [0 .. n -> 0 .. Len(matches)], k \in 0 .. n :
        /\ IF k = 0 THEN shown = SubSeq(matches, 1, f[0]) ELSE box[k] = Cleared /\ f[k] = 0
        /\ \A i \in k + 1 .. n :
             /\ box[i] # Cleared /\ f[i - 1] <= f[i]
             /\ IF box[i].is = "found" THEN box[i].list = SubSeq(matches, f[i - 1] + 1, f[i])
                ELSE f[i] = f[i - 1]
        /\ f[n] = Len(matches)
  BY DEF Tracks
<1> DEFINE g == [i \in 0 .. n + 1 |-> IF i <= n THEN f[i] ELSE Len(all)]
<1>2. g \in [0 .. n + 1 -> 0 .. Len(all)] /\ \A i \in 0 .. n : g[i] = f[i]
  BY <1>0, <1>a
<1>3. g[n + 1] = Len(all) /\ g[n] = Len(matches)
  BY <1>0, <1>1
<1>b. \A a \in 1 .. Len(matches) + 1, b \in 0 .. Len(matches) : SubSeq(all, a, b) = SubSeq(matches, a, b)
  <2> TAKE a \in 1 .. Len(matches) + 1, b \in 0 .. Len(matches)
  <2>1. \A i \in a .. b : matches[i] \in Entries /\ all[i] \in Entries /\ all[i] = matches[i]
    BY <1>a, ElementOfSeq
  <2>2. /\ SubSeq(matches, a, b) \in Seq(Entries) /\ SubSeq(all, a, b) \in Seq(Entries)
        /\ Len(SubSeq(matches, a, b)) = (IF a <= b THEN b - a + 1 ELSE 0)
        /\ Len(SubSeq(all, a, b)) = (IF a <= b THEN b - a + 1 ELSE 0)
        /\ \A i \in 1 .. b - a + 1 : SubSeq(matches, a, b)[i] = matches[a + i - 1]
        /\ \A i \in 1 .. b - a + 1 : SubSeq(all, a, b)[i] = all[a + i - 1]
    <3>1. a \in Int /\ b \in Int /\ \A i \in 1 .. b - a + 1 : a + i - 1 \in a .. b
      BY <1>a
    <3>2. /\ SubSeq(matches, a, b) \in Seq(Entries)
          /\ Len(SubSeq(matches, a, b)) = (IF a <= b THEN b - a + 1 ELSE 0)
          /\ \A i \in 1 .. b - a + 1 : SubSeq(matches, a, b)[i] = matches[a + i - 1]
      BY <3>1, <2>1, SubSeqProperties
    <3>3. /\ SubSeq(all, a, b) \in Seq(Entries)
          /\ Len(SubSeq(all, a, b)) = (IF a <= b THEN b - a + 1 ELSE 0)
          /\ \A i \in 1 .. b - a + 1 : SubSeq(all, a, b)[i] = all[a + i - 1]
      BY <3>1, <2>1, SubSeqProperties
    <3> QED
      BY <3>2, <3>3
  <2>3. \A i \in 1 .. Len(SubSeq(matches, a, b)) : SubSeq(all, a, b)[i] = SubSeq(matches, a, b)[i]
    BY <2>1, <2>2, <1>a
  <2> QED
    BY <2>2, <2>3, SeqEqual
<1>c. SubSeq(all, Len(matches) + 1, Len(all)) = list
  <2>1. \A i \in Len(matches) + 1 .. Len(all) : all[i] \in Entries
    BY <1>a, ElementOfSeq
  <2>2. /\ SubSeq(all, Len(matches) + 1, Len(all)) \in Seq(Entries)
        /\ Len(SubSeq(all, Len(matches) + 1, Len(all))) = Len(list)
        /\ \A i \in 1 .. Len(list) :
             SubSeq(all, Len(matches) + 1, Len(all))[i] = all[Len(matches) + i]
    <3>1. /\ SubSeq(all, Len(matches) + 1, Len(all)) \in Seq(Entries)
          /\ Len(SubSeq(all, Len(matches) + 1, Len(all))) =
               (IF Len(matches) + 1 <= Len(all) THEN Len(all) - (Len(matches) + 1) + 1 ELSE 0)
          /\ \A i \in 1 .. Len(all) - (Len(matches) + 1) + 1 :
               SubSeq(all, Len(matches) + 1, Len(all))[i] = all[(Len(matches) + 1) + i - 1]
      BY <2>1, <1>a, SubSeqProperties
    <3> QED
      BY <3>1, <1>a
  <2>3. \A i \in 1 .. Len(list) : all[Len(matches) + i] = list[i]
    BY <1>a
  <2> QED
    BY <2>2, <2>3, SeqEqual
<1> HIDE DEF n, w, g, m, all
<1>5. k \in 0 .. n + 1
  BY <1>0
<1>6. IF k = 0 THEN shown = SubSeq(all, 1, g[0]) ELSE w[k] = Cleared /\ g[k] = 0
  <2>1. CASE k = 0
    <3>1. g[0] = f[0] /\ f[0] \in 0 .. Len(matches) /\ 1 \in 1 .. Len(matches) + 1
      BY <1>0, <1>1, <1>2, <1>a
    <3>2. SubSeq(all, 1, g[0]) = SubSeq(matches, 1, f[0])
      BY <3>1, <1>b
    <3> QED
      BY <3>2, <2>1, <1>1
  <2>2. CASE k # 0
    BY <2>2, <1>0, <1>1, <1>2
  <2> QED
    BY <2>1, <2>2
<1>7. ASSUME NEW i \in k + 1 .. n + 1
      PROVE  /\ w[i] # Cleared /\ g[i - 1] <= g[i]
             /\ IF w[i].is = "found" THEN w[i].list = SubSeq(all, g[i - 1] + 1, g[i])
                ELSE g[i] = g[i - 1]
  <2>1. CASE i \in k + 1 .. n
    <3>1. i \in 1 .. n /\ i - 1 \in 0 .. n /\ i \in 0 .. n
      BY <2>1, <1>0
    <3>2. g[i] = f[i] /\ g[i - 1] = f[i - 1] /\ w[i] = box[i]
      BY <3>1, <1>0, <1>2
    <3>3. f[i] \in 0 .. Len(matches) /\ f[i - 1] + 1 \in 1 .. Len(matches) + 1
      BY <3>1, <1>a
    <3>4. SubSeq(all, g[i - 1] + 1, g[i]) = SubSeq(matches, f[i - 1] + 1, f[i])
      BY <3>2, <3>3, <1>b
    <3> QED
      BY <3>2, <3>4, <2>1, <1>1
  <2>2. CASE i = n + 1
    <3>1. w[i] = m /\ g[i] = Len(all) /\ g[i - 1] = Len(matches)
      BY <2>2, <1>0, <1>3
    <3> QED
      BY <3>1, <1>0, <1>a, <1>c
  <2> QED
    BY <2>1, <2>2, <1>0
<1> QED
  BY <1>0, <1>2, <1>3, <1>5, <1>6, <1>7 DEF Tracks, w, m, all

-----------------------------------------------------------------------------
(* Messages are heard: what the rest of the box is read with. *)

\* A beginning that is continued.
LEMMA Joined ==
  ASSUME NEW matches \in Seq(Entries), NEW a \in 0 .. Len(matches), NEW b \in a .. Len(matches)
  PROVE  SubSeq(matches, 1, a) \o SubSeq(matches, a + 1, b) = SubSeq(matches, 1, b)
<1> DEFINE x == SubSeq(matches, 1, a)
           y == SubSeq(matches, a + 1, b)
           z == SubSeq(matches, 1, b)
<1>0. Len(matches) \in Nat /\ a \in Nat /\ b \in Nat /\ a <= b /\ b <= Len(matches)
  BY LenProperties
<1>1. \A i \in 1 .. Len(matches) : matches[i] \in Entries
  BY ElementOfSeq
<1>2. x \in Seq(Entries) /\ Len(x) = a /\ \A i \in 1 .. a : x[i] = matches[i]
  <2>1. \A i \in 1 .. a : matches[i] \in Entries
    BY <1>0, <1>1
  <2>2. /\ x \in Seq(Entries) /\ Len(x) = (IF 1 <= a THEN a - 1 + 1 ELSE 0)
        /\ \A i \in 1 .. a - 1 + 1 : x[i] = matches[1 + i - 1]
    BY <2>1, <1>0, SubSeqProperties
  <2> QED
    BY <2>2, <1>0
<1>3. /\ y \in Seq(Entries) /\ Len(y) = b - a
      /\ \A i \in 1 .. b - a : y[i] = matches[a + i]
  <2>1. \A i \in a + 1 .. b : matches[i] \in Entries
    BY <1>0, <1>1
  <2>2. /\ y \in Seq(Entries) /\ Len(y) = (IF a + 1 <= b THEN b - (a + 1) + 1 ELSE 0)
        /\ \A i \in 1 .. b - (a + 1) + 1 : y[i] = matches[(a + 1) + i - 1]
    BY <2>1, <1>0, SubSeqProperties
  <2> QED
    BY <2>2, <1>0
<1>4. z \in Seq(Entries) /\ Len(z) = b /\ \A i \in 1 .. b : z[i] = matches[i]
  <2>1. \A i \in 1 .. b : matches[i] \in Entries
    BY <1>0, <1>1
  <2>2. /\ z \in Seq(Entries) /\ Len(z) = (IF 1 <= b THEN b - 1 + 1 ELSE 0)
        /\ \A i \in 1 .. b - 1 + 1 : z[i] = matches[1 + i - 1]
    BY <2>1, <1>0, SubSeqProperties
  <2> QED
    BY <2>2, <1>0
<1> HIDE DEF x, y, z
<1>5. /\ x \o y \in Seq(Entries) /\ Len(x \o y) = Len(x) + Len(y)
      /\ \A i \in 1 .. Len(x) + Len(y) : (x \o y)[i] = IF i <= Len(x) THEN x[i] ELSE y[i - Len(x)]
  BY <1>2, <1>3, ConcatProperties
<1>6. \A i \in 1 .. Len(x \o y) : (x \o y)[i] = z[i]
  <2> TAKE i \in 1 .. Len(x \o y)
  <2>1. i \in 1 .. b
    BY <1>0, <1>2, <1>3, <1>5
  <2>2. CASE i <= a
    <3>1. i \in 1 .. a /\ i \in 1 .. Len(x) + Len(y) /\ i <= Len(x)
      BY <2>1, <2>2, <1>0, <1>2, <1>3
    <3>2. (x \o y)[i] = x[i]
      BY <3>1, <1>5
    <3> QED
      BY <3>1, <3>2, <2>1, <1>2, <1>4
  <2>3. CASE ~(i <= a)
    <3>1. i - a \in 1 .. b - a /\ a + (i - a) = i
      BY <2>1, <2>3, <1>0
    <3> QED
      BY <3>1, <2>1, <2>3, <1>0, <1>2, <1>3, <1>4, <1>5
  <2> QED
    BY <2>2, <2>3
<1>7. x \o y = z
  BY <1>0, <1>2, <1>3, <1>4, <1>5, <1>6, SeqEqual
<1> QED
  BY <1>7 DEF x, y, z

\* A sequence, and nothing of it.
LEMMA WholeIs ==
  ASSUME NEW S, NEW s \in Seq(S)
  PROVE  SubSeq(s, 1, Len(s)) = s /\ SubSeq(s, 1, 0) = << >>
<1>1. \A i \in 1 .. Len(s) : s[i] \in S
  BY ElementOfSeq
<1>2. Len(s) \in Nat
  BY LenProperties
<1>3. /\ SubSeq(s, 1, Len(s)) \in Seq(S)
      /\ Len(SubSeq(s, 1, Len(s))) = (IF 1 <= Len(s) THEN Len(s) - 1 + 1 ELSE 0)
      /\ \A i \in 1 .. Len(s) - 1 + 1 : SubSeq(s, 1, Len(s))[i] = s[1 + i - 1]
  BY <1>1, <1>2, SubSeqProperties
<1>4. \A i \in 1 .. Len(SubSeq(s, 1, Len(s))) : SubSeq(s, 1, Len(s))[i] = s[i]
  BY <1>2, <1>3
<1>5. SubSeq(s, 1, Len(s)) = s
  BY <1>2, <1>3, <1>4, SeqEqual
<1> QED
  BY <1>5, SubSeqEmpty

\* rest is what is left of box after its first message, which is m.
IsHeard(rest, box, m) ==
  /\ rest \in Seq(Messages) /\ Len(box) \in Nat \ {0} /\ Len(rest) = Len(box) - 1
  /\ DOMAIN box = 1 .. Len(box) /\ DOMAIN rest = 1 .. Len(box) - 1
  /\ m = box[1] /\ m \in Messages
  /\ \A i \in 1 .. Len(box) - 1 : rest[i] = box[i + 1]

\* The first message is heard.
LEMMA HeardIs ==
  ASSUME NEW box \in Seq(Messages), box # << >>
  PROVE  IsHeard(Tail(box), box, Head(box))
BY Tailed DEF IsHeard

\* What is shown after the first message fits the rest.
LEMMA TracksHeard ==
  ASSUME NEW shown, NEW box \in Seq(Messages), NEW matches \in Seq(Entries), NEW last,
         NEW rest, NEW m, IsHeard(rest, box, m), Tracks(shown, box, matches, last),
         NEW now,
         m = Cleared => now = << >>,
         m.is = "found" => now = shown \o m.list,
         m.is \notin {"found", "cleared"} => now = shown
  PROVE  Tracks(now, rest, matches, last)
<1> DEFINE n == Len(box)
<1>0. /\ n \in Nat /\ n >= 1 /\ Len(rest) = n - 1 /\ m = box[1] /\ m \in Messages
      /\ \A i \in 1 .. n - 1 : rest[i] = box[i + 1]
  BY DEF IsHeard
<1>1. PICK f \in [0 .. n -> 0 .. Len(matches)], k \in 0 .. n :
        /\ IF k = 0 THEN shown = SubSeq(matches, 1, f[0]) ELSE box[k] = Cleared /\ f[k] = 0
        /\ \A i \in k + 1 .. n :
             /\ box[i] # Cleared /\ f[i - 1] <= f[i]
             /\ IF box[i].is = "found" THEN box[i].list = SubSeq(matches, f[i - 1] + 1, f[i])
                ELSE f[i] = f[i - 1]
        /\ f[n] = last
  BY DEF Tracks
<1> DEFINE g == [i \in 0 .. n - 1 |-> f[i + 1]]
           l == IF k = 0 THEN 0 ELSE k - 1
<1>2. g \in [0 .. n - 1 -> 0 .. Len(matches)] /\ \A i \in 0 .. n - 1 : g[i] = f[i + 1]
  BY <1>0
<1>3. l \in 0 .. n - 1 /\ (k = 0 => l = 0) /\ (k # 0 => l = k - 1)
  BY <1>0
<1> HIDE DEF n, g, l
<1>5. g[n - 1] = last
  BY <1>0, <1>1, <1>2
<1>6. IF l = 0 THEN now = SubSeq(matches, 1, g[0]) ELSE rest[l] = Cleared /\ g[l] = 0
  <2>0. g[0] = f[1] /\ f[0] \in 0 .. Len(matches) /\ f[1] \in 0 .. Len(matches) /\ Len(matches) \in Nat
    BY <1>0, <1>2, LenProperties
  <2>1. CASE k = 0
    <3>1. /\ m # Cleared /\ f[0] <= f[1]
          /\ IF m.is = "found" THEN m.list = SubSeq(matches, f[0] + 1, f[1]) ELSE f[1] = f[0]
      <4>1. 1 \in k + 1 .. n /\ 1 - 1 = 0
        BY <2>1, <1>0
      <4>2. /\ box[1] # Cleared /\ f[1 - 1] <= f[1]
            /\ IF box[1].is = "found" THEN box[1].list = SubSeq(matches, f[1 - 1] + 1, f[1])
               ELSE f[1] = f[1 - 1]
        BY <4>1, <1>1
      <4> QED
        BY <4>1, <4>2, <1>0
    <3>2. CASE m.is = "found"
      <4>1. f[1] \in f[0] .. Len(matches)
        BY <3>1, <2>0
      <4> QED
        BY <4>1, <3>1, <3>2, <2>0, <2>1, <1>1, <1>3, Joined
    <3>3. CASE m.is # "found"
      <4>1. m.is # "cleared"
        BY <3>1, <1>0, MessageIs
      <4> QED
        BY <4>1, <3>1, <3>3, <2>0, <2>1, <1>1, <1>3
    <3> QED
      BY <3>2, <3>3
  <2>2. CASE k = 1
    <3>1. box[1] = Cleared /\ f[1] = 0 /\ l = 0
      BY <2>2, <1>1, <1>3
    <3>2. now = SubSeq(matches, 1, 0)
      BY <3>1, <1>0, WholeIs
    <3> QED
      BY <3>1, <3>2, <2>0
  <2>3. CASE k # 0 /\ k # 1
    <3>1. l = k - 1 /\ l # 0 /\ k - 1 \in 0 .. n - 1 /\ k - 1 \in 1 .. n - 1 /\ k - 1 + 1 = k
      BY <2>3, <1>0, <1>3
    <3>2. g[l] = f[k] /\ rest[l] = box[k]
      BY <3>1, <1>0, <1>2
    <3> QED
      BY <3>1, <3>2, <2>3, <1>1
  <2> QED
    BY <2>1, <2>2, <2>3
<1>7. ASSUME NEW i \in l + 1 .. n - 1
      PROVE  /\ rest[i] # Cleared /\ g[i - 1] <= g[i]
             /\ IF rest[i].is = "found" THEN rest[i].list = SubSeq(matches, g[i - 1] + 1, g[i])
                ELSE g[i] = g[i - 1]
  <2>1. /\ i + 1 \in k + 1 .. n /\ i \in 1 .. n - 1 /\ i \in 0 .. n - 1 /\ i - 1 \in 0 .. n - 1
        /\ i - 1 + 1 = i /\ i + 1 - 1 = i
    BY <1>0, <1>3
  <2>2. rest[i] = box[i + 1] /\ g[i] = f[i + 1] /\ g[i - 1] = f[i]
    BY <2>1, <1>0, <1>2
  <2>3. /\ box[i + 1] # Cleared /\ f[i + 1 - 1] <= f[i + 1]
        /\ IF box[i + 1].is = "found" THEN box[i + 1].list = SubSeq(matches, f[i + 1 - 1] + 1, f[i + 1])
           ELSE f[i + 1] = f[i + 1 - 1]
    BY <2>1, <1>1
  <2> QED
    BY <2>1, <2>2, <2>3
<1> QED
  BY <1>0, <1>2, <1>3, <1>5, <1>6, <1>7 DEF Tracks

-----------------------------------------------------------------------------
(* The counts that are shown once all of a box is heard. *)

\* The count after m.
CountHeard(now, count, m) ==
  /\ m.is = "count" => now = m.n
  /\ m = Cleared => now = 0
  /\ m.is \notin {"count", "cleared"} => now = count

\* Messages about other things do not matter, nor does a clear without matches.
LEMMA CountInserted ==
  ASSUME NEW count, NEW box \in Seq(Messages), NEW n, NEW m \in Messages,
         m.is # "count", m = Cleared => n = 0,
         NEW w, NEW c, IsInserted(w, box, c, m), CountTracks(count, box, n)
  PROVE  CountTracks(count, w, n)
<1>0. /\ Len(box) \in Nat /\ Len(w) = Len(box) + 1 /\ c \in 1 .. Len(box) + 1 /\ w[c] = m
      /\ \A i \in 1 .. c - 1 : w[i] = box[i]
      /\ \A i \in c + 1 .. Len(box) + 1 : w[i] = box[i - 1]
  BY DEF IsInserted
<1>1. PICK k \in 0 .. Len(box) :
        /\ IF k = 0 THEN count = n ELSE box[k] = CountIs(n)
        /\ \A i \in k + 1 .. Len(box) : box[i].is # "count" /\ (box[i] = Cleared => n = 0)
  BY DEF CountTracks
<1> DEFINE l == IF k < c THEN k ELSE k + 1
<1>2. l \in 0 .. Len(w) /\ (k < c => l = k) /\ (k >= c => l = k + 1)
  BY <1>0
<1> HIDE DEF l
<1>3. IF l = 0 THEN count = n ELSE w[l] = CountIs(n)
  <2>1. CASE k = 0
    BY <2>1, <1>0, <1>1, <1>2
  <2>2. CASE k # 0 /\ k < c
    <3>1. k \in 1 .. c - 1 /\ l = k
      BY <2>2, <1>0, <1>2
    <3> QED
      BY <3>1, <2>2, <1>0, <1>1
  <2>3. CASE k # 0 /\ k >= c
    <3>1. l \in c + 1 .. Len(box) + 1 /\ l - 1 = k /\ l # 0
      BY <2>3, <1>0, <1>2
    <3>2. w[l] = box[l - 1]
      BY <3>1, <1>0
    <3> QED
      BY <3>1, <3>2, <2>3, <1>1
  <2> QED
    BY <2>1, <2>2, <2>3, <1>0
<1>4. ASSUME NEW i \in l + 1 .. Len(w)
      PROVE  w[i].is # "count" /\ (w[i] = Cleared => n = 0)
  <2>1. CASE i < c
    <3>1. i \in 1 .. c - 1 /\ i \in k + 1 .. Len(box)
      BY <2>1, <1>0, <1>2
    <3> QED
      BY <3>1, <1>0, <1>1
  <2>2. CASE i = c
    BY <2>2, <1>0
  <2>3. CASE i > c
    <3>1. i \in c + 1 .. Len(box) + 1 /\ i - 1 \in k + 1 .. Len(box)
      BY <2>3, <1>0, <1>2
    <3>2. w[i] = box[i - 1]
      BY <3>1, <1>0
    <3> QED
      BY <3>1, <3>2, <1>1
  <2> QED
    BY <2>1, <2>2, <2>3, <1>0, <1>2
<1> QED
  BY <1>2, <1>3, <1>4 DEF CountTracks

\* The count that was told last holds.
LEMMA CountTold ==
  ASSUME NEW count, NEW box \in Seq(Messages), NEW n \in Nat
  PROVE  CountTracks(count, Append(box, CountIs(n)), n)
<1>1. /\ Len(box) \in Nat /\ Len(Append(box, CountIs(n))) = Len(box) + 1
      /\ Append(box, CountIs(n))[Len(box) + 1] = CountIs(n)
  BY Appended, ToldAre
<1> HIDE DEF CountIs
<1>2. Len(box) + 1 \in 0 .. Len(box) + 1 /\ Len(box) + 1 # 0
      /\ \A i \in Len(box) + 1 + 1 .. Len(box) + 1 : FALSE
  BY <1>1
<1> QED
  BY <1>1, <1>2 DEF CountTracks

\* The count after the first message fits the rest.
LEMMA CountAfter ==
  ASSUME NEW count, NEW box \in Seq(Messages), NEW n,
         NEW rest, NEW m, IsHeard(rest, box, m), CountTracks(count, box, n),
         NEW now, CountHeard(now, count, m)
  PROVE  CountTracks(now, rest, n)
<1>0. /\ Len(box) \in Nat \ {0} /\ Len(rest) = Len(box) - 1 /\ m = box[1] /\ m \in Messages
      /\ \A i \in 1 .. Len(box) - 1 : rest[i] = box[i + 1]
  BY DEF IsHeard
<1>1. PICK k \in 0 .. Len(box) :
        /\ IF k = 0 THEN count = n ELSE box[k] = CountIs(n)
        /\ \A i \in k + 1 .. Len(box) : box[i].is # "count" /\ (box[i] = Cleared => n = 0)
  BY DEF CountTracks
<1> DEFINE l == IF k = 0 THEN 0 ELSE k - 1
<1>2. l \in 0 .. Len(rest) /\ (k = 0 => l = 0) /\ (k # 0 => l = k - 1)
  BY <1>0
<1> HIDE DEF l
<1>3. IF l = 0 THEN now = n ELSE rest[l] = CountIs(n)
  <2>1. CASE k = 0
    <3>1. 1 \in k + 1 .. Len(box)
      BY <2>1, <1>0
    <3>2. m.is # "count" /\ (m = Cleared => n = 0) /\ (m.is = "cleared" => m = Cleared)
      BY <3>1, <1>0, <1>1, MessageIs
    <3> QED
      BY <3>2, <2>1, <1>1, <1>2 DEF CountHeard
  <2>2. CASE k = 1
    <3>1. m = CountIs(n)
      BY <2>2, <1>0, <1>1
    <3> QED
      BY <3>1, <2>2, <1>2 DEF CountHeard, CountIs
  <2>3. CASE k # 0 /\ k # 1
    <3>1. l \in 1 .. Len(box) - 1 /\ l + 1 = k /\ l # 0
      BY <2>3, <1>0, <1>2
    <3> QED
      BY <3>1, <2>3, <1>0, <1>1
  <2> QED
    BY <2>1, <2>2, <2>3
<1>4. ASSUME NEW i \in l + 1 .. Len(rest)
      PROVE  rest[i].is # "count" /\ (rest[i] = Cleared => n = 0)
  <2>1. i \in 1 .. Len(box) - 1 /\ i + 1 \in k + 1 .. Len(box)
    BY <1>0, <1>2
  <2> QED
    BY <2>1, <1>0, <1>1
<1> QED
  BY <1>2, <1>3, <1>4 DEF CountTracks

-----------------------------------------------------------------------------
(* The count is zero when a message is heard. *)

\* A zero that was told stays told.
LEMMA ZeroInserted ==
  ASSUME NEW count, NEW box \in Seq(Messages), NEW m \in Messages,
         NEW w, NEW c, IsInserted(w, box, c, m),
         NEW i \in 1 .. Len(box), ZeroAt(count, box, i)
  PROVE  /\ i < c => ZeroAt(count, w, i)
         /\ i >= c /\ m.is # "count" => ZeroAt(count, w, i + 1)
<1>0. /\ Len(box) \in Nat /\ Len(w) = Len(box) + 1 /\ c \in 1 .. Len(box) + 1 /\ w[c] = m
      /\ \A x \in 1 .. c - 1 : w[x] = box[x]
      /\ \A x \in c + 1 .. Len(box) + 1 : w[x] = box[x - 1]
  BY DEF IsInserted
<1>1. PICK j \in 0 .. i - 1 :
        /\ IF j = 0 THEN count = 0 ELSE box[j] = CountIs(0)
        /\ \A x \in j + 1 .. i - 1 : box[x].is # "count"
  BY DEF ZeroAt
<1>2. ASSUME i < c PROVE ZeroAt(count, w, i)
  <2>1. \A x \in 1 .. i - 1 : w[x] = box[x]
    BY <1>0, <1>2
  <2>2. j # 0 => j \in 1 .. i - 1
    BY <1>0
  <2>3. \A x \in j + 1 .. i - 1 : x \in 1 .. i - 1
    BY <1>0
  <2> QED
    BY <2>1, <2>2, <2>3, <1>1 DEF ZeroAt
<1>3. ASSUME i >= c, m.is # "count" PROVE ZeroAt(count, w, i + 1)
  <2> DEFINE l == IF j < c THEN j ELSE j + 1
  <2>1. l \in 0 .. i + 1 - 1 /\ (j < c => l = j) /\ (j >= c => l = j + 1)
    BY <1>0, <1>3
  <2> HIDE DEF l
  <2>2. IF l = 0 THEN count = 0 ELSE w[l] = CountIs(0)
    <3>1. CASE j = 0
      BY <3>1, <2>1, <1>0, <1>1
    <3>2. CASE j # 0 /\ j < c
      <4>1. j \in 1 .. c - 1 /\ l = j
        BY <3>2, <2>1, <1>0
      <4> QED
        BY <4>1, <3>2, <1>0, <1>1
    <3>3. CASE j # 0 /\ j >= c
      <4>1. l \in c + 1 .. Len(box) + 1 /\ l - 1 = j /\ l # 0
        BY <3>3, <2>1, <1>0
      <4>2. w[l] = box[l - 1]
        BY <4>1, <1>0
      <4> QED
        BY <4>1, <4>2, <3>3, <1>1
    <3> QED
      BY <3>1, <3>2, <3>3, <1>0
  <2>3. ASSUME NEW x \in l + 1 .. i + 1 - 1 PROVE w[x].is # "count"
    <3>1. CASE x < c
      <4>1. x \in 1 .. c - 1 /\ x \in j + 1 .. i - 1
        BY <3>1, <2>1, <1>0, <1>3
      <4> QED
        BY <4>1, <1>0, <1>1
    <3>2. CASE x = c
      BY <3>2, <1>0, <1>3
    <3>3. CASE x > c
      <4>1. x \in c + 1 .. Len(box) + 1 /\ x - 1 \in j + 1 .. i - 1
        BY <3>3, <2>1, <1>0, <1>3
      <4>2. w[x] = box[x - 1]
        BY <4>1, <1>0
      <4> QED
        BY <4>1, <4>2, <1>1
    <3> QED
      BY <3>1, <3>2, <3>3, <1>0, <2>1
  <2> QED
    BY <2>1, <2>2, <2>3 DEF ZeroAt
<1> QED
  BY <1>2, <1>3

\* And it is still known when the first message is heard.
LEMMA ZeroAfter ==
  ASSUME NEW count, NEW box \in Seq(Messages),
         NEW rest, NEW m, IsHeard(rest, box, m), NEW now, CountHeard(now, count, m),
         NEW i \in 2 .. Len(box), ZeroAt(count, box, i)
  PROVE  ZeroAt(now, rest, i - 1)
<1>0. /\ Len(box) \in Nat \ {0} /\ Len(rest) = Len(box) - 1 /\ m = box[1] /\ m \in Messages
      /\ \A x \in 1 .. Len(box) - 1 : rest[x] = box[x + 1]
  BY DEF IsHeard
<1>1. PICK j \in 0 .. i - 1 :
        /\ IF j = 0 THEN count = 0 ELSE box[j] = CountIs(0)
        /\ \A x \in j + 1 .. i - 1 : box[x].is # "count"
  BY DEF ZeroAt
<1> DEFINE l == IF j = 0 THEN 0 ELSE j - 1
<1>2. l \in 0 .. i - 1 - 1 /\ (j = 0 => l = 0) /\ (j # 0 => l = j - 1)
  BY <1>0
<1> HIDE DEF l
<1>3. IF l = 0 THEN now = 0 ELSE rest[l] = CountIs(0)
  <2>1. CASE j = 0
    <3>1. 1 \in j + 1 .. i - 1
      BY <2>1, <1>0
    <3>2. m.is # "count" /\ (m.is = "cleared" => m = Cleared)
      BY <3>1, <1>0, <1>1, MessageIs
    <3> QED
      BY <3>2, <2>1, <1>1, <1>2 DEF CountHeard
  <2>2. CASE j = 1
    <3>1. m = CountIs(0)
      BY <2>2, <1>0, <1>1
    <3> QED
      BY <3>1, <2>2, <1>2 DEF CountHeard, CountIs
  <2>3. CASE j # 0 /\ j # 1
    <3>1. l \in 1 .. Len(box) - 1 /\ l + 1 = j /\ l # 0
      BY <2>3, <1>0, <1>2
    <3> QED
      BY <3>1, <2>3, <1>0, <1>1
  <2> QED
    BY <2>1, <2>2, <2>3
<1>4. ASSUME NEW x \in l + 1 .. i - 1 - 1
      PROVE  rest[x].is # "count"
  <2>1. x \in 1 .. Len(box) - 1 /\ x + 1 \in j + 1 .. i - 1
    BY <1>0, <1>2
  <2> QED
    BY <2>1, <1>0, <1>1
<1> QED
  BY <1>2, <1>3, <1>4 DEF ZeroAt

\* At the end of a box the count is what it tracks.
LEMMA ZeroAtEnd ==
  ASSUME NEW count, NEW box \in Seq(Messages), NEW m \in Messages,
         CountTracks(count, box, 0)
  PROVE  ZeroAt(count, Append(box, m), Len(box) + 1)
<1>0. Len(box) \in Nat /\ \A i \in 1 .. Len(box) : Append(box, m)[i] = box[i]
  BY Appended
<1>1. PICK k \in 0 .. Len(box) :
        /\ IF k = 0 THEN count = 0 ELSE box[k] = CountIs(0)
        /\ \A i \in k + 1 .. Len(box) : box[i].is # "count"
  BY DEF CountTracks
<1>2. k \in 0 .. Len(box) + 1 - 1 /\ Len(box) + 1 - 1 = Len(box)
  BY <1>0
<1>3. k # 0 => k \in 1 .. Len(box)
  BY <1>0
<1>4. \A i \in k + 1 .. Len(box) : i \in 1 .. Len(box)
  BY <1>0
<1> QED
  BY <1>0, <1>1, <1>2, <1>3, <1>4 DEF ZeroAt

\* The other count after m.
IndexedHeard(now, indexed, count, m) ==
  /\ m.is = "indexed" => now = m.n
  /\ m = Cleared => now = Minus(indexed, count)
  /\ m.is \notin {"indexed", "cleared"} => now = indexed

\* As for the count of matches; who clears knows of none.
LEMMA IndexedInserted ==
  ASSUME NEW indexed, NEW count, NEW box \in Seq(Messages), NEW n, NEW m \in Messages,
         m.is # "indexed", NEW w, NEW c, IsInserted(w, box, c, m),
         m.is = "count" => c = Len(box) + 1,
         m = Cleared => c = Len(box) + 1 /\ ZeroAt(count, w, c),
         IndexedTracks(indexed, count, box, n)
  PROVE  IndexedTracks(indexed, count, w, n)
<1>0. /\ Len(box) \in Nat /\ Len(w) = Len(box) + 1 /\ c \in 1 .. Len(box) + 1 /\ w[c] = m
      /\ \A i \in 1 .. c - 1 : w[i] = box[i]
      /\ \A i \in c + 1 .. Len(box) + 1 : w[i] = box[i - 1]
  BY DEF IsInserted
<1>1. PICK k \in 0 .. Len(box) :
        /\ IF k = 0 THEN indexed = n ELSE box[k] = [is |-> "indexed", n |-> n]
        /\ \A i \in k + 1 .. Len(box) :
             box[i].is # "indexed" /\ (box[i] = Cleared => ZeroAt(count, box, i))
  BY DEF IndexedTracks
<1> DEFINE l == IF k < c THEN k ELSE k + 1
<1>2. l \in 0 .. Len(w) /\ (k < c => l = k) /\ (k >= c => l = k + 1)
  BY <1>0
<1> HIDE DEF l
<1>3. IF l = 0 THEN indexed = n ELSE w[l] = [is |-> "indexed", n |-> n]
  <2>1. CASE k = 0
    BY <2>1, <1>0, <1>1, <1>2
  <2>2. CASE k # 0 /\ k < c
    <3>1. k \in 1 .. c - 1 /\ l = k
      BY <2>2, <1>0, <1>2
    <3> QED
      BY <3>1, <2>2, <1>0, <1>1
  <2>3. CASE k # 0 /\ k >= c
    <3>1. l \in c + 1 .. Len(box) + 1 /\ l - 1 = k /\ l # 0
      BY <2>3, <1>0, <1>2
    <3>2. w[l] = box[l - 1]
      BY <3>1, <1>0
    <3> QED
      BY <3>1, <3>2, <2>3, <1>1
  <2> QED
    BY <2>1, <2>2, <2>3, <1>0
<1>4. ASSUME NEW i \in l + 1 .. Len(w)
      PROVE  w[i].is # "indexed" /\ (w[i] = Cleared => ZeroAt(count, w, i))
  <2>1. CASE i < c
    <3>1. i \in 1 .. c - 1 /\ i \in k + 1 .. Len(box) /\ i \in 1 .. Len(box)
      BY <2>1, <1>0, <1>2
    <3>2. ZeroAt(count, box, i) => ZeroAt(count, w, i)
      BY <3>1, <2>1, ZeroInserted
    <3> QED
      BY <3>1, <3>2, <1>0, <1>1
  <2>2. CASE i = c
    BY <2>2, <1>0
  <2>3. CASE i > c
    <3>1. /\ i \in c + 1 .. Len(box) + 1 /\ i - 1 \in k + 1 .. Len(box)
          /\ i - 1 \in 1 .. Len(box) /\ i - 1 >= c /\ i - 1 + 1 = i /\ c # Len(box) + 1
      BY <2>3, <1>0, <1>2
    <3>2. w[i] = box[i - 1]
      BY <3>1, <1>0
    <3>3. ZeroAt(count, box, i - 1) => ZeroAt(count, w, i - 1 + 1)
      BY <3>1, ZeroInserted
    <3> QED
      BY <3>1, <3>2, <3>3, <1>1
  <2> QED
    BY <2>1, <2>2, <2>3, <1>0, <1>2
<1> QED
  BY <1>2, <1>3, <1>4 DEF IndexedTracks

\* The count that was told last holds.
LEMMA IndexedTold ==
  ASSUME NEW indexed, NEW count, NEW box \in Seq(Messages), NEW n \in Nat
  PROVE  IndexedTracks(indexed, count, Append(box, [is |-> "indexed", n |-> n]), n)
<1> DEFINE m == [is |-> "indexed", n |-> n]
<1>1. /\ Len(box) \in Nat /\ Len(Append(box, m)) = Len(box) + 1
      /\ Append(box, m)[Len(box) + 1] = m
  BY Appended, ToldAre
<1> HIDE DEF m
<1>2. Len(box) + 1 \in 0 .. Len(box) + 1 /\ Len(box) + 1 # 0
      /\ \A i \in Len(box) + 1 + 1 .. Len(box) + 1 : FALSE
  BY <1>1
<1>3. \E k \in 0 .. Len(Append(box, m)) :
         /\ IF k = 0 THEN indexed = n ELSE Append(box, m)[k] = m
         /\ \A i \in k + 1 .. Len(Append(box, m)) :
              /\ Append(box, m)[i].is # "indexed"
              /\ Append(box, m)[i] = Cleared => ZeroAt(count, Append(box, m), i)
  BY <1>1, <1>2
<1> QED
  BY <1>3 DEF IndexedTracks, m

\* The count after the first message fits the rest.
LEMMA IndexedAfter ==
  ASSUME NEW indexed \in Nat, NEW count \in Nat, NEW box \in Seq(Messages), NEW n,
         NEW rest, NEW m, IsHeard(rest, box, m), IndexedTracks(indexed, count, box, n),
         NEW now, CountHeard(now, count, m),
         NEW other, IndexedHeard(other, indexed, count, m)
  PROVE  IndexedTracks(other, now, rest, n)
<1>0. /\ Len(box) \in Nat \ {0} /\ Len(rest) = Len(box) - 1 /\ m = box[1] /\ m \in Messages
      /\ \A i \in 1 .. Len(box) - 1 : rest[i] = box[i + 1]
  BY DEF IsHeard
<1>1. PICK k \in 0 .. Len(box) :
        /\ IF k = 0 THEN indexed = n ELSE box[k] = [is |-> "indexed", n |-> n]
        /\ \A i \in k + 1 .. Len(box) :
             box[i].is # "indexed" /\ (box[i] = Cleared => ZeroAt(count, box, i))
  BY DEF IndexedTracks
<1> DEFINE l == IF k = 0 THEN 0 ELSE k - 1
<1>2. l \in 0 .. Len(rest) /\ (k = 0 => l = 0) /\ (k # 0 => l = k - 1)
  BY <1>0
<1> HIDE DEF l
<1>3. IF l = 0 THEN other = n ELSE rest[l] = [is |-> "indexed", n |-> n]
  <2>1. CASE k = 0
    <3>1. 1 \in k + 1 .. Len(box)
      BY <2>1, <1>0
    <3>2. m.is # "indexed" /\ (m = Cleared => ZeroAt(count, box, 1)) /\ (m.is = "cleared" => m = Cleared)
      BY <3>1, <1>0, <1>1, MessageIs
    <3>3. ZeroAt(count, box, 1) => count = 0
      BY DEF ZeroAt
    <3>4. count = 0 => Minus(indexed, count) = indexed
      BY DEF Minus
    <3> QED
      BY <3>2, <3>3, <3>4, <2>1, <1>1, <1>2 DEF IndexedHeard
  <2>2. CASE k = 1
    <3>1. m = [is |-> "indexed", n |-> n]
      BY <2>2, <1>0, <1>1
    <3> QED
      BY <3>1, <2>2, <1>2 DEF IndexedHeard
  <2>3. CASE k # 0 /\ k # 1
    <3>1. l \in 1 .. Len(box) - 1 /\ l + 1 = k /\ l # 0
      BY <2>3, <1>0, <1>2
    <3> QED
      BY <3>1, <2>3, <1>0, <1>1
  <2> QED
    BY <2>1, <2>2, <2>3
<1>4. ASSUME NEW i \in l + 1 .. Len(rest)
      PROVE  rest[i].is # "indexed" /\ (rest[i] = Cleared => ZeroAt(now, rest, i))
  <2>1. /\ i \in 1 .. Len(box) - 1 /\ i + 1 \in k + 1 .. Len(box)
        /\ i + 1 \in 2 .. Len(box) /\ i + 1 - 1 = i
    BY <1>0, <1>2
  <2>2. ZeroAt(count, box, i + 1) => ZeroAt(now, rest, i + 1 - 1)
    BY <2>1, ZeroAfter
  <2> QED
    BY <2>1, <2>2, <1>0, <1>1
<1> QED
  BY <1>2, <1>3, <1>4 DEF IndexedTracks

-----------------------------------------------------------------------------
(* Whenever matches are cleared the count is zero. *)

\* A message that is added: one that clears finds the count zero.
LEMMA ClearsInserted ==
  ASSUME NEW count, NEW box \in Seq(Messages), NEW m \in Messages,
         NEW w, NEW c, IsInserted(w, box, c, m),
         m.is = "count" => c = Len(box) + 1,
         m = Cleared => ZeroAt(count, w, c),
         ClearsCounted(count, box)
  PROVE  ClearsCounted(count, w)
<1>0. /\ Len(box) \in Nat /\ Len(w) = Len(box) + 1 /\ c \in 1 .. Len(box) + 1 /\ w[c] = m
      /\ DOMAIN w = 1 .. Len(box) + 1 /\ DOMAIN box = 1 .. Len(box)
      /\ \A i \in 1 .. c - 1 : w[i] = box[i]
      /\ \A i \in c + 1 .. Len(box) + 1 : w[i] = box[i - 1]
  BY DEF IsInserted
<1>a. ASSUME NEW j \in 1 .. Len(box)
      PROVE  (j < c => w[j] = box[j]) /\ (j >= c => w[j + 1] = box[j])
  <2>1. j >= c => j + 1 \in c + 1 .. Len(box) + 1 /\ j + 1 - 1 = j
    BY <1>0
  <2>2. j < c => j \in 1 .. c - 1
    BY <1>0
  <2>3. j >= c => w[j + 1] = box[j + 1 - 1]
    BY <2>1, <1>0
  <2> QED
    BY <2>1, <2>2, <2>3, <1>0
<1>1. SUFFICES ASSUME NEW i \in 1 .. Len(box) + 1, w[i] = Cleared
               PROVE  \/ ZeroAt(count, w, i)
                      \/ \E j \in i + 1 .. Len(w) : w[j] = CountIs(0)
  BY <1>0 DEF ClearsCounted
<1>2. CASE i = c
  BY <1>1, <1>2, <1>0
<1>3. CASE i < c
  <2>1. i \in 1 .. Len(box) /\ box[i] = Cleared
    BY <1>0, <1>1, <1>3
  <2>2. ZeroAt(count, box, i) => ZeroAt(count, w, i)
    BY <2>1, <1>3, ZeroInserted
  <2>3. ASSUME NEW j \in i + 1 .. Len(box), box[j] = CountIs(0)
        PROVE  \E x \in i + 1 .. Len(w) : w[x] = CountIs(0)
    <3>1. j \in 1 .. Len(box) /\ j \in i + 1 .. Len(w) /\ j + 1 \in i + 1 .. Len(w)
      BY <2>1, <1>0
    <3>2. w[j] = box[j] \/ w[j + 1] = box[j]
      BY <3>1, <1>a, <1>0
    <3> QED
      BY <3>1, <3>2, <2>3
  <2> QED
    BY <2>1, <2>2, <2>3, <1>0 DEF ClearsCounted
<1>4. CASE i > c
  <2>1. i - 1 \in 1 .. Len(box) /\ i - 1 >= c /\ i - 1 + 1 = i /\ c # Len(box) + 1
    BY <1>0, <1>4
  <2>2. box[i - 1] = Cleared
    BY <2>1, <1>a, <1>1
  <2>3. ZeroAt(count, box, i - 1) => ZeroAt(count, w, i - 1 + 1)
    BY <2>1, ZeroInserted
  <2>4. ASSUME NEW j \in i - 1 + 1 .. Len(box), box[j] = CountIs(0)
        PROVE  \E x \in i + 1 .. Len(w) : w[x] = CountIs(0)
    <3>1. j \in 1 .. Len(box) /\ j >= c /\ j + 1 \in i + 1 .. Len(w)
      BY <2>1, <1>0
    <3>2. w[j + 1] = box[j]
      BY <3>1, <1>a
    <3> QED
      BY <3>1, <3>2, <2>4
  <2>5. \/ ZeroAt(count, box, i - 1)
        \/ \E j \in i - 1 + 1 .. Len(box) : box[j] = CountIs(0)
    BY <2>1, <2>2, <1>0 DEF ClearsCounted
  <2> QED
    BY <2>1, <2>3, <2>4, <2>5
<1> QED
  BY <1>2, <1>3, <1>4, <1>0

\* Or the count is told right after.
LEMMA ClearsThenCounts ==
  ASSUME NEW count, NEW box \in Seq(Messages), ClearsCounted(count, box)
  PROVE  ClearsCounted(count, Append(Append(box, Cleared), CountIs(0)))
<1> DEFINE a == Append(box, Cleared)
           w == Append(a, CountIs(0))
<1>0. /\ a \in Seq(Messages) /\ Len(box) \in Nat /\ Len(a) = Len(box) + 1
      /\ Len(w) = Len(box) + 2 /\ DOMAIN w = 1 .. Len(box) + 2 /\ DOMAIN box = 1 .. Len(box)
      /\ w[Len(box) + 2] = CountIs(0)
  BY Appended, ToldAre
<1> HIDE DEF a, w
<1>1. SUFFICES ASSUME NEW i \in 1 .. Len(box) + 2, w[i] = Cleared
               PROVE  \E j \in i + 1 .. Len(w) : w[j] = CountIs(0)
  BY <1>0 DEF ClearsCounted, a, w
<1>2. i # Len(box) + 2
  BY <1>0, <1>1 DEF Cleared, CountIs
<1>3. Len(box) + 2 \in i + 1 .. Len(w)
  BY <1>0, <1>2
<1> QED
  BY <1>0, <1>3

\* Hearing keeps it.
LEMMA ClearsAfter ==
  ASSUME NEW count, NEW box \in Seq(Messages),
         NEW rest, NEW m, IsHeard(rest, box, m), NEW now, CountHeard(now, count, m),
         ClearsCounted(count, box)
  PROVE  ClearsCounted(now, rest)
<1>0. /\ Len(box) \in Nat \ {0} /\ Len(rest) = Len(box) - 1
      /\ DOMAIN box = 1 .. Len(box) /\ DOMAIN rest = 1 .. Len(box) - 1
      /\ \A i \in 1 .. Len(box) - 1 : rest[i] = box[i + 1]
  BY DEF IsHeard
<1>1. SUFFICES ASSUME NEW i \in 1 .. Len(box) - 1, rest[i] = Cleared
               PROVE  \/ ZeroAt(now, rest, i)
                      \/ \E j \in i + 1 .. Len(rest) : rest[j] = CountIs(0)
  BY <1>0 DEF ClearsCounted
<1>2. i + 1 \in 1 .. Len(box) /\ i + 1 \in 2 .. Len(box) /\ i + 1 - 1 = i
  BY <1>0
<1>3. \/ ZeroAt(count, box, i + 1)
      \/ \E j \in i + 1 + 1 .. Len(box) : box[j] = CountIs(0)
  BY <1>0, <1>1, <1>2 DEF ClearsCounted
<1>4. ZeroAt(count, box, i + 1) => ZeroAt(now, rest, i + 1 - 1)
  BY <1>2, ZeroAfter
<1>5. ASSUME NEW j \in i + 1 + 1 .. Len(box), box[j] = CountIs(0)
      PROVE  \E x \in i + 1 .. Len(rest) : rest[x] = CountIs(0)
  <2>1. j - 1 \in i + 1 .. Len(rest) /\ j - 1 \in 1 .. Len(box) - 1 /\ j - 1 + 1 = j
    BY <1>0
  <2>2. rest[j - 1] = box[j - 1 + 1]
    BY <2>1, <1>0
  <2> QED
    BY <2>1, <2>2, <1>5
<1> QED
  BY <1>2, <1>3, <1>4, <1>5

-----------------------------------------------------------------------------
(* A zero that waits, and the end of a search that is heard of. *)

\* What is in a box when a message is put in.
LEMMA AheadInserted ==
  ASSUME NEW box \in Seq(Messages), NEW m, NEW w, NEW c, IsInserted(w, box, c, m)
  PROVE  /\ ZeroAhead(box) => ZeroAhead(w)
         /\ m = CountIs(0) => ZeroAhead(w)
         /\ \A j \in DOMAIN box : \E i \in DOMAIN w : w[i] = box[j]
         /\ \A i \in DOMAIN w : w[i] = m \/ \E j \in DOMAIN box : w[i] = box[j]
<1>0. /\ Len(box) \in Nat /\ c \in 1 .. Len(box) + 1 /\ w[c] = m
      /\ DOMAIN w = 1 .. Len(box) + 1 /\ DOMAIN box = 1 .. Len(box)
      /\ \A i \in 1 .. c - 1 : w[i] = box[i]
      /\ \A i \in c + 1 .. Len(box) + 1 : w[i] = box[i - 1]
  BY DEF IsInserted
<1>1. ASSUME NEW j \in 1 .. Len(box)
      PROVE  \E i \in 1 .. Len(box) + 1 : w[i] = box[j]
  <2>1. CASE j < c
    <3>1. j \in 1 .. c - 1 /\ j \in 1 .. Len(box) + 1
      BY <2>1, <1>0
    <3> QED
      BY <3>1, <1>0
  <2>2. CASE j >= c
    <3>1. j + 1 \in c + 1 .. Len(box) + 1 /\ j + 1 \in 1 .. Len(box) + 1 /\ j + 1 - 1 = j
      BY <2>2, <1>0
    <3>2. w[j + 1] = box[j + 1 - 1]
      BY <3>1, <1>0
    <3> QED
      BY <3>1, <3>2
  <2> QED
    BY <2>1, <2>2, <1>0
<1>2. ASSUME NEW i \in 1 .. Len(box) + 1, i # c
      PROVE  \E j \in 1 .. Len(box) : w[i] = box[j]
  <2>1. CASE i < c
    <3>1. i \in 1 .. c - 1 /\ i \in 1 .. Len(box)
      BY <2>1, <1>0
    <3> QED
      BY <3>1, <1>0
  <2>2. CASE i > c
    <3>1. i \in c + 1 .. Len(box) + 1 /\ i - 1 \in 1 .. Len(box)
      BY <2>2, <1>0
    <3> QED
      BY <3>1, <1>0
  <2> QED
    BY <2>1, <2>2, <1>0, <1>2
<1>3. ZeroAhead(box) => ZeroAhead(w)
  BY <1>0, <1>1 DEF ZeroAhead
<1>4. m = CountIs(0) => ZeroAhead(w)
  BY <1>0 DEF ZeroAhead
<1> QED
  BY <1>0, <1>1, <1>2, <1>3, <1>4

\* What is in a box when its first message is heard.
LEMMA AheadAfter ==
  ASSUME NEW box \in Seq(Messages), NEW rest, NEW m, IsHeard(rest, box, m)
  PROVE  /\ ZeroAhead(box) /\ m # CountIs(0) => ZeroAhead(rest)
         /\ \A i \in DOMAIN rest : \E j \in DOMAIN box : rest[i] = box[j]
         /\ \A j \in DOMAIN box : box[j] = m \/ \E i \in DOMAIN rest : rest[i] = box[j]
<1>0. /\ Len(box) \in Nat \ {0} /\ m = box[1]
      /\ DOMAIN box = 1 .. Len(box) /\ DOMAIN rest = 1 .. Len(box) - 1
      /\ \A i \in 1 .. Len(box) - 1 : rest[i] = box[i + 1]
  BY DEF IsHeard
<1>1. ASSUME NEW j \in 1 .. Len(box), j # 1
      PROVE  \E i \in 1 .. Len(box) - 1 : rest[i] = box[j]
  <2>1. j - 1 \in 1 .. Len(box) - 1 /\ j - 1 + 1 = j
    BY <1>0, <1>1
  <2>2. rest[j - 1] = box[j - 1 + 1]
    BY <2>1, <1>0
  <2> QED
    BY <2>1, <2>2
<1>2. ASSUME NEW i \in 1 .. Len(box) - 1
      PROVE  \E j \in 1 .. Len(box) : rest[i] = box[j]
  <2>1. i + 1 \in 1 .. Len(box)
    BY <1>0
  <2> QED
    BY <2>1, <1>0
<1>3. ZeroAhead(box) /\ m # CountIs(0) => ZeroAhead(rest)
  BY <1>0, <1>1 DEF ZeroAhead
<1> QED
  BY <1>0, <1>1, <1>2, <1>3

\* An end that will be heard will still be heard, unless the search begins.
LEMMA EndInserted ==
  ASSUME NEW phase, NEW box \in Seq(Messages), NEW o, NEW m,
         NEW w, NEW c, IsInserted(w, box, c, m),
         m # PhaseIs(o, "running"), HearsEnd(phase, box, o)
  PROVE  HearsEnd(phase, w, o)
<1>0. /\ Len(box) \in Nat /\ Len(w) = Len(box) + 1 /\ c \in 1 .. Len(box) + 1 /\ w[c] = m
      /\ DOMAIN w = 1 .. Len(box) + 1 /\ DOMAIN box = 1 .. Len(box)
      /\ \A i \in 1 .. c - 1 : w[i] = box[i]
      /\ \A i \in c + 1 .. Len(box) + 1 : w[i] = box[i - 1]
  BY DEF IsInserted
<1>1. CASE phase # "running" /\ \A i \in DOMAIN box : box[i] # PhaseIs(o, "running")
  <2>1. \A i \in DOMAIN w : w[i] # PhaseIs(o, "running")
    BY <1>1, AheadInserted
  <2> QED
    BY <2>1, <1>1 DEF HearsEnd
<1>2. ASSUME NEW k \in DOMAIN box,
             \E p \in {"success", "failed"} : box[k] = PhaseIs(o, p),
             \A i \in k + 1 .. Len(box) : box[i] # PhaseIs(o, "running")
      PROVE  HearsEnd(phase, w, o)
  <2> DEFINE l == IF k < c THEN k ELSE k + 1
  <2>1. l \in 1 .. Len(box) + 1 /\ (k < c => l = k) /\ (k >= c => l = k + 1) /\ k \in 1 .. Len(box)
    BY <1>0
  <2> HIDE DEF l
  <2>2. w[l] = box[k]
    <3>1. CASE k < c
      <4>1. k \in 1 .. c - 1 /\ l = k
        BY <3>1, <2>1, <1>0
      <4> QED
        BY <4>1, <1>0
    <3>2. CASE k >= c
      <4>1. l \in c + 1 .. Len(box) + 1 /\ l - 1 = k
        BY <3>2, <2>1, <1>0
      <4>2. w[l] = box[l - 1]
        BY <4>1, <1>0
      <4> QED
        BY <4>1, <4>2
    <3> QED
      BY <3>1, <3>2, <2>1, <1>0
  <2>3. ASSUME NEW i \in l + 1 .. Len(w) PROVE w[i] # PhaseIs(o, "running")
    <3>1. CASE i < c
      <4>1. i \in 1 .. c - 1 /\ i \in k + 1 .. Len(box)
        BY <3>1, <2>1, <1>0
      <4> QED
        BY <4>1, <1>0, <1>2
    <3>2. CASE i = c
      BY <3>2, <1>0
    <3>3. CASE i > c
      <4>1. i \in c + 1 .. Len(box) + 1 /\ i - 1 \in k + 1 .. Len(box)
        BY <3>3, <2>1, <1>0
      <4>2. w[i] = box[i - 1]
        BY <4>1, <1>0
      <4> QED
        BY <4>1, <4>2, <1>2
    <3> QED
      BY <3>1, <3>2, <3>3, <2>1, <1>0
  <2> QED
    BY <2>1, <2>2, <2>3, <1>0, <1>2 DEF HearsEnd
<1> QED
  BY <1>1, <1>2 DEF HearsEnd

\* An end that is told will be heard.
LEMMA EndTold ==
  ASSUME NEW phase, NEW box \in Seq(Messages), NEW o \in Ops, NEW p \in {"success", "failed"}
  PROVE  HearsEnd(phase, Append(box, PhaseIs(o, p)), o)
<1>1. /\ Len(box) \in Nat /\ Len(Append(box, PhaseIs(o, p))) = Len(box) + 1
      /\ DOMAIN Append(box, PhaseIs(o, p)) = 1 .. Len(box) + 1
      /\ Append(box, PhaseIs(o, p))[Len(box) + 1] = PhaseIs(o, p)
  BY Appended, ToldAre
<1>2. Len(box) + 1 \in 1 .. Len(box) + 1 /\ \A i \in Len(box) + 1 + 1 .. Len(box) + 1 : FALSE
  BY <1>1
<1> QED
  BY <1>1, <1>2 DEF HearsEnd

\* Hearing keeps it: what is found ends a phase too.
LEMMA EndAfter ==
  ASSUME NEW phase, NEW box \in Seq(Messages), NEW o,
         NEW rest, NEW m, IsHeard(rest, box, m), HearsEnd(phase, box, o),
         NEW now, \A p : m = PhaseIs(o, p) => now = p,
         now # phase => now = "success" \/ \E p : m = PhaseIs(o, p) /\ now = p
  PROVE  HearsEnd(now, rest, o)
<1>0. /\ Len(box) \in Nat \ {0} /\ Len(rest) = Len(box) - 1 /\ m = box[1]
      /\ DOMAIN box = 1 .. Len(box) /\ DOMAIN rest = 1 .. Len(box) - 1
      /\ \A i \in 1 .. Len(box) - 1 : rest[i] = box[i + 1]
  BY DEF IsHeard
<1>1. CASE phase # "running" /\ \A i \in DOMAIN box : box[i] # PhaseIs(o, "running")
  <2>1. \A i \in DOMAIN rest : rest[i] # PhaseIs(o, "running")
    BY <1>1, AheadAfter
  <2>2. m # PhaseIs(o, "running")
    BY <1>1, <1>0
  <2>3. now # "running"
    BY <2>2, <1>1
  <2> QED
    BY <2>1, <2>3 DEF HearsEnd
<1>2. ASSUME NEW k \in DOMAIN box, NEW p \in {"success", "failed"}, box[k] = PhaseIs(o, p),
             \A i \in k + 1 .. Len(box) : box[i] # PhaseIs(o, "running")
      PROVE  HearsEnd(now, rest, o)
  <2>1. ASSUME NEW i \in 1 .. Len(box) - 1, i >= k PROVE rest[i] # PhaseIs(o, "running")
    <3>1. i + 1 \in k + 1 .. Len(box)
      BY <2>1, <1>0
    <3> QED
      BY <3>1, <1>0, <1>2
  <2>2. CASE k = 1
    <3>1. now = p
      BY <2>2, <1>0, <1>2
    <3>2. \A i \in DOMAIN rest : rest[i] # PhaseIs(o, "running")
      BY <2>1, <2>2, <1>0
    <3> QED
      BY <3>1, <3>2 DEF HearsEnd
  <2>3. CASE k # 1
    <3>1. k - 1 \in 1 .. Len(box) - 1 /\ k - 1 + 1 = k
      BY <2>3, <1>0
    <3>2. rest[k - 1] = box[k - 1 + 1]
      BY <3>1, <1>0
    <3>3. \A i \in k - 1 + 1 .. Len(rest) : i \in 1 .. Len(box) - 1 /\ i >= k
      BY <3>1, <1>0
    <3> QED
      BY <3>1, <3>2, <3>3, <2>1, <1>0, <1>2 DEF HearsEnd
  <2> QED
    BY <2>2, <2>3
<1> QED
  BY <1>1, <1>2 DEF HearsEnd

-----------------------------------------------------------------------------
(* Nested matches *)

\* The candidates are rows of the results; around an anchor they are all the
\* others, each at its distance.
LEMMA CandidatesAre ==
  ASSUME NEW n \in Nat, NEW anchor \in Nat, NEW next
  PROVE  /\ Candidates(n, anchor, next) \in Seq(1 .. n)
         /\ anchor \in 1 .. n =>
              /\ Len(Candidates(n, anchor, next)) = n - 1
              /\ \A i \in 1 .. n - 1 :
                   /\ Candidates(n, anchor, next)[i] # anchor
                   /\ Steps(n, anchor, Candidates(n, anchor, next)[i], next) = i
              /\ \A h \in (1 .. n) \ {anchor} :
                   /\ Steps(n, anchor, h, next) \in 1 .. n - 1
                   /\ Candidates(n, anchor, next)[Steps(n, anchor, h, next)] = h
<1> DEFINE from == IF anchor <= n THEN anchor ELSE NoAnchor
           many == IF from = NoAnchor THEN n ELSE n - 1
           e(i) == CandidateAt(n, from, next, i)
           list == Candidates(n, anchor, next)
<1>1. from \in 0 .. n /\ many \in Nat
  BY DEF NoAnchor
<1>2. list = [i \in 1 .. many |-> e(i)]
  BY DEF Candidates
<1>3. \A i \in 1 .. many : e(i) \in 1 .. n
  BY <1>1 DEF CandidateAt, NoAnchor
<1>4. anchor \in 1 .. n => from = anchor /\ many = n - 1
  BY DEF NoAnchor
<1>5. ASSUME anchor \in 1 .. n, NEW i \in 1 .. n - 1
      PROVE  e(i) # anchor /\ Steps(n, anchor, e(i), next) = i
  BY <1>4, <1>5 DEF CandidateAt, NoAnchor, Steps
<1>6. ASSUME anchor \in 1 .. n, NEW h \in (1 .. n) \ {anchor}
      PROVE  Steps(n, anchor, h, next) \in 1 .. n - 1 /\ e(Steps(n, anchor, h, next)) = h
  BY <1>4, <1>6 DEF CandidateAt, NoAnchor, Steps
<1> HIDE DEF e, list, many, from
<1>7. list \in [1 .. many -> 1 .. n]
  BY <1>2, <1>3
<1>8. list \in Seq(1 .. n)
  BY <1>1, <1>7
<1>9. Len(list) = many
  <2>1. DOMAIN list = 1 .. many /\ DOMAIN list = 1 .. Len(list) /\ Len(list) \in Nat
    BY <1>7, <1>8, LenProperties
  <2> QED
    BY <2>1, <1>1
<1>10. \A i \in 1 .. many : list[i] = e(i)
  BY <1>2
<1> QED
  BY <1>4, <1>5, <1>6, <1>8, <1>9, <1>10 DEF list

\* The answer is the first candidate that is a hit.
LEMMA MatchIs ==
  ASSUME NEW matches, Len(matches) \in Nat, NEW f, NEW anchor \in Nat, NEW next
  PROVE  LET list == Candidates(Len(matches), anchor, next)
             r == NestedMatch(matches, f, anchor, next)
         IN  \/ /\ r = NoAnchor
                /\ \A i \in 1 .. Len(list) : matches[list[i]] \notin Hits[f]
             \/ /\ r \in 1 .. Len(matches) /\ matches[r] \in Hits[f]
                /\ \E i \in 1 .. Len(list) :
                     /\ r = list[i]
                     /\ \A j \in 1 .. Len(list) : matches[list[j]] \in Hits[f] => i <= j
<1> DEFINE list == Candidates(Len(matches), anchor, next)
           r == NestedMatch(matches, f, anchor, next)
           I == {i \in 1 .. Len(list) : matches[list[i]] \in Hits[f]}
           hit == IF I # {} THEN CHOOSE x \in I : \A y \in I : x <= y ELSE 0
<1>0. Len(list) \in Nat /\ \A i \in 1 .. Len(list) : list[i] \in 1 .. Len(matches)
  <2>1. list \in Seq(1 .. Len(matches))
    BY CandidatesAre
  <2> QED
    BY <2>1, LenProperties, ElementOfSeq
<1>1. r = IF hit = 0 THEN NoAnchor ELSE list[hit]
  BY Zenon DEF NestedMatch, SelectInSeq, Min
<1> HIDE DEF r, list
<1>2. I \in SUBSET Nat
  BY <1>0
<1>3. CASE I = {}
  <2>1. r = NoAnchor
    BY <1>1, <1>3
  <2> QED
    BY <2>1, <1>3 DEF r, list
<1>4. CASE I # {}
  <2>1. \E x \in I : \A y \in I : x <= y
    BY <1>2, <1>4, SmallestIsThere
  <2>2. hit \in I /\ \A y \in I : hit <= y
    BY <2>1, <1>4
  <2> HIDE DEF hit
  <2>3. hit \in 1 .. Len(list) /\ hit # 0 /\ matches[list[hit]] \in Hits[f]
    BY <2>2, <1>0
  <2>4. r = list[hit] /\ r \in 1 .. Len(matches) /\ matches[r] \in Hits[f]
    BY <2>3, <1>0, <1>1
  <2>5. \A j \in 1 .. Len(list) : matches[list[j]] \in Hits[f] => hit <= j
    BY <2>2
  <2> QED
    BY <2>3, <2>4, <2>5 DEF r, list
<1> QED
  BY <1>3, <1>4

\* Of all hits but the anchor the answer is the nearest one, whatever rows
\* were found (handle_search_nested_match).
LEMMA NearestIsFound ==
  ASSUME NEW matches, Len(matches) \in Nat, NEW f, NEW anchor \in 1 .. Len(matches), NEW next
  PROVE  LET n     == Len(matches)
             hits  == {h \in 1 .. n : matches[h] \in Hits[f]} \ {anchor}
             found == NestedMatch(matches, f, anchor, next)
         IN  IF hits = {} THEN found = NoAnchor
             ELSE /\ found \in hits
                  /\ \A h \in hits : Steps(n, anchor, found, next) <= Steps(n, anchor, h, next)
<1> DEFINE n     == Len(matches)
           hits  == {h \in 1 .. n : matches[h] \in Hits[f]} \ {anchor}
           found == NestedMatch(matches, f, anchor, next)
           list == Candidates(n, anchor, next)
<1>0. n \in Nat /\ anchor \in Nat /\ anchor \in 1 .. n
  OBVIOUS
<1>a. /\ Len(matches) \in Nat /\ anchor \in Nat
  OBVIOUS
<1> HIDE DEF n
<1>1. /\ Len(list) = n - 1
      /\ \A i \in 1 .. n - 1 : list[i] # anchor /\ Steps(n, anchor, list[i], next) = i
      /\ \A h \in (1 .. n) \ {anchor} :
           Steps(n, anchor, h, next) \in 1 .. n - 1 /\ list[Steps(n, anchor, h, next)] = h
  <2>1. Len(Candidates(n, anchor, next)) = n - 1
    BY <1>0, CandidatesAre
  <2>2. \A i \in 1 .. n - 1 :
          /\ Candidates(n, anchor, next)[i] # anchor
          /\ Steps(n, anchor, Candidates(n, anchor, next)[i], next) = i
    BY <1>0, CandidatesAre
  <2>3. \A h \in (1 .. n) \ {anchor} :
          /\ Steps(n, anchor, h, next) \in 1 .. n - 1
          /\ Candidates(n, anchor, next)[Steps(n, anchor, h, next)] = h
    BY <1>0, CandidatesAre
  <2> QED
    BY <2>1, <2>2, <2>3
<1>2. \/ /\ found = NoAnchor
         /\ \A i \in 1 .. Len(list) : matches[list[i]] \notin Hits[f]
      \/ /\ found \in 1 .. n /\ matches[found] \in Hits[f]
         /\ \E i \in 1 .. Len(list) :
              /\ found = list[i]
              /\ \A j \in 1 .. Len(list) : matches[list[j]] \in Hits[f] => i <= j
  BY <1>a, MatchIs DEF n
<1> HIDE DEF list, found
<1>3. CASE found = NoAnchor /\ \A i \in 1 .. Len(list) : matches[list[i]] \notin Hits[f]
  <2>1. \A h \in hits : FALSE
    BY <1>1, <1>3
  <2> QED
    BY <2>1, <1>3 DEF list, found, n
<1>4. ASSUME found \in 1 .. n, matches[found] \in Hits[f], NEW i \in 1 .. Len(list), found = list[i],
             \A j \in 1 .. Len(list) : matches[list[j]] \in Hits[f] => i <= j
      PROVE  /\ found \in hits
             /\ \A h \in hits : Steps(n, anchor, found, next) <= Steps(n, anchor, h, next)
  <2>1. found # anchor /\ Steps(n, anchor, found, next) = i
    BY <1>1, <1>4
  <2>2. ASSUME NEW h \in hits PROVE i <= Steps(n, anchor, h, next)
    <3>1. h \in (1 .. n) \ {anchor} /\ matches[h] \in Hits[f]
      OBVIOUS
    <3>2. /\ Steps(n, anchor, h, next) \in 1 .. Len(list)
          /\ list[Steps(n, anchor, h, next)] = h
      BY <3>1, <1>1
    <3> QED
      BY <3>1, <3>2, <1>4
  <2> QED
    BY <2>1, <2>2, <1>4
<1>5. \/ found = NoAnchor /\ hits = {}
      \/ /\ found \in hits
         /\ \A h \in hits : Steps(n, anchor, found, next) <= Steps(n, anchor, h, next)
  <2>1. CASE found = NoAnchor /\ \A i \in 1 .. Len(list) : matches[list[i]] \notin Hits[f]
    <3>1. \A h \in hits : FALSE
      BY <1>1, <2>1
    <3> QED
      BY <3>1, <2>1
  <2> QED
    BY <2>1, <1>2, <1>4
<1> QED
  BY <1>5 DEF list, found, n

-----------------------------------------------------------------------------
(* What the core tells when it changes. *)

\* The parts of the core.
LEMMA CoreIs ==
  ASSUME NEW c \in Cores
  PROVE  /\ c.rows \in Nat /\ c.map \in Seq(Entries) /\ Len(c.map) \in Nat
         /\ c.found \in SUBSET Entries /\ c.marks \in SUBSET Nat
         /\ IsFiniteSet(c.found) /\ IsFiniteSet(c.marks)
         /\ c.slot \in {"empty", "lent", "ready"} /\ c.by \in Ops \cup {NoOp}
         /\ c.slot # "empty" => c.by \in Ops
         /\ c.upTo \in Nat /\ c.asides \in Nat
         /\ Cardinality(c.found \cup c.marks) \in Nat
         /\ IndexedIs(c) = [is |-> "indexed", n |-> Cardinality(c.found \cup c.marks)]
         /\ IndexedIs(c) \in Messages
<1>1. IsFiniteSet(c.found) /\ IsFiniteSet(c.marks)
  BY DEF Cores
<1>2. Cardinality(c.found \cup c.marks) \in Nat
  BY <1>1, FS_Union, FS_CardinalityType
<1>3. IndexedIs(c) = [is |-> "indexed", n |-> Cardinality(c.found \cup c.marks)]
  BY DEF IndexedIs
<1>4. IndexedIs(c) \in Messages
  BY <1>2, <1>3, ToldAre
<1>5. c.map \in Seq(Entries)
  BY DEF Cores
<1>6. Len(c.map) \in Nat
  BY <1>5, LenProperties
<1> QED
  BY <1>1, <1>2, <1>3, <1>4, <1>5, <1>6 DEF Cores

\* api/indexes: a drop of the search.
LEMMA DropIs ==
  ASSUME NEW c \in Cores
  PROVE  /\ DropOf(c).core \in Cores /\ DropOf(c).events \in Seq(Messages)
         /\ c.slot = "lent" =>
              /\ DropOf(c).core = c
              /\ DropOf(c).events = <<CountIs(0), Cleared>>
         /\ c.slot # "lent" =>
              /\ DropOf(c).core.map = << >> /\ DropOf(c).core.slot = "empty"
              /\ DropOf(c).events = <<IndexedIs(DropOf(c).core), CountIs(0), Cleared>>
         /\ DropOf(c).core.rows = c.rows /\ DropOf(c).core.asides = c.asides
<1>1. CASE c.slot = "lent"
  <2>1. DropOf(c) = [core |-> c, events |-> <<CountIs(0), Cleared>>]
    BY <1>1 DEF DropOf
  <2>2. <<CountIs(0), Cleared>> \in Seq(Messages)
    BY ToldAre
  <2> QED
    BY <2>1, <2>2, <1>1
<1>2. CASE c.slot # "lent"
  <2> DEFINE d == WithoutSearch(c)
  <2>1. DropOf(c) = [core |-> d, events |-> <<IndexedIs(d), CountIs(0), Cleared>>]
    BY <1>2 DEF DropOf
  <2>2. /\ d \in [rows : Nat, map : Seq(Entries), found : SUBSET Entries, marks : SUBSET Nat,
                 slot : {"empty", "lent", "ready"}, by : Ops \cup {NoOp}, upTo : Nat,
                 asides : Nat]
        /\ d.map = << >> /\ d.found = {} /\ d.slot = "empty" /\ d.marks = c.marks
        /\ d.rows = c.rows /\ d.asides = c.asides
    <3>1. << >> \in Seq(Entries)
      BY EmptySeq
    <3> QED
      BY <3>1 DEF WithoutSearch, Cores
  <2>3. IsFiniteSet(d.found) /\ IsFiniteSet(d.marks)
    BY <2>2, FS_EmptySet DEF Cores
  <2> HIDE DEF d
  <2>4. d \in Cores
    BY <2>2, <2>3 DEF Cores
  <2>5. IndexedIs(d) \in Messages
    BY <2>4, CoreIs
  <2>6. <<IndexedIs(d), CountIs(0), Cleared>> \in Seq(Messages)
    BY <2>5, ToldAre
  <2> QED
    BY <2>1, <2>2, <2>4, <2>6, <1>2
<1> QED
  BY <1>1, <1>2

\* w is box with the messages of M put into it.
Adds(w, box, M) ==
  /\ w \in Seq(Messages)
  /\ \A j \in DOMAIN box : \E i \in DOMAIN w : w[i] = box[j]
  /\ \A i \in DOMAIN w : w[i] \in M \/ \E j \in DOMAIN box : w[i] = box[j]
  /\ \A m \in M : \E i \in DOMAIN w : w[i] = m
  /\ \A phase, o : HearsEnd(phase, box, o) /\ PhaseIs(o, "running") \notin M =>
       HearsEnd(phase, w, o)

\* No message.
LEMMA AddsNone ==
  ASSUME NEW box \in Seq(Messages)
  PROVE  Adds(box, box, {})
BY DEF Adds

\* One message more.
LEMMA AddsMore ==
  ASSUME NEW box, NEW w \in Seq(Messages), NEW M, Adds(w, box, M),
         NEW m \in Messages, NEW x, NEW c, IsInserted(x, w, c, m)
  PROVE  Adds(x, box, M \cup {m})
<1>1. x \in Seq(Messages)
  BY DEF IsInserted
<1>2. /\ \A j \in DOMAIN w : \E i \in DOMAIN x : x[i] = w[j]
      /\ \A i \in DOMAIN x : x[i] = m \/ \E j \in DOMAIN w : x[i] = w[j]
  BY AheadInserted
<1>3. \E i \in DOMAIN x : x[i] = m
  BY DEF IsInserted
<1>4. \A j \in DOMAIN box : \E i \in DOMAIN x : x[i] = box[j]
  <2> TAKE j \in DOMAIN box
  <2>1. PICK i \in DOMAIN w : w[i] = box[j]
    BY DEF Adds
  <2> QED
    BY <2>1, <1>2
<1>5. \A i \in DOMAIN x : x[i] \in M \cup {m} \/ \E j \in DOMAIN box : x[i] = box[j]
  <2> TAKE i \in DOMAIN x
  <2>1. CASE x[i] = m
    BY <2>1
  <2>2. ASSUME NEW j \in DOMAIN w, x[i] = w[j]
        PROVE  x[i] \in M \cup {m} \/ \E k \in DOMAIN box : x[i] = box[k]
    BY <2>2 DEF Adds
  <2> QED
    BY <2>1, <2>2, <1>2
<1>6. \A e \in M \cup {m} : \E i \in DOMAIN x : x[i] = e
  <2> TAKE e \in M \cup {m}
  <2>1. CASE e = m
    BY <2>1, <1>3
  <2>2. CASE e \in M
    <3>1. PICK j \in DOMAIN w : w[j] = e
      BY <2>2 DEF Adds
    <3> QED
      BY <3>1, <1>2
  <2> QED
    BY <2>1, <2>2
<1>7. ASSUME NEW phase, NEW o, HearsEnd(phase, box, o), PhaseIs(o, "running") \notin M \cup {m}
      PROVE  HearsEnd(phase, x, o)
  <2>1. HearsEnd(phase, w, o) /\ m # PhaseIs(o, "running")
    BY <1>7 DEF Adds
  <2> QED
    BY <2>1, EndInserted
<1> QED
  BY <1>1, <1>4, <1>5, <1>6, <1>7 DEF Adds

\* A zero that was told stays told.
LEMMA AddsAhead ==
  ASSUME NEW w, NEW box, NEW M, Adds(w, box, M)
  PROVE  ZeroAhead(box) \/ CountIs(0) \in M => ZeroAhead(w)
BY DEF Adds, ZeroAhead

\* One message.
LEMMA AddsOne ==
  ASSUME NEW box \in Seq(Messages), NEW a \in Messages
  PROVE  Adds(Append(box, a), box, {a})
<1>1. Adds(Append(box, a), box, {} \cup {a})
  BY AddsNone, AddsMore, InsertedIs
<1> QED
  BY <1>1

\* Two messages.
LEMMA AddsTwo ==
  ASSUME NEW box \in Seq(Messages), NEW a \in Messages, NEW b \in Messages
  PROVE  Adds(Append(Append(box, a), b), box, {a, b})
<1>0. Append(box, a) \in Seq(Messages)
  BY Appended
<1>1. Adds(Append(Append(box, a), b), box, {a} \cup {b})
  BY <1>0, AddsOne, AddsMore, InsertedIs
<1>2. {a} \cup {b} = {a, b}
  OBVIOUS
<1> QED
  BY <1>1, <1>2, Zenon

\* Three messages.
LEMMA AddsThree ==
  ASSUME NEW box \in Seq(Messages), NEW a \in Messages, NEW b \in Messages,
         NEW c \in Messages
  PROVE  Adds(Append(Append(Append(box, a), b), c), box, {a, b, c})
<1>0. Append(Append(box, a), b) \in Seq(Messages)
  BY Appended
<1>1. Adds(Append(Append(Append(box, a), b), c), box, {a, b} \cup {c})
  BY <1>0, AddsTwo, AddsMore, InsertedIs
<1>2. {a, b} \cup {c} = {a, b, c}
  OBVIOUS
<1> QED
  BY <1>1, <1>2, Zenon

-----------------------------------------------------------------------------
(* What is shown in the end, for each change of the core. *)

\* Phases and answers do not matter.
LEMMA SyncOther ==
  ASSUME NEW v, NEW box \in Seq(Messages), NEW c \in Cores, NEW calm \in BOOLEAN,
         NEW m \in Messages, m.is \in {"phase", "answer"},
         NEW w, NEW k, IsInserted(w, box, k, m), SyncOf(v, box, c, calm)
  PROVE  SyncOf(v, w, c, calm)
<1>1. PICK last \in {0, Len(c.map)} :
        /\ Tracks(v.shown, box, c.map, last)
        /\ c.slot = "ready" \/ calm => last = Len(c.map)
  BY DEF SyncOf
<1>2. m # Cleared /\ m.is \notin {"found", "cleared", "count", "indexed"} /\ c.map \in Seq(Entries)
  BY ToldAre, CoreIs
<1>3. Tracks(v.shown, w, c.map, last)
  BY <1>1, <1>2, TracksOther
<1>4. calm => CountTracks(v.count, w, Len(c.map))
  BY <1>2, CountInserted DEF SyncOf
<1>5. calm => IndexedTracks(v.indexed, v.count, w, Cardinality(c.found \cup c.marks))
  BY <1>2, IndexedInserted DEF SyncOf
<1> QED
  BY <1>1, <1>3, <1>4, <1>5 DEF SyncOf

\* The core changes in what is not shown.
LEMMA SyncSame ==
  ASSUME NEW v, NEW box, NEW c, NEW d, NEW calm \in BOOLEAN, SyncOf(v, box, c, calm),
         d.map = c.map, d.slot = c.slot, d.found = c.found, d.marks = c.marks
  PROVE  SyncOf(v, box, d, calm)
BY DEF SyncOf

\* Less is known of a core that is not calm.
LEMMA SyncLess ==
  ASSUME NEW v, NEW box, NEW c, NEW d, NEW calm \in BOOLEAN, SyncOf(v, box, c, calm),
         d.map = c.map, d.slot = "ready" => c.slot = "ready" \/ calm
  PROVE  SyncOf(v, box, d, FALSE)
BY DEF SyncOf

\* A drop, refused or not.
LEMMA SyncDrop ==
  ASSUME NEW v, NEW box \in Seq(Messages), NEW c \in Cores, NEW calm \in BOOLEAN,
         c.slot = "lent" => ~calm
  PROVE  SyncOf(v, box \o DropOf(c).events, DropOf(c).core, calm)
<1> DEFINE d == DropOf(c).core
           n == Cardinality(d.found \cup d.marks)
           i == [is |-> "indexed", n |-> n]
<1>0. d \in Cores /\ d.map \in Seq(Entries) /\ n \in Nat /\ IndexedIs(d) = i
  BY DropIs, CoreIs
<1>1. i \in Messages /\ CountIs(0) \in Messages /\ Cleared \in Messages
      /\ CountIs(0).is = "count" /\ Cleared.is = "cleared"
  BY <1>0, ToldAre
<1> HIDE DEF i, n
<1>2. CASE c.slot = "lent"
  <2> DEFINE a == Append(box, CountIs(0))
             w == Append(a, Cleared)
  <2>0. ~calm
    BY <1>2, Zenon
  <2>1. box \o DropOf(c).events = w /\ d = c
    <3>1. d = c /\ DropOf(c).events = <<CountIs(0), Cleared>>
      BY <1>2, DropIs
    <3>2. box \o <<CountIs(0), Cleared>> = w
      BY <1>1, ToldOneByOne
    <3> QED
      BY <3>1, <3>2
  <2>2. a \in Seq(Messages)
    BY <1>1, Appended
  <2> HIDE DEF a, d
  <2>3. Tracks(v.shown, w, d.map, 0)
    BY <2>2, <1>0, TracksCleared
  <2> HIDE DEF w
  <2> QED
    BY <2>0, <2>1, <2>3, <1>2 DEF SyncOf, d
<1>3. CASE c.slot # "lent"
  <2> DEFINE a == Append(box, i)
             b == Append(a, CountIs(0))
             w == Append(b, Cleared)
  <2>1. box \o DropOf(c).events = w /\ d.map = << >> /\ Len(d.map) = 0
    <3>1. DropOf(c).events = <<i, CountIs(0), Cleared>> /\ d.map = << >>
      BY <1>0, <1>3, DropIs
    <3> QED
      BY <3>1, <1>1, ToldOneByOne
  <2>2. a \in Seq(Messages)
    BY <1>1, Appended
  <2>3. IndexedTracks(v.indexed, v.count, a, n)
    BY <1>0, IndexedTold DEF i
  <2> HIDE DEF a, d
  <2>4. b \in Seq(Messages) /\ IsInserted(b, a, Len(a) + 1, CountIs(0))
    BY <2>2, <1>1, Appended, InsertedIs
  <2>5. CountTracks(v.count, b, 0)
    BY <2>2, CountTold
  <2>6. IndexedTracks(v.indexed, v.count, b, n)
    <3>1. CountIs(0).is # "indexed" /\ CountIs(0) # Cleared
      BY <1>1
    <3> QED
      BY <3>1, <2>2, <2>3, <2>4, <1>1, IndexedInserted
  <2> HIDE DEF b
  <2>7. /\ IsInserted(w, b, Len(b) + 1, Cleared) /\ ZeroAt(v.count, w, Len(b) + 1)
        /\ Tracks(v.shown, w, d.map, 0)
    BY <2>4, <2>5, <1>0, <1>1, InsertedIs, ZeroAtEnd, TracksCleared
  <2> HIDE DEF w
  <2>8. CountTracks(v.count, w, 0)
    BY <2>4, <2>5, <2>7, <1>1, CountInserted
  <2>9. IndexedTracks(v.indexed, v.count, w, n)
    BY <2>4, <2>6, <2>7, <1>1, IndexedInserted
  <2> QED
    BY <2>1, <2>7, <2>8, <2>9 DEF SyncOf, d, n
<1> QED
  BY <1>2, <1>3

\* A search ticks.
LEMMA SyncTick ==
  ASSUME NEW v, NEW box \in Seq(Messages), NEW d, d.map = << >>
  PROVE  SyncOf(v, Append(Append(box, Cleared), CountIs(0)), d, FALSE)
<1> DEFINE a == Append(box, Cleared)
           w == Append(a, CountIs(0))
<1>1. << >> \in Seq(Entries) /\ Len(<< >>) = 0
  BY EmptySeq
<1>2. Tracks(v.shown, a, << >>, 0)
  BY <1>1, TracksCleared
<1>3. a \in Seq(Messages) /\ IsInserted(w, a, Len(a) + 1, CountIs(0))
  <2>1. a \in Seq(Messages)
    BY Appended, ToldAre
  <2> QED
    BY <2>1, InsertedIs, ToldAre
<1>4. CountIs(0) \in Messages /\ CountIs(0).is \notin {"found", "cleared"}
  BY ToldAre
<1> HIDE DEF a, w
<1>5. Tracks(v.shown, w, << >>, 0)
  BY <1>1, <1>2, <1>3, <1>4, TracksOther
<1> QED
  BY <1>1, <1>5 DEF SyncOf, a, w

\* Matches are found where there were none, and told with both counts.
LEMMA SyncBack ==
  ASSUME NEW v, NEW box \in Seq(Messages), NEW c \in Cores, NEW d \in Cores,
         SyncOf(v, box, c, FALSE), c.map = << >>, NEW calm \in BOOLEAN
  PROVE  SyncOf(v, Append(Append(Append(box, IndexedIs(d)), MoreFound(d.map)),
                          CountIs(Len(d.map))), d, calm)
<1> DEFINE n == Cardinality(d.found \cup d.marks)
           i == [is |-> "indexed", n |-> n]
           f == MoreFound(d.map)
           l == CountIs(Len(d.map))
           x == Append(box, i)
           y == Append(x, f)
           w == Append(y, l)
<1>0. d.map \in Seq(Entries) /\ n \in Nat /\ IndexedIs(d) = i /\ Len(d.map) \in Nat
  BY CoreIs
<1>1. /\ i \in Messages /\ i.is = "indexed" /\ f \in Messages /\ f.is = "found"
      /\ l \in Messages /\ l.is = "count" /\ Cleared.is = "cleared"
  BY <1>0, ToldAre
<1>2. << >> \in Seq(Entries) /\ Len(<< >>) = 0 /\ << >> \o d.map = d.map
  BY <1>0, EmptySeq, ConcatEmptySeq
<1>3. Tracks(v.shown, box, << >>, 0)
  BY <1>2 DEF SyncOf
<1>4. IndexedTracks(v.indexed, v.count, x, n)
  BY <1>0, IndexedTold
<1> HIDE DEF i, n
<1>5. x \in Seq(Messages) /\ IsInserted(x, box, Len(box) + 1, i)
  BY <1>1, Appended, InsertedIs
<1>6. Tracks(v.shown, x, << >>, 0)
  BY <1>1, <1>2, <1>3, <1>5, TracksOther
<1> HIDE DEF x
<1>7. Tracks(v.shown, y, d.map, Len(d.map))
  <2>1. Tracks(v.shown, y, << >> \o d.map, Len(<< >> \o d.map))
    BY <1>0, <1>2, <1>5, <1>6, TracksFound
  <2> QED
    BY <2>1, <1>2
<1>8. y \in Seq(Messages) /\ IsInserted(y, x, Len(x) + 1, f)
  BY <1>1, <1>5, Appended, InsertedIs
<1> HIDE DEF f
<1>9. IndexedTracks(v.indexed, v.count, y, n)
  <2>1. f.is # "indexed" /\ f.is # "count" /\ f # Cleared
    BY <1>1
  <2> QED
    BY <2>1, <1>1, <1>4, <1>5, <1>8, IndexedInserted
<1>10. CountTracks(v.count, w, Len(d.map))
  BY <1>0, <1>8, CountTold
<1> HIDE DEF y, l
<1>11. IsInserted(w, y, Len(y) + 1, l) /\ l # Cleared
  BY <1>1, <1>8, InsertedIs
<1>12. Tracks(v.shown, w, d.map, Len(d.map))
  BY <1>0, <1>1, <1>7, <1>8, <1>11, TracksOther
<1>13. IndexedTracks(v.indexed, v.count, w, n)
  <2>1. l.is # "indexed"
    BY <1>1
  <2> QED
    BY <2>1, <1>1, <1>8, <1>9, <1>11, IndexedInserted
<1> HIDE DEF w
<1>14. SyncOf(v, w, d, calm)
  BY <1>0, <1>10, <1>12, <1>13 DEF SyncOf, n
<1> QED
  BY <1>0, <1>14 DEF w, y, x, f, l

\* More matches are found.
LEMMA SyncWrite ==
  ASSUME NEW v, NEW box \in Seq(Messages), NEW c \in Cores, NEW d \in Cores,
         NEW list \in Seq(Entries), d.map = c.map \o list,
         NEW calm \in BOOLEAN, SyncOf(v, box, c, calm), c.slot = "ready"
  PROVE  SyncOf(v, Append(Append(Append(box, IndexedIs(d)), CountIs(Len(d.map))),
                          MoreFound(list)), d, calm)
<1> DEFINE n == Cardinality(d.found \cup d.marks)
           i == [is |-> "indexed", n |-> n]
           f == MoreFound(list)
           l == CountIs(Len(d.map))
           x == Append(box, i)
           y == Append(x, l)
           w == Append(y, f)
<1>0. d.map \in Seq(Entries) /\ n \in Nat /\ IndexedIs(d) = i /\ Len(d.map) \in Nat
      /\ c.map \in Seq(Entries)
  BY CoreIs
<1>1. /\ i \in Messages /\ i.is = "indexed" /\ f \in Messages /\ f.is = "found"
      /\ l \in Messages /\ l.is = "count" /\ Cleared.is = "cleared"
  BY <1>0, ToldAre
<1>3. Tracks(v.shown, box, c.map, Len(c.map))
  BY DEF SyncOf
<1>4. IndexedTracks(v.indexed, v.count, x, n)
  BY <1>0, IndexedTold
<1> HIDE DEF i, n
<1>5. x \in Seq(Messages) /\ IsInserted(x, box, Len(box) + 1, i)
  BY <1>1, Appended, InsertedIs
<1>6. Tracks(v.shown, x, c.map, Len(c.map))
  BY <1>0, <1>1, <1>3, <1>5, TracksOther
<1>10. CountTracks(v.count, y, Len(d.map))
  BY <1>0, <1>5, CountTold
<1> HIDE DEF x, l
<1>8. y \in Seq(Messages) /\ IsInserted(y, x, Len(x) + 1, l)
  BY <1>1, <1>5, Appended, InsertedIs
<1>9. IndexedTracks(v.indexed, v.count, y, n)
  <2>1. l.is # "indexed" /\ l # Cleared
    BY <1>1
  <2> QED
    BY <2>1, <1>1, <1>4, <1>5, <1>8, IndexedInserted
<1>7. Tracks(v.shown, y, c.map, Len(c.map))
  BY <1>0, <1>1, <1>5, <1>6, <1>8, TracksOther
<1> HIDE DEF y
<1>12. Tracks(v.shown, w, d.map, Len(d.map))
  BY <1>0, <1>7, <1>8, TracksFound
<1> HIDE DEF f
<1>11. IsInserted(w, y, Len(y) + 1, f) /\ f # Cleared /\ f.is # "count" /\ f.is # "indexed"
  BY <1>1, <1>8, InsertedIs
<1>13. IndexedTracks(v.indexed, v.count, w, n)
  BY <1>1, <1>8, <1>9, <1>11, IndexedInserted
<1>14. CountTracks(v.count, w, Len(d.map))
  BY <1>1, <1>8, <1>10, <1>11, CountInserted
<1> HIDE DEF w
<1>15. SyncOf(v, w, d, calm)
  BY <1>0, <1>12, <1>13, <1>14 DEF SyncOf, n
<1> QED
  BY <1>0, <1>15 DEF w, y, x, f, l

\* A bookmark is set or removed.
LEMMA SyncMark ==
  ASSUME NEW v, NEW box \in Seq(Messages), NEW c \in Cores, NEW d \in Cores,
         d.map = c.map, d.slot = c.slot,
         NEW calm \in BOOLEAN, SyncOf(v, box, c, calm)
  PROVE  SyncOf(v, Append(box, IndexedIs(d)), d, calm)
<1> DEFINE n == Cardinality(d.found \cup d.marks)
           i == [is |-> "indexed", n |-> n]
           x == Append(box, i)
<1>0. n \in Nat /\ IndexedIs(d) = i /\ c.map \in Seq(Entries)
  BY CoreIs
<1>1. i \in Messages /\ i.is = "indexed" /\ i # Cleared
  BY <1>0, ToldAre
<1>2. PICK last \in {0, Len(c.map)} :
        /\ Tracks(v.shown, box, c.map, last)
        /\ c.slot = "ready" \/ calm => last = Len(c.map)
  BY DEF SyncOf
<1>4. IndexedTracks(v.indexed, v.count, x, n)
  BY <1>0, IndexedTold
<1> HIDE DEF i, n
<1>5. IsInserted(x, box, Len(box) + 1, i)
  BY <1>1, InsertedIs
<1>6. Tracks(v.shown, x, c.map, last)
  BY <1>0, <1>1, <1>2, <1>5, TracksOther
<1>7. calm => CountTracks(v.count, x, Len(c.map))
  BY <1>1, <1>5, CountInserted DEF SyncOf
<1> HIDE DEF x
<1>8. SyncOf(v, x, d, calm)
  BY <1>2, <1>4, <1>6, <1>7 DEF SyncOf, n
<1> QED
  BY <1>0, <1>8 DEF x

\* A message is heard.
LEMMA SyncHeard ==
  ASSUME NEW v \in Views, NEW box \in Seq(Messages), NEW c \in Cores, NEW calm \in BOOLEAN,
         SyncOf(v, box, c, calm), NEW rest, NEW m, IsHeard(rest, box, m),
         NEW u, CountHeard(u.count, v.count, m), IndexedHeard(u.indexed, v.indexed, v.count, m),
         m = Cleared => u.shown = << >>,
         m.is = "found" => u.shown = v.shown \o m.list,
         m.is \notin {"found", "cleared"} => u.shown = v.shown
  PROVE  SyncOf(u, rest, c, calm)
<1>0. c.map \in Seq(Entries) /\ v.indexed \in Nat /\ v.count \in Nat
  BY CoreIs DEF Views
<1>1. PICK last \in {0, Len(c.map)} :
        /\ Tracks(v.shown, box, c.map, last)
        /\ c.slot = "ready" \/ calm => last = Len(c.map)
  BY DEF SyncOf
<1>2. Tracks(u.shown, rest, c.map, last)
  BY <1>0, <1>1, TracksHeard
<1>3. calm => CountTracks(u.count, rest, Len(c.map))
  BY CountAfter DEF SyncOf
<1>4. calm => IndexedTracks(u.indexed, u.count, rest, Cardinality(c.found \cup c.marks))
  BY <1>0, IndexedAfter DEF SyncOf
<1> QED
  BY <1>1, <1>2, <1>3, <1>4 DEF SyncOf

\* When all is heard.
LEMMA SyncedShows ==
  ASSUME NEW v, NEW c \in Cores, SyncOf(v, << >>, c, TRUE)
  PROVE  /\ v.shown = c.map /\ v.count = Len(c.map)
         /\ v.indexed = Cardinality(c.found \cup c.marks)
<1>0. Len(<< >>) = 0 /\ \A k \in 0 .. 0 : k = 0
  OBVIOUS
<1>1. Tracks(v.shown, << >>, c.map, Len(c.map))
  BY DEF SyncOf
<1>2. v.shown = SubSeq(c.map, 1, Len(c.map))
  BY <1>0, <1>1 DEF Tracks
<1>3. v.shown = c.map
  BY <1>2, CoreIs, WholeIs
<1> QED
  BY <1>0, <1>3 DEF SyncOf, CountTracks, IndexedTracks

\* What is shown is of the core, or the matches are to be cleared.
LEMMA ShownIsPrefix ==
  ASSUME NEW v, NEW box \in Seq(Messages), NEW c \in Cores, NEW calm, SyncOf(v, box, c, calm)
  PROVE  \/ \E i \in DOMAIN box : box[i] = Cleared
         \/ \A n \in DOMAIN v.shown : n \in 1 .. Len(c.map) /\ v.shown[n] = c.map[n]
<1>0. c.map \in Seq(Entries) /\ Len(c.map) \in Nat /\ Len(box) \in Nat /\ DOMAIN box = 1 .. Len(box)
  BY CoreIs, LenProperties
<1>1. PICK f \in [0 .. Len(box) -> 0 .. Len(c.map)], k \in 0 .. Len(box) :
        IF k = 0 THEN v.shown = SubSeq(c.map, 1, f[0]) ELSE box[k] = Cleared
  BY DEF SyncOf, Tracks
<1>2. CASE k = 0
  <2>1. f[0] \in 0 .. Len(c.map)
    BY <1>0
  <2> DEFINE b == f[0]
  <2> HIDE DEF b
  <2>2. b \in 0 .. Len(c.map) /\ v.shown = SubSeq(c.map, 1, b)
    BY <2>1, <1>1, <1>2 DEF b
  <2>3. \A i \in 1 .. b : c.map[i] \in Entries
    BY <2>2, <1>0, ElementOfSeq
  <2>4. /\ v.shown \in Seq(Entries) /\ Len(v.shown) = b
        /\ \A i \in 1 .. b : v.shown[i] = c.map[i]
    <3>1. b \in Int /\ 1 \in Int
      BY <2>2, <1>0
    <3>2. /\ v.shown \in Seq(Entries) /\ Len(v.shown) = (IF 1 <= b THEN b - 1 + 1 ELSE 0)
          /\ \A i \in 1 .. b - 1 + 1 : v.shown[i] = c.map[1 + i - 1]
      BY <3>1, <2>2, <2>3, SubSeqProperties
    <3> QED
      BY <3>2, <2>2, <1>0
  <2>5. DOMAIN v.shown = 1 .. b
    BY <2>4, LenProperties
  <2> QED
    BY <2>2, <2>4, <2>5, <1>0
<1>3. CASE k # 0
  BY <1>0, <1>1, <1>3
<1> QED
  BY <1>2, <1>3

-----------------------------------------------------------------------------
(* Steps that tell something and leave the view and the commands alone. *)

\* Searches are numbers, and none of them is NoOp.
LEMMA OpsAre == MaxOps \in Nat /\ MaxTries \in Nat /\ Ops \subseteq Nat /\ NoOp \notin Ops
BY ViewAssumption DEF Ops, NoOp

\* One search goes on.
LEMMA AtIs ==
  ASSUME task \in [Ops -> Tasks], NEW o \in Ops,
         NEW a \in {"queued", "drops", "asks", "searches", "found", "clears", "ended"},
         At(o, a)
  PROVE  /\ task' \in [Ops -> Tasks]
         /\ task'[o].at = a /\ task'[o].tries = task[o].tries
         /\ task'[o].aborted = task[o].aborted /\ task'[o].ends = task[o].ends
         /\ \A p \in Ops : p # o => task'[p] = task[p]
BY DEF At, Tasks

\* What a step that tells the messages of M leaves true.
LEMMA TellStep ==
  ASSUME ViewTypes, ViewInv, UNCHANGED <<uiVars, commands>>, task' \in [Ops -> Tasks],
         NEW M, Adds(inbox', inbox, M), \A m \in M : m.is # "answer",
         ClearsCounted(view.count, inbox'),
         \A p \in Ops :
           /\ task'[p].aborted = task[p].aborted
           /\ task'[p].at = "none" <=> task[p].at = "none"
           /\ IsOver(p) => task'[p].at \in {"clears", "ended"}
           /\ task'[p].at = "clears" => task'[p].ends # "none"
           /\ task'[p].at = "ended" =>
                \/ task[p].at = "ended" /\ PhaseIs(p, "running") \notin M
                \/ \A phase : HearsEnd(phase, inbox', p)
  PROVE  /\ StartInv' /\ RunInv' /\ PendingInv' /\ ClosesInv'
         /\ ~view.missed => OrderInv'
<1>0. view' = view /\ nested' = nested /\ commands' = commands
  BY DEF uiVars
<1>a. view.op \in Ops \cup {NoOp} /\ view \in Views /\ commands \in Seq(Commands)
  BY DEF ViewTypes, Views
<1>1. StartInv'
  <2>0. StartInv
    BY DEF ViewInv
  <2>1. \A o \in Ops : task'[o].at = "none" /\ o <= view.made =>
          \E i \in DOMAIN commands : commands[i] = ApplyOf(o)
    BY <2>0 DEF StartInv
  <2>2. \A o \in Ops : o > view.made => task'[o].at = "none"
    BY <2>0 DEF StartInv
  <2>3. \A i \in DOMAIN commands : commands[i].is = "apply" =>
          commands[i].op <= view.made /\ task'[commands[i].op].at = "none"
    <3> TAKE i \in DOMAIN commands
    <3>1. commands[i].is = "apply" => commands[i].op \in Ops
      BY <1>a, CommandIs, LenProperties, ElementOfSeq
    <3> QED
      BY <3>1, <2>0 DEF StartInv
  <2>4. \A o \in Ops : task'[o].aborted => o <= view.made /\ o # view.op
    BY <2>0 DEF StartInv
  <2>5. \A o \in Ops : task'[o].at = "clears" => task'[o].ends # "none"
    OBVIOUS
  <2>6. /\ view.op <= view.made
        /\ \A i, j \in DOMAIN commands :
             commands[i].is = "apply" /\ commands[i] = commands[j] => i = j
        /\ \A i \in DOMAIN commands : commands[i].is = "drop" =>
             commands[i].op <= view.made /\ (view.op # NoOp => commands[i].op # view.op)
    BY <2>0 DEF StartInv
  <2> QED
    BY <1>0, <2>1, <2>2, <2>3, <2>4, <2>5, <2>6 DEF StartInv
<1>2. RunInv'
  <2> SUFFICES ASSUME view.op # NoOp, task'[view.op].at = "ended"
               PROVE  HearsEnd(view.phase, inbox', view.op)
    BY <1>0 DEF RunInv
  <2>1. view.op \in Ops
    BY <1>a
  <2>2. CASE task[view.op].at = "ended" /\ PhaseIs(view.op, "running") \notin M
    <3>1. HearsEnd(view.phase, inbox, view.op)
      BY <2>2 DEF ViewInv, RunInv
    <3> QED
      BY <3>1, <2>2 DEF Adds
  <2>3. CASE \A phase : HearsEnd(phase, inbox', view.op)
    BY <2>3
  <2> QED
    BY <2>1, <2>2, <2>3
<1>3. PendingInv'
  <2>1. \A i \in DOMAIN inbox' : inbox'[i].is = "answer" =>
          \E j \in DOMAIN inbox : inbox'[i] = inbox[j]
    BY DEF Adds
  <2>2. \A j \in DOMAIN inbox : \E i \in DOMAIN inbox' : inbox'[i] = inbox[j]
    BY DEF Adds
  <2>3. PendingInv
    BY DEF ViewInv
  <2>4. /\ nested.pending <= nested.made
        /\ \A i \in DOMAIN commands : commands[i].is = "find" =>
             commands[i].request \in 1 .. nested.made
        /\ \A i \in DOMAIN commands : FindsPending(i) => commands[i].filter = nested.filter
        /\ nested.anchor # NoAnchor /\ nested.found => nested.row \in Hits[nested.filter]
        /\ nested.filter = NoFilter => nested.anchor = NoAnchor /\ nested.pending = 0
    BY <2>3 DEF PendingInv
  <2>5. nested.pending # 0 =>
          \/ \E i \in DOMAIN commands : FindsPending(i)
          \/ \E i \in DOMAIN inbox' : inbox'[i].is = "answer" /\ inbox'[i].request = nested.pending
    <3>1. nested.pending # 0 =>
            \/ \E i \in DOMAIN commands : FindsPending(i)
            \/ \E i \in DOMAIN inbox : inbox[i].is = "answer" /\ inbox[i].request = nested.pending
      BY <2>3 DEF PendingInv, AnswersPending
    <3> QED
      BY <3>1, <2>2
  <2>6. \A i \in DOMAIN inbox' : inbox'[i].is = "answer" => inbox'[i].request \in 1 .. nested.made
    <3>1. \A i \in DOMAIN inbox : inbox[i].is = "answer" => inbox[i].request \in 1 .. nested.made
      BY <2>3 DEF PendingInv
    <3> QED
      BY <3>1, <2>1
  <2>7. \A i \in DOMAIN inbox' :
          inbox'[i].is = "answer" /\ inbox'[i].request = nested.pending /\ inbox'[i].at # NoAnchor =>
            inbox'[i].row \in Hits[nested.filter]
    <3>1. \A i \in DOMAIN inbox :
            inbox[i].is = "answer" /\ inbox[i].request = nested.pending /\ inbox[i].at # NoAnchor =>
              inbox[i].row \in Hits[nested.filter]
      BY <2>3 DEF PendingInv, AnswersPending
    <3> QED
      BY <3>1, <2>1
  <2> QED
    BY <1>0, <2>4, <2>5, <2>6, <2>7 DEF PendingInv, FindsPending, AnswersPending
<1>4. ClosesInv'
  <2>1. ZeroAhead(inbox) => ZeroAhead(inbox')
    BY AddsAhead
  <2> QED
    BY <1>0, <2>1 DEF ViewInv, ClosesInv
<1>5. ASSUME ~view.missed PROVE OrderInv'
  <2>1. OrderInv
    BY <1>5 DEF ViewInv
  <2>2. \A o \in Ops, n \in Nat : IsLeft(o, n) => IsLeft(o, n)'
    BY <1>0 DEF IsLeft, IsOver
  <2>3. \A i \in DOMAIN commands : i \in Nat /\ i - 1 \in Nat
    BY <1>a, LenProperties
  <2>4. Len(commands) \in Nat
    BY <1>a, LenProperties
  <2>5. \A i \in DOMAIN commands : commands[i].is = "apply" =>
          \A o \in Ops : o < commands[i].op => IsLeft(o, i - 1)'
    BY <2>1, <2>2, <2>3 DEF OrderInv
  <2>6. \A o, p \in Ops : o < p /\ task'[p].at # "none" =>
          task'[o].at \in {"clears", "ended"} \/ task'[o].aborted
    BY <2>1 DEF OrderInv, IsOver
  <2>7. \A o \in Ops : o <= view.made /\ o # view.op => IsLeft(o, Len(commands))'
    BY <2>1, <2>2, <2>4 DEF OrderInv
  <2> QED
    BY <1>0, <2>5, <2>6, <2>7 DEF OrderInv, IsOver
<1> QED
  BY <1>1, <1>2, <1>3, <1>4, <1>5

\* Matches that are gone to stay where they are, or zero is told.
LEMMA AnswerStep ==
  ASSUME ViewTypes, NEW M, Adds(inbox', inbox, M), nested' = nested,
         \A m \in M : m.is = "answer" /\ m.at # NoAnchor => IsMatch(core.map', m.at, m.row),
         \/ CountIs(0) \in M
         \/ /\ NestedInv
            /\ \A row : \A n \in Nat \ {0} : IsMatch(core.map, n, row) => IsMatch(core.map', n, row)
  PROVE  NestedInv'
<1>1. ZeroAhead(inbox) \/ CountIs(0) \in M => ZeroAhead(inbox')
  BY AddsAhead
<1>2. CASE ZeroAhead(inbox')
  BY <1>2 DEF NestedInv
<1>3. CASE ~ZeroAhead(inbox')
  <2>1. NestedInv /\ ~ZeroAhead(inbox)
    BY <1>1, <1>3
  <2>2. /\ nested.anchor # NoAnchor => IsMatch(core.map, nested.anchor, nested.row)
        /\ \A i \in DOMAIN inbox :
             inbox[i].is = "answer" /\ inbox[i].request = nested.pending /\ inbox[i].at # NoAnchor =>
               IsMatch(core.map, inbox[i].at, inbox[i].row)
    BY <2>1 DEF NestedInv, AnswersPending
  <2>3. \A row : \A n \in Nat \ {0} : IsMatch(core.map, n, row) => IsMatch(core.map', n, row)
    BY <1>1, <1>3
  <2>4. nested.anchor # NoAnchor => IsMatch(core.map', nested.anchor, nested.row)
    <3>1. nested.anchor # NoAnchor => nested.anchor \in Nat \ {0}
      BY DEF ViewTypes, Nesteds, NoAnchor
    <3> QED
      BY <3>1, <2>2, <2>3
  <2>5. ASSUME NEW i \in DOMAIN inbox', inbox'[i].is = "answer",
               inbox'[i].request = nested.pending, inbox'[i].at # NoAnchor
        PROVE  IsMatch(core.map', inbox'[i].at, inbox'[i].row)
    <3>1. CASE inbox'[i] \in M
      BY <3>1, <2>5
    <3>2. CASE inbox'[i] \notin M
      <4>1. PICK j \in DOMAIN inbox : inbox'[i] = inbox[j]
        BY <3>2, <2>5 DEF Adds
      <4>2. IsMatch(core.map, inbox[j].at, inbox[j].row) /\ inbox[j].at \in Nat \ {0}
        <5>1. inbox[j] \in Messages /\ inbox[j].is = "answer"
          BY <4>1, <2>5, LenProperties, ElementOfSeq DEF ViewTypes
        <5>2. inbox[j].at \in Nat
          BY <5>1, MessageIs
        <5> QED
          BY <5>2, <4>1, <2>2, <2>5 DEF NoAnchor
      <4>3. IsMatch(core.map', inbox[j].at, inbox[j].row)
        BY <4>2, <2>3
      <4> QED
        BY <4>1, <4>3
    <3> QED
      BY <3>1, <3>2
  <2> QED
    BY <2>4, <2>5 DEF NestedInv, AnswersPending
<1> QED
  BY <1>2, <1>3

\* The same without answers.
LEMMA NestedStep ==
  ASSUME ViewTypes, NEW M, Adds(inbox', inbox, M), \A m \in M : m.is # "answer", nested' = nested,
         \/ CountIs(0) \in M
         \/ /\ NestedInv
            /\ \A row : \A n \in Nat \ {0} : IsMatch(core.map, n, row) => IsMatch(core.map', n, row)
  PROVE  NestedInv'
<1>1. \A m \in M : m.is = "answer" /\ m.at # NoAnchor => IsMatch(core.map', m.at, m.row)
  OBVIOUS
<1> QED
  BY <1>1, AnswerStep

-----------------------------------------------------------------------------
(* The steps of a search. *)

\* Calm is yes or no.
LEMMA CalmIs == IsCalm \in BOOLEAN /\ IsCalm' \in BOOLEAN
BY DEF IsCalm

\* A drop is told.
LEMMA DropTold ==
  ASSUME NEW box \in Seq(Messages), NEW c \in Cores, NEW count, ClearsCounted(count, box)
  PROVE  /\ box \o DropOf(c).events \in Seq(Messages)
         /\ ClearsCounted(count, box \o DropOf(c).events)
         /\ \E M : /\ Adds(box \o DropOf(c).events, box, M) /\ CountIs(0) \in M
                   /\ \A m \in M : m.is \in {"indexed", "count", "cleared"}
         /\ \A m \in Messages : box \o Append(DropOf(c).events, m)
                                 = Append(box \o DropOf(c).events, m)
<1> DEFINE i == IndexedIs(DropOf(c).core)
           z == CountIs(0)
           w == box \o DropOf(c).events
<1>1. /\ i \in Messages /\ i.is = "indexed" /\ z \in Messages /\ z.is = "count"
      /\ Cleared \in Messages /\ Cleared.is = "cleared"
  <2>1. DropOf(c).core \in Cores
    BY DropIs
  <2>2. i \in Messages /\ i.is = "indexed"
    <3>1. i \in Messages
      BY <2>1, CoreIs
    <3>2. i.is = "indexed"
      BY DEF IndexedIs
    <3> QED
      BY <3>1, <3>2
  <2> QED
    BY <2>2, ToldAre
<1>2. DropOf(c).events \in Seq(Messages) /\ w \in Seq(Messages)
  BY DropIs, ConcatProperties
<1>3. \A m \in Messages : box \o Append(DropOf(c).events, m) = Append(w, m)
  BY <1>2, ToldOneByOne
<1>4. ASSUME NEW b \in Seq(Messages), ClearsCounted(count, b)
      PROVE  ClearsCounted(count, Append(Append(b, z), Cleared))
  <2> DEFINE a == Append(b, z)
  <2>1. a \in Seq(Messages) /\ IsInserted(a, b, Len(b) + 1, z)
    BY <1>1, Appended, InsertedIs
  <2>2. CountTracks(count, a, 0)
    BY CountTold
  <2>3. z # Cleared
    BY <1>1
  <2> HIDE DEF a, z
  <2>4. ClearsCounted(count, a)
    BY <2>1, <2>3, <1>1, <1>4, ClearsInserted
  <2>5. /\ IsInserted(Append(a, Cleared), a, Len(a) + 1, Cleared)
        /\ ZeroAt(count, Append(a, Cleared), Len(a) + 1)
    BY <2>1, <2>2, <1>1, InsertedIs, ZeroAtEnd
  <2>6. Cleared.is # "count"
    BY <1>1
  <2>7. ClearsCounted(count, Append(a, Cleared))
    BY <2>1, <2>4, <2>5, <2>6, <1>1, ClearsInserted
  <2> QED
    BY <2>7 DEF a
<1> HIDE DEF i, z
<1>5. CASE c.slot = "lent"
  <2>1. w = Append(Append(box, z), Cleared)
    <3>1. DropOf(c).events = <<z, Cleared>>
      BY <1>5, DropIs DEF z
    <3> QED
      BY <3>1, <1>1, ToldOneByOne
  <2>2. Adds(w, box, {z, Cleared})
    BY <2>1, <1>1, AddsTwo
  <2>3. z \in {z, Cleared} /\ \A m \in {z, Cleared} : m.is \in {"indexed", "count", "cleared"}
    BY <1>1
  <2>4. ClearsCounted(count, w)
    BY <2>1, <1>4
  <2> HIDE DEF w
  <2>5. \E M : Adds(w, box, M) /\ z \in M /\ \A m \in M : m.is \in {"indexed", "count", "cleared"}
    BY <2>2, <2>3
  <2> QED
    BY <2>4, <2>5, <1>2, <1>3 DEF z, w
<1>6. CASE c.slot # "lent"
  <2>1. w = Append(Append(Append(box, i), z), Cleared)
    <3>1. DropOf(c).events = <<i, z, Cleared>>
      BY <1>6, DropIs DEF z, i
    <3> QED
      BY <3>1, <1>1, ToldOneByOne
  <2>2. Adds(w, box, {i, z, Cleared})
    BY <2>1, <1>1, AddsThree
  <2>3. ClearsCounted(count, Append(box, i))
    <3>1. i # Cleared /\ i.is # "count" /\ IsInserted(Append(box, i), box, Len(box) + 1, i)
      BY <1>1, InsertedIs
    <3> QED
      BY <3>1, <1>1, ClearsInserted
  <2>4. Append(box, i) \in Seq(Messages)
    BY <1>1, Appended
  <2>5. ClearsCounted(count, w)
    BY <2>1, <2>3, <2>4, <1>4
  <2>6. /\ z \in {i, z, Cleared}
        /\ \A m \in {i, z, Cleared} : m.is \in {"indexed", "count", "cleared"}
    BY <1>1
  <2> HIDE DEF w
  <2>7. \E M : Adds(w, box, M) /\ z \in M /\ \A m \in M : m.is \in {"indexed", "count", "cleared"}
    BY <2>2, <2>6
  <2> QED
    BY <2>5, <2>7, <1>2, <1>3 DEF z, w
<1> QED
  BY <1>5, <1>6

\* A phase is told.
LEMMA PhaseTold ==
  ASSUME NEW box \in Seq(Messages), NEW o \in Ops, NEW p \in {"running", "success", "failed"},
         NEW count, ClearsCounted(count, box)
  PROVE  /\ PhaseIs(o, p) \in Messages /\ PhaseIs(o, p).is = "phase"
         /\ Append(box, PhaseIs(o, p)) \in Seq(Messages)
         /\ IsInserted(Append(box, PhaseIs(o, p)), box, Len(box) + 1, PhaseIs(o, p))
         /\ ClearsCounted(count, Append(box, PhaseIs(o, p)))
<1> DEFINE m == PhaseIs(o, p)
<1>1. m \in Messages /\ m.is = "phase" /\ m # Cleared
  BY ToldAre
<1> HIDE DEF m
<1>2. Append(box, m) \in Seq(Messages) /\ IsInserted(Append(box, m), box, Len(box) + 1, m)
  BY <1>1, Appended, InsertedIs
<1>3. ClearsCounted(count, Append(box, m))
  <2>1. m.is # "count"
    BY <1>1
  <2> QED
    BY <2>1, <1>1, <1>2, ClearsInserted
<1> QED
  BY <1>1, <1>2, <1>3 DEF m

\* A search begins.
LEMMA BeginsKeeps ==
  ASSUME ViewTypes, ViewInv, NEW o \in Ops, Begins(o)
  PROVE  ViewTypes' /\ ViewInv'
<1> DEFINE m == PhaseIs(o, "running")
<1>0. /\ task[o].at = "queued" /\ At(o, "drops") /\ inbox' = inbox \o <<m>>
      /\ view' = view /\ nested' = nested /\ commands' = commands /\ core' = core
      /\ UNCHANGED <<uiVars, commands>>
  BY DEF Begins, Tells, uiVars
<1>1. /\ inbox \in Seq(Messages) /\ task \in [Ops -> Tasks] /\ view \in Views /\ core \in Cores
      /\ ClearsCounted(view.count, inbox)
  BY DEF ViewTypes, ViewInv, ClosesInv
<1>2. /\ task' \in [Ops -> Tasks] /\ task'[o].at = "drops" /\ task'[o].tries = task[o].tries
      /\ task'[o].aborted = task[o].aborted /\ task'[o].ends = task[o].ends
      /\ \A p \in Ops : p # o => task'[p] = task[p]
  BY <1>0, <1>1, AtIs
<1>3. /\ m \in Messages /\ m.is = "phase" /\ inbox' = Append(inbox, m)
      /\ inbox' \in Seq(Messages) /\ ClearsCounted(view.count, inbox')
      /\ IsInserted(inbox', inbox, Len(inbox) + 1, m) /\ Adds(inbox', inbox, {m})
  <2>1. m \in Messages
    BY ToldAre
  <2>2. inbox' = Append(inbox, m)
    BY <2>1, <1>0, <1>1, ToldOneByOne
  <2> QED
    BY <2>1, <2>2, <1>1, PhaseTold, AddsOne
<1>4. ViewTypes'
  BY <1>0, <1>2, <1>3 DEF ViewTypes
<1>5. HolderInv'
  <2>1. \A p \in Ops : task'[p].at \in {"searches", "found"} <=> task[p].at \in {"searches", "found"}
    BY <1>0, <1>2
  <2>2. \A p \in Ops : task'[p].at \in {"none", "queued"} => task'[p].tries = 0
    BY <1>0, <1>2 DEF ViewInv, HolderInv
  <2> QED
    BY <2>1, <2>2, <1>0 DEF ViewInv, HolderInv, HasHolder
<1>6. StartInv' /\ RunInv' /\ PendingInv' /\ ClosesInv' /\ (~view.missed => OrderInv')
  <2>1. \A p \in Ops :
          /\ task'[p].aborted = task[p].aborted
          /\ task'[p].at = "none" <=> task[p].at = "none"
          /\ IsOver(p) => task'[p].at \in {"clears", "ended"}
          /\ task'[p].at = "clears" => task'[p].ends # "none"
          /\ task'[p].at = "ended" => task[p].at = "ended" /\ PhaseIs(p, "running") \notin {m}
    <3> TAKE p \in Ops
    <3>1. CASE p = o
      BY <3>1, <1>0, <1>2 DEF IsOver
    <3>2. CASE p # o
      <4>1. PhaseIs(p, "running") # m
        BY <3>2 DEF PhaseIs
      <4> QED
        BY <4>1, <3>2, <1>2 DEF IsOver, ViewInv, StartInv
    <3> QED
      BY <3>1, <3>2
  <2> HIDE DEF m
  <2>2. \A x \in {m} : x.is # "answer"
    BY <1>3
  <2> QED
    BY <2>1, <2>2, <1>0, <1>2, <1>3, TellStep
<1>7. ~view.missed => MapInv'
  BY <1>0, <1>2 DEF ViewInv, MapInv
<1>8. ViewFollows' => ViewFollows
  <2>1. view.op \in Ops \cup {NoOp}
    BY <1>1 DEF Views
  <2>2. task[o].tries = 0
    BY <1>0 DEF ViewInv, HolderInv
  <2>3. CASE view.op = o
    BY <2>2, <2>3, <1>0, <1>2 DEF ViewFollows, IsFresh
  <2>4. CASE view.op # o
    BY <2>1, <2>4, <1>0, <1>2 DEF ViewFollows, IsFresh
  <2> QED
    BY <2>3, <2>4
<1>9. ViewFollows => SyncInv'
  <2>1. IsCalm' = IsCalm
    BY <1>0, <1>2, CalmIs DEF IsCalm
  <2> HIDE DEF m
  <2>2. ViewFollows => SyncOf(view, inbox', core, IsCalm)
    BY <1>1, <1>3, CalmIs, SyncOther DEF ViewInv, SyncInv
  <2> QED
    BY <2>1, <2>2, <1>0 DEF SyncInv
<1>10. ViewFollows => NestedInv'
  <2> HIDE DEF m
  <2>1. \A x \in {m} : x.is # "answer"
    BY <1>3
  <2> QED
    BY <2>1, <1>0, <1>3, NestedStep DEF ViewInv
<1> QED
  BY <1>0, <1>4, <1>5, <1>6, <1>7, <1>8, <1>9, <1>10 DEF ViewInv

\* wait_until_search_dropped
LEMMA TriesKeeps ==
  ASSUME ViewTypes, ViewInv, NEW o \in Ops, TriesToDrop(o)
  PROVE  ViewTypes' /\ ViewInv'
<1> DEFINE d == DropOf(core)
           w == inbox \o d.events
           fails == PhaseIs(o, "failed")
           free == core.slot # "lent"
           last == task[o].tries + 1 = MaxTries
           a == CASE free -> "asks" [] ~free /\ last -> "ended" [] OTHER -> "drops"
<1>0. /\ task[o].at = "drops" /\ core' = d.core
      /\ task' = [task EXCEPT ![o].tries = @ + 1, ![o].at = a]
      /\ inbox' = inbox \o (IF ~free /\ last THEN Append(d.events, fails) ELSE d.events)
      /\ view' = view /\ nested' = nested /\ commands' = commands
      /\ UNCHANGED <<uiVars, commands>>
  BY DEF TriesToDrop, Tells, uiVars
<1>1. /\ inbox \in Seq(Messages) /\ task \in [Ops -> Tasks] /\ view \in Views /\ core \in Cores
      /\ ClearsCounted(view.count, inbox)
  BY DEF ViewTypes, ViewInv, ClosesInv
<1>a. /\ core' \in Cores
      /\ ~free => core' = core
      /\ free => core'.map = << >> /\ core'.slot = "empty"
  BY <1>0, <1>1, DropIs
<1>b. /\ w \in Seq(Messages) /\ ClearsCounted(view.count, w)
      /\ \A m \in Messages : inbox \o Append(d.events, m) = Append(w, m)
  BY <1>1, DropTold
<1>c. PICK M : /\ Adds(w, inbox, M) /\ CountIs(0) \in M
               /\ \A m \in M : m.is \in {"indexed", "count", "cleared"}
  BY <1>1, DropTold
<1>d. fails \in Messages /\ fails.is = "phase" /\ fails # PhaseIs(o, "running")
      /\ \A p : PhaseIs(p, "running") # fails /\ PhaseIs(p, "running").is = "phase"
  BY ToldAre DEF PhaseIs
<1> HIDE DEF w, d, fails
<1>e. inbox' = IF ~free /\ last THEN Append(w, fails) ELSE w
  BY <1>0, <1>b, <1>d DEF w
<1>2. a \in {"asks", "ended", "drops"} /\ (free => a = "asks") /\ (a = "ended" <=> ~free /\ last)
  OBVIOUS
<1> HIDE DEF a, free, last
<1>3. /\ task' \in [Ops -> Tasks] /\ task'[o].at = a /\ task'[o].tries = task[o].tries + 1
      /\ task'[o].aborted = task[o].aborted /\ task'[o].ends = task[o].ends
      /\ \A p \in Ops : p # o => task'[p] = task[p]
  <2> DEFINE n == task[o].tries + 1
             t == [task[o] EXCEPT !.tries = n, !.at = a]
  <2>1. task[o] \in Tasks /\ n \in Nat
    BY <1>1 DEF Tasks
  <2>3. task' = [task EXCEPT ![o] = t]
    BY <1>0, <1>1
  <2> HIDE DEF n
  <2>2. /\ t \in Tasks /\ t.at = a /\ t.tries = n
        /\ t.aborted = task[o].aborted /\ t.ends = task[o].ends
    BY <2>1, <1>2 DEF Tasks
  <2> HIDE DEF t
  <2> QED
    BY <2>2, <2>3, <1>1 DEF n
<1>4. PICK N : /\ Adds(inbox', inbox, N) /\ CountIs(0) \in N
               /\ \A m \in N : m.is # "answer" /\ \A p : m # PhaseIs(p, "running")
  <2>1. \A m \in M : m.is # "answer" /\ \A p : m # PhaseIs(p, "running")
    BY <1>c, <1>d
  <2>2. CASE a = "ended"
    <3>1. inbox' = Append(w, fails)
      BY <2>2, <1>e, <1>2 DEF a
    <3>2. Adds(inbox', inbox, M \cup {fails})
      BY <3>1, <1>b, <1>c, <1>d, AddsMore, InsertedIs
    <3>3. /\ CountIs(0) \in M \cup {fails}
          /\ \A m \in M \cup {fails} : m.is # "answer" /\ \A p : m # PhaseIs(p, "running")
      BY <2>1, <1>c, <1>d
    <3> QED
      BY <3>2, <3>3
  <2>3. CASE a # "ended"
    BY <2>1, <2>3, <1>2, <1>c, <1>e
  <2> QED
    BY <2>2, <2>3
<1>5. inbox' \in Seq(Messages) /\ ClearsCounted(view.count, inbox')
  BY <1>1, <1>b, <1>e, PhaseTold DEF fails
<1>6. ViewTypes'
  BY <1>0, <1>3, <1>5, <1>a DEF ViewTypes
<1>7. HolderInv'
  <2>1. \A p \in Ops : task'[p].at \in {"searches", "found"} <=> task[p].at \in {"searches", "found"}
    BY <1>0, <1>2, <1>3
  <2>2. \A p \in Ops : task'[p].at \in {"none", "queued"} => task'[p].tries = 0
    BY <1>0, <1>2, <1>3 DEF ViewInv, HolderInv
  <2>3. core'.slot = "lent" <=> core.slot = "lent"
    BY <1>a DEF free
  <2> QED
    BY <2>1, <2>2, <2>3 DEF ViewInv, HolderInv, HasHolder
<1>8. StartInv' /\ RunInv' /\ PendingInv' /\ ClosesInv' /\ (~view.missed => OrderInv')
  <2>1. \A p \in Ops :
          /\ task'[p].aborted = task[p].aborted
          /\ task'[p].at = "none" <=> task[p].at = "none"
          /\ IsOver(p) => task'[p].at \in {"clears", "ended"}
          /\ task'[p].at = "clears" => task'[p].ends # "none"
          /\ task'[p].at = "ended" =>
               \/ task[p].at = "ended" /\ PhaseIs(p, "running") \notin N
               \/ \A phase : HearsEnd(phase, inbox', p)
    <3> TAKE p \in Ops
    <3>1. CASE p = o
      <4>1. a = "ended" => \A phase : HearsEnd(phase, inbox', o)
        BY <1>2, <1>b, <1>e, EndTold DEF fails
      <4> QED
        BY <4>1, <3>1, <1>0, <1>2, <1>3 DEF IsOver
    <3>2. CASE p # o
      BY <3>2, <1>3, <1>4 DEF IsOver, ViewInv, StartInv
    <3> QED
      BY <3>1, <3>2
  <2>2. \A m \in N : m.is # "answer"
    BY <1>4
  <2> QED
    BY <2>1, <2>2, <1>0, <1>3, <1>4, <1>5, TellStep
<1>9. ~view.missed => MapInv'
  <2>1. CASE free
    <3>1. \A p \in Ops : task[p].at \notin {"searches", "found"}
      BY <2>1 DEF free, ViewInv, HolderInv, HasHolder
    <3> QED
      BY <3>1, <2>1, <1>2, <1>3, <1>a DEF MapInv
  <2>2. CASE ~free
    BY <2>2, <1>0, <1>2, <1>3, <1>a DEF ViewInv, MapInv, a
  <2> QED
    BY <2>1, <2>2
<1>10. SyncInv'
  <2>1. core.slot = "lent" => ~IsCalm'
    BY <1>a DEF IsCalm, free
  <2>2. SyncOf(view, w, core', IsCalm')
    BY <2>1, <1>0, <1>1, CalmIs, SyncDrop DEF w, d
  <2>3. SyncOf(view, inbox', core', IsCalm')
    <3>1. IsInserted(Append(w, fails), w, Len(w) + 1, fails)
      BY <1>b, <1>d, InsertedIs
    <3>2. SyncOf(view, Append(w, fails), core', IsCalm')
      BY <3>1, <2>2, <1>a, <1>b, <1>d, CalmIs, SyncOther
    <3> QED
      BY <3>2, <2>2, <1>e
  <2> QED
    BY <2>3, <1>0 DEF SyncInv
<1>11. NestedInv'
  BY <1>0, <1>4, NestedStep
<1> QED
  BY <1>0, <1>6, <1>7, <1>8, <1>9, <1>10, <1>11 DEF ViewInv

\* get_search_holder: it has been lent.
LEMMA MissesKeeps ==
  ASSUME ViewTypes, ViewInv, NEW o \in Ops, GetsHolder(o), core.slot = "lent"
  PROVE  ViewTypes' /\ ViewInv'
<1> DEFINE m == PhaseIs(o, "failed")
<1>0. /\ task[o].at = "asks" /\ At(o, "ended") /\ inbox' = inbox \o <<m>>
      /\ view' = view /\ nested' = nested /\ commands' = commands /\ core' = core
      /\ UNCHANGED <<uiVars, commands>>
  BY DEF GetsHolder, Tells, uiVars
<1>1. /\ inbox \in Seq(Messages) /\ task \in [Ops -> Tasks] /\ view \in Views /\ core \in Cores
      /\ ClearsCounted(view.count, inbox)
  BY DEF ViewTypes, ViewInv, ClosesInv
<1>2. /\ task' \in [Ops -> Tasks] /\ task'[o].at = "ended" /\ task'[o].tries = task[o].tries
      /\ task'[o].aborted = task[o].aborted /\ task'[o].ends = task[o].ends
      /\ \A p \in Ops : p # o => task'[p] = task[p]
  BY <1>0, <1>1, AtIs
<1>3. /\ m \in Messages /\ m.is = "phase" /\ inbox' = Append(inbox, m)
      /\ inbox' \in Seq(Messages) /\ ClearsCounted(view.count, inbox')
      /\ IsInserted(inbox', inbox, Len(inbox) + 1, m) /\ Adds(inbox', inbox, {m})
      /\ \A phase : HearsEnd(phase, inbox', o)
      /\ \A p : PhaseIs(p, "running") # m
  <2>1. m \in Messages
    BY ToldAre
  <2>2. inbox' = Append(inbox, m)
    BY <2>1, <1>0, <1>1, ToldOneByOne
  <2>3. \A p : PhaseIs(p, "running") # m
    BY DEF PhaseIs
  <2> QED
    BY <2>1, <2>2, <2>3, <1>1, PhaseTold, AddsOne, EndTold
<1> HIDE DEF m
<1>4. ViewTypes'
  BY <1>0, <1>2, <1>3 DEF ViewTypes
<1>5. HolderInv'
  <2>1. \A p \in Ops : task'[p].at \in {"searches", "found"} <=> task[p].at \in {"searches", "found"}
    BY <1>0, <1>2
  <2>2. \A p \in Ops : task'[p].at \in {"none", "queued"} => task'[p].tries = 0
    BY <1>0, <1>2 DEF ViewInv, HolderInv
  <2> QED
    BY <2>1, <2>2, <1>0 DEF ViewInv, HolderInv, HasHolder
<1>6. StartInv' /\ RunInv' /\ PendingInv' /\ ClosesInv' /\ (~view.missed => OrderInv')
  <2>1. \A p \in Ops :
          /\ task'[p].aborted = task[p].aborted
          /\ task'[p].at = "none" <=> task[p].at = "none"
          /\ IsOver(p) => task'[p].at \in {"clears", "ended"}
          /\ task'[p].at = "clears" => task'[p].ends # "none"
          /\ task'[p].at = "ended" =>
               \/ task[p].at = "ended" /\ PhaseIs(p, "running") \notin {m}
               \/ \A phase : HearsEnd(phase, inbox', p)
    <3> TAKE p \in Ops
    <3>1. CASE p = o
      BY <3>1, <1>0, <1>2, <1>3 DEF IsOver
    <3>2. CASE p # o
      BY <3>2, <1>2, <1>3 DEF IsOver, ViewInv, StartInv
    <3> QED
      BY <3>1, <3>2
  <2>2. \A x \in {m} : x.is # "answer"
    BY <1>3
  <2> QED
    BY <2>1, <2>2, <1>0, <1>2, <1>3, TellStep
<1>7. ~view.missed => MapInv'
  BY <1>0, <1>2 DEF ViewInv, MapInv
<1>8. ViewFollows' => ViewFollows
  <2>1. view.op \in Ops \cup {NoOp}
    BY <1>1 DEF Views
  <2>2. CASE view.op = o
    BY <2>2, <1>0, <1>2 DEF ViewFollows, IsFresh
  <2>3. CASE view.op # o
    BY <2>1, <2>3, <1>0, <1>2 DEF ViewFollows, IsFresh
  <2> QED
    BY <2>2, <2>3
<1>9. ViewFollows => SyncInv'
  <2>1. IsCalm' = IsCalm
    BY <1>0, <1>2, CalmIs DEF IsCalm
  <2>2. ViewFollows => SyncOf(view, inbox', core, IsCalm)
    BY <1>1, <1>3, CalmIs, SyncOther DEF ViewInv, SyncInv
  <2> QED
    BY <2>1, <2>2, <1>0 DEF SyncInv
<1>10. ViewFollows => NestedInv'
  <2>1. \A x \in {m} : x.is # "answer"
    BY <1>3
  <2> QED
    BY <2>1, <1>0, <1>3, NestedStep DEF ViewInv
<1> QED
  BY <1>0, <1>4, <1>5, <1>6, <1>7, <1>8, <1>9, <1>10 DEF ViewInv

\* get_search_holder: the holder is lent.
LEMMA GetsKeeps ==
  ASSUME ViewTypes, ViewInv, NEW o \in Ops, GetsHolder(o), core.slot # "lent"
  PROVE  ViewTypes' /\ ViewInv'
<1>0. /\ task[o].at = "asks" /\ At(o, "searches") /\ inbox' = inbox
      /\ view' = view /\ nested' = nested /\ commands' = commands
      /\ core' = [core EXCEPT !.slot = "lent", !.by = o, !.upTo = core.rows]
      /\ UNCHANGED <<uiVars, commands>>
  BY DEF GetsHolder, uiVars
<1>1. /\ inbox \in Seq(Messages) /\ task \in [Ops -> Tasks] /\ view \in Views /\ core \in Cores
      /\ ClearsCounted(view.count, inbox)
  BY DEF ViewTypes, ViewInv, ClosesInv
<1>2. /\ task' \in [Ops -> Tasks] /\ task'[o].at = "searches" /\ task'[o].tries = task[o].tries
      /\ task'[o].aborted = task[o].aborted /\ task'[o].ends = task[o].ends
      /\ \A p \in Ops : p # o => task'[p] = task[p]
  BY <1>0, <1>1, AtIs
<1>3. /\ inbox' \in Seq(Messages) /\ ClearsCounted(view.count, inbox') /\ Adds(inbox', inbox, {})
      /\ \A p : PhaseIs(p, "running") \notin {}
  BY <1>0, <1>1, AddsNone
<1>a. /\ core' \in Cores /\ core'.slot = "lent" /\ core'.map = core.map
  BY <1>0, <1>1 DEF Cores
<1>b. \A p \in Ops : task[p].at \notin {"searches", "found"}
  BY DEF ViewInv, HolderInv, HasHolder
<1>4. ViewTypes'
  BY <1>0, <1>2, <1>3, <1>a DEF ViewTypes
<1>5. HolderInv'
  <2>2. \A p \in Ops : task'[p].at \in {"none", "queued"} => task'[p].tries = 0
    BY <1>0, <1>2 DEF ViewInv, HolderInv
  <2> QED
    BY <2>2, <1>2, <1>a, <1>b DEF HolderInv, HasHolder
<1>6. StartInv' /\ RunInv' /\ PendingInv' /\ ClosesInv' /\ (~view.missed => OrderInv')
  <2>1. \A p \in Ops :
          /\ task'[p].aborted = task[p].aborted
          /\ task'[p].at = "none" <=> task[p].at = "none"
          /\ IsOver(p) => task'[p].at \in {"clears", "ended"}
          /\ task'[p].at = "clears" => task'[p].ends # "none"
          /\ task'[p].at = "ended" =>
               \/ task[p].at = "ended" /\ PhaseIs(p, "running") \notin {}
               \/ \A phase : HearsEnd(phase, inbox', p)
    <3> TAKE p \in Ops
    <3>1. CASE p = o
      BY <3>1, <1>0, <1>2, <1>3 DEF IsOver
    <3>2. CASE p # o
      BY <3>2, <1>2, <1>3 DEF IsOver, ViewInv, StartInv
    <3> QED
      BY <3>1, <3>2
  <2>2. \A x \in {} : x.is # "answer"
    BY <1>3
  <2> QED
    BY <2>1, <2>2, <1>0, <1>2, <1>3, TellStep
<1>7. ~view.missed => MapInv'
  BY <1>0, <1>2, <1>a, <1>b DEF ViewInv, MapInv
<1>8. ViewFollows' => ViewFollows
  <2>1. view.op \in Ops \cup {NoOp}
    BY <1>1 DEF Views
  <2>2. CASE view.op = o
    BY <2>2, <1>0, <1>2 DEF ViewFollows, IsFresh
  <2>3. CASE view.op # o
    BY <2>1, <2>3, <1>0, <1>2 DEF ViewFollows, IsFresh
  <2> QED
    BY <2>2, <2>3
<1>9. ViewFollows => SyncInv'
  <2>1. IsCalm' = FALSE
    BY <1>a, CalmIs DEF IsCalm
  <2>2. ViewFollows => SyncOf(view, inbox, core', FALSE)
    BY <1>a, CalmIs, SyncLess DEF ViewInv, SyncInv
  <2> QED
    BY <2>1, <2>2, <1>0 DEF SyncInv
<1>10. ViewFollows => NestedInv'
  <2>1. \A row : \A n \in Nat \ {0} : IsMatch(core.map, n, row) => IsMatch(core.map', n, row)
    BY <1>a
  <2> QED
    BY <2>1, <1>0, <1>3, NestedStep DEF ViewInv
<1> QED
  BY <1>0, <1>4, <1>5, <1>6, <1>7, <1>8, <1>9, <1>10 DEF ViewInv

\* A search ticks: what was found is forgotten.
LEMMA TicksKeep ==
  ASSUME ViewTypes, ViewInv, NEW o \in Ops, Ticks(o)
  PROVE  ViewTypes' /\ ViewInv'
<1>0. /\ task[o].at = "searches" /\ inbox' = inbox \o <<Cleared, CountIs(0)>>
      /\ view' = view /\ nested' = nested /\ commands' = commands /\ task' = task
      /\ core' = [core EXCEPT !.map = << >>, !.asides = @ + 1]
      /\ UNCHANGED <<uiVars, commands>>
  BY DEF Ticks, Tells, uiVars
<1>1. /\ inbox \in Seq(Messages) /\ task \in [Ops -> Tasks] /\ view \in Views /\ core \in Cores
      /\ ClearsCounted(view.count, inbox)
  BY DEF ViewTypes, ViewInv, ClosesInv
<1>2. task' \in [Ops -> Tasks] /\ task' = task
  BY <1>0, <1>1
<1>3. /\ inbox' = Append(Append(inbox, Cleared), CountIs(0)) /\ inbox' \in Seq(Messages)
      /\ ClearsCounted(view.count, inbox') /\ Adds(inbox', inbox, {Cleared, CountIs(0)})
      /\ \A p : PhaseIs(p, "running") \notin {Cleared, CountIs(0)}
      /\ \A x \in {Cleared, CountIs(0)} : x.is # "answer"
  <2>1. Cleared \in Messages /\ CountIs(0) \in Messages
    BY ToldAre
  <2>2. inbox' = Append(Append(inbox, Cleared), CountIs(0))
    BY <2>1, <1>0, <1>1, ToldOneByOne
  <2>3. /\ \A p : PhaseIs(p, "running") \notin {Cleared, CountIs(0)}
        /\ \A x \in {Cleared, CountIs(0)} : x.is # "answer"
    BY DEF PhaseIs, Cleared, CountIs
  <2>4. inbox' \in Seq(Messages)
    BY <2>1, <2>2, <1>1, Appended
  <2> QED
    BY <2>1, <2>2, <2>3, <2>4, <1>1, ClearsThenCounts, AddsTwo
<1>a. /\ core' \in Cores /\ core'.slot = core.slot /\ core'.map = << >>
  <2>1. << >> \in Seq(Entries)
    BY EmptySeq
  <2> DEFINE n == core.asides + 1
  <2>2. n \in Nat
    <3>1. core.asides \in Nat
      BY <1>1, CoreIs
    <3> QED
      BY <3>1
  <2>3. core' = [core EXCEPT !.map = << >>, !.asides = n]
    BY <1>0
  <2> HIDE DEF n
  <2> QED
    BY <2>1, <2>2, <2>3, <1>1 DEF Cores
<1>b. core.slot = "lent"
  BY <1>0 DEF ViewInv, HolderInv, HasHolder
<1>4. ViewTypes'
  BY <1>0, <1>2, <1>3, <1>a DEF ViewTypes
<1>5. HolderInv'
  BY <1>0, <1>a DEF ViewInv, HolderInv, HasHolder
<1>6. StartInv' /\ RunInv' /\ PendingInv' /\ ClosesInv' /\ (~view.missed => OrderInv')
  <2>1. \A p \in Ops :
          /\ task'[p].aborted = task[p].aborted
          /\ task'[p].at = "none" <=> task[p].at = "none"
          /\ IsOver(p) => task'[p].at \in {"clears", "ended"}
          /\ task'[p].at = "clears" => task'[p].ends # "none"
          /\ task'[p].at = "ended" =>
               \/ task[p].at = "ended" /\ PhaseIs(p, "running") \notin {Cleared, CountIs(0)}
               \/ \A phase : HearsEnd(phase, inbox', p)
    BY <1>2, <1>3 DEF IsOver, ViewInv, StartInv
  <2> QED
    BY <2>1, <1>0, <1>2, <1>3, TellStep
<1>7. ~view.missed => MapInv'
  BY <1>0, <1>a, <1>b DEF ViewInv, MapInv
<1>8. SyncInv'
  <2>1. IsCalm' = FALSE
    BY <1>a, <1>b, CalmIs DEF IsCalm
  <2>2. SyncOf(view, inbox', core', FALSE)
    BY <1>1, <1>3, <1>a, SyncTick
  <2> QED
    BY <2>1, <2>2, <1>0 DEF SyncInv
<1>9. NestedInv'
  <2>1. CountIs(0) \in {Cleared, CountIs(0)}
    OBVIOUS
  <2> QED
    BY <2>1, <1>0, <1>3, NestedStep
<1> QED
  BY <1>0, <1>4, <1>5, <1>6, <1>7, <1>8, <1>9 DEF ViewInv

\* The results of a search are passed on.
LEMMA FindsKeep ==
  ASSUME ViewTypes, ViewInv, NEW o \in Ops, Finds(o)
  PROVE  ViewTypes' /\ ViewInv'
<1>0. /\ task[o].at = "searches" /\ ~task[o].aborted /\ At(o, "found") /\ inbox' = inbox
      /\ view' = view /\ nested' = nested /\ commands' = commands /\ core' = core
      /\ UNCHANGED <<uiVars, commands>>
  BY DEF Finds, uiVars
<1>1. /\ inbox \in Seq(Messages) /\ task \in [Ops -> Tasks] /\ view \in Views /\ core \in Cores
      /\ ClearsCounted(view.count, inbox)
  BY DEF ViewTypes, ViewInv, ClosesInv
<1>2. /\ task' \in [Ops -> Tasks] /\ task'[o].at = "found" /\ task'[o].tries = task[o].tries
      /\ task'[o].aborted = task[o].aborted /\ task'[o].ends = task[o].ends
      /\ \A p \in Ops : p # o => task'[p] = task[p]
  BY <1>0, <1>1, AtIs
<1>3. /\ inbox' \in Seq(Messages) /\ ClearsCounted(view.count, inbox') /\ Adds(inbox', inbox, {})
      /\ \A p : PhaseIs(p, "running") \notin {}
  BY <1>0, <1>1, AddsNone
<1>4. ViewTypes'
  BY <1>0, <1>1, <1>2 DEF ViewTypes
<1>5. HolderInv'
  <2>1. \A p \in Ops : task'[p].at \in {"searches", "found"} <=> task[p].at \in {"searches", "found"}
    BY <1>0, <1>2
  <2>2. \A p \in Ops : task'[p].at \in {"none", "queued"} => task'[p].tries = 0
    BY <1>0, <1>2 DEF ViewInv, HolderInv
  <2> QED
    BY <2>1, <2>2, <1>0 DEF ViewInv, HolderInv, HasHolder
<1>6. StartInv' /\ RunInv' /\ PendingInv' /\ ClosesInv' /\ (~view.missed => OrderInv')
  <2>1. \A p \in Ops :
          /\ task'[p].aborted = task[p].aborted
          /\ task'[p].at = "none" <=> task[p].at = "none"
          /\ IsOver(p) => task'[p].at \in {"clears", "ended"}
          /\ task'[p].at = "clears" => task'[p].ends # "none"
          /\ task'[p].at = "ended" =>
               \/ task[p].at = "ended" /\ PhaseIs(p, "running") \notin {}
               \/ \A phase : HearsEnd(phase, inbox', p)
    <3> TAKE p \in Ops
    <3>1. CASE p = o
      BY <3>1, <1>0, <1>2, <1>3 DEF IsOver
    <3>2. CASE p # o
      BY <3>2, <1>2, <1>3 DEF IsOver, ViewInv, StartInv
    <3> QED
      BY <3>1, <3>2
  <2>2. \A x \in {} : x.is # "answer"
    BY <1>3
  <2> QED
    BY <2>1, <2>2, <1>0, <1>2, <1>3, TellStep
<1>7. ~view.missed => MapInv'
  <2> SUFFICES ASSUME ~view.missed PROVE MapInv'
    OBVIOUS
  <2>1. OrderInv /\ MapInv
    BY DEF ViewInv
  <2>2. \A p \in Ops : task[p].at = "asks" => task[p].aborted
    <3> SUFFICES ASSUME NEW p \in Ops, task[p].at = "asks" PROVE task[p].aborted
      OBVIOUS
    <3>1. p # o /\ p \in Nat /\ o \in Nat
      BY <1>0, OpsAre
    <3>2. CASE p < o
      BY <3>2, <2>1, <1>0 DEF OrderInv, IsOver
    <3>3. CASE o < p
      BY <3>3, <2>1, <1>0 DEF OrderInv, IsOver
    <3> QED
      BY <3>1, <3>2, <3>3
  <2> QED
    BY <2>1, <2>2, <1>0, <1>2 DEF MapInv
<1>8. ViewFollows' => ViewFollows
  <2>1. view.op \in Ops \cup {NoOp}
    BY <1>1 DEF Views
  <2>2. CASE view.op = o
    BY <2>2, <1>0, <1>2 DEF ViewFollows, IsFresh
  <2>3. CASE view.op # o
    BY <2>1, <2>3, <1>0, <1>2 DEF ViewFollows, IsFresh
  <2> QED
    BY <2>2, <2>3
<1>9. ViewFollows => SyncInv'
  <2>1. IsCalm' = IsCalm
    BY <1>0, <1>2, CalmIs DEF IsCalm
  <2> QED
    BY <2>1, <1>0 DEF ViewInv, SyncInv
<1>10. ViewFollows => NestedInv'
  <2>1. \A row : \A n \in Nat \ {0} : IsMatch(core.map, n, row) => IsMatch(core.map', n, row)
    BY <1>0
  <2> QED
    BY <2>1, <1>0, <1>3, NestedStep DEF ViewInv
<1> QED
  BY <1>0, <1>4, <1>5, <1>6, <1>7, <1>8, <1>9, <1>10 DEF ViewInv

\* A search fails or is cancelled.
LEMMA BreaksKeeps ==
  ASSUME ViewTypes, ViewInv, NEW o \in Ops, Breaks(o)
  PROVE  ViewTypes' /\ ViewInv'
<1>0. /\ task[o].at \in {"searches", "found"} /\ inbox' = inbox
      /\ view' = view /\ nested' = nested /\ commands' = commands
      /\ core' = [core EXCEPT !.slot = "empty"]
      /\ UNCHANGED <<uiVars, commands>>
  BY DEF Breaks, uiVars
<1>1. /\ inbox \in Seq(Messages) /\ task \in [Ops -> Tasks] /\ view \in Views /\ core \in Cores
      /\ ClearsCounted(view.count, inbox)
  BY DEF ViewTypes, ViewInv, ClosesInv
<1>2. /\ task' \in [Ops -> Tasks] /\ task'[o].at = "clears" /\ task'[o].tries = task[o].tries
      /\ task'[o].aborted = task[o].aborted /\ task'[o].ends # "none"
      /\ \A p \in Ops : p # o => task'[p] = task[p]
  <2>1. \E e \in {"failed", "success"} : task' = [task EXCEPT ![o].at = "clears", ![o].ends = e]
    BY DEF Breaks
  <2>2. PICK e \in {"failed", "success"} : task' = [task EXCEPT ![o].at = "clears", ![o].ends = e]
    BY <2>1
  <2> DEFINE t == [task[o] EXCEPT !.at = "clears", !.ends = e]
  <2>3. task' = [task EXCEPT ![o] = t]
    BY <2>2, <1>1
  <2>4. /\ t \in Tasks /\ t.at = "clears" /\ t.ends = e
        /\ t.tries = task[o].tries /\ t.aborted = task[o].aborted
    <3>1. task[o] \in Tasks
      BY <1>1
    <3> QED
      BY <3>1 DEF Tasks
  <2> HIDE DEF t
  <2> QED
    BY <2>3, <2>4, <1>1
<1>3. /\ inbox' \in Seq(Messages) /\ ClearsCounted(view.count, inbox') /\ Adds(inbox', inbox, {})
      /\ \A p : PhaseIs(p, "running") \notin {}
  BY <1>0, <1>1, AddsNone
<1>a. core' \in Cores /\ core'.slot = "empty" /\ core'.map = core.map
  BY <1>0, <1>1 DEF Cores
<1>b. \A p \in Ops : p # o => task[p].at \notin {"searches", "found"}
  BY <1>0 DEF ViewInv, HolderInv, HasHolder
<1>4. ViewTypes'
  BY <1>0, <1>2, <1>3, <1>a DEF ViewTypes
<1>5. HolderInv'
  <2>2. \A p \in Ops : task'[p].at \in {"none", "queued"} => task'[p].tries = 0
    BY <1>0, <1>2 DEF ViewInv, HolderInv
  <2> QED
    BY <2>2, <1>2, <1>a, <1>b DEF HolderInv, HasHolder
<1>6. StartInv' /\ RunInv' /\ PendingInv' /\ ClosesInv' /\ (~view.missed => OrderInv')
  <2>1. \A p \in Ops :
          /\ task'[p].aborted = task[p].aborted
          /\ task'[p].at = "none" <=> task[p].at = "none"
          /\ IsOver(p) => task'[p].at \in {"clears", "ended"}
          /\ task'[p].at = "clears" => task'[p].ends # "none"
          /\ task'[p].at = "ended" =>
               \/ task[p].at = "ended" /\ PhaseIs(p, "running") \notin {}
               \/ \A phase : HearsEnd(phase, inbox', p)
    <3> TAKE p \in Ops
    <3>1. CASE p = o
      BY <3>1, <1>0, <1>2, <1>3 DEF IsOver
    <3>2. CASE p # o
      BY <3>2, <1>2, <1>3 DEF IsOver, ViewInv, StartInv
    <3> QED
      BY <3>1, <3>2
  <2>2. \A x \in {} : x.is # "answer"
    BY <1>3
  <2> QED
    BY <2>1, <2>2, <1>0, <1>2, <1>3, TellStep
<1>7. ~view.missed => MapInv'
  BY <1>0, <1>2, <1>a DEF ViewInv, MapInv
<1>8. ViewFollows' => ViewFollows
  <2>1. view.op \in Ops \cup {NoOp}
    BY <1>1 DEF Views
  <2>2. CASE view.op = o
    BY <2>2, <1>0, <1>2 DEF ViewFollows, IsFresh
  <2>3. CASE view.op # o
    BY <2>1, <2>3, <1>0, <1>2 DEF ViewFollows, IsFresh
  <2> QED
    BY <2>2, <2>3
<1>9. ViewFollows => SyncInv'
  <2>1. IsCalm' = FALSE
    BY <1>2, CalmIs DEF IsCalm
  <2>2. ViewFollows => SyncOf(view, inbox, core', FALSE)
    BY <1>a, CalmIs, SyncLess DEF ViewInv, SyncInv
  <2> QED
    BY <2>1, <2>2, <1>0 DEF SyncInv
<1>10. ViewFollows => NestedInv'
  <2>1. \A row : \A n \in Nat \ {0} : IsMatch(core.map, n, row) => IsMatch(core.map', n, row)
    BY <1>a
  <2> QED
    BY <2>1, <1>0, <1>3, NestedStep DEF ViewInv
<1> QED
  BY <1>0, <1>4, <1>5, <1>6, <1>7, <1>8, <1>9, <1>10 DEF ViewInv

\* The holder is given back with its results.
LEMMA GivesBackKeeps ==
  ASSUME ViewTypes, ViewInv, NEW o \in Ops, GivesHolderBack(o)
  PROVE  ViewTypes' /\ ViewInv'
<1> DEFINE list == MatchesOf(o, 1, core.upTo)
           m == PhaseIs(o, "success")
           w == Append(Append(Append(inbox, IndexedIs(core')), MoreFound(list)),
                       CountIs(Len(list)))
<1>0. /\ task[o].at = "found" /\ At(o, "ended")
      /\ core' = [core EXCEPT !.slot = "ready", !.map = list, !.found = ToSet(list)]
      /\ core'.map = list
      /\ inbox' = inbox \o <<IndexedIs(core'), MoreFound(core'.map), CountIs(Len(core'.map)), m>>
      /\ view' = view /\ nested' = nested /\ commands' = commands
      /\ UNCHANGED <<uiVars, commands>>
  <2>1. core' = SetBy(o, [core EXCEPT !.slot = "ready"])
    BY DEF GivesHolderBack
  <2>2. core' = [core EXCEPT !.slot = "ready", !.map = list, !.found = ToSet(list)]
    BY <2>1 DEF SetBy
  <2>3. core \in Cores
    BY DEF ViewTypes
  <2>4. core'.map = list
    BY <2>2, <2>3 DEF Cores
  <2> QED
    BY <2>1, <2>2, <2>4 DEF GivesHolderBack, Tells, uiVars
<1>1. /\ inbox \in Seq(Messages) /\ task \in [Ops -> Tasks] /\ view \in Views /\ core \in Cores
      /\ ClearsCounted(view.count, inbox)
  BY DEF ViewTypes, ViewInv, ClosesInv
<1>2. /\ task' \in [Ops -> Tasks] /\ task'[o].at = "ended" /\ task'[o].tries = task[o].tries
      /\ task'[o].aborted = task[o].aborted /\ task'[o].ends = task[o].ends
      /\ \A p \in Ops : p # o => task'[p] = task[p]
  BY <1>0, <1>1, AtIs
<1>b. core.slot = "lent" /\ \A p \in Ops : p # o => task[p].at \notin {"searches", "found"}
  BY <1>0 DEF ViewInv, HolderInv, HasHolder
<1>c. list \in Seq(Entries) /\ ToSet(list) \in SUBSET Entries /\ IsFiniteSet(ToSet(list))
      /\ Len(list) \in Nat
  <2>1. core.upTo \in Nat
    BY <1>1, CoreIs
  <2>2. list \in Seq(Entries)
    BY <2>1, ListIs
  <2> QED
    BY <2>2, MembersAre, LenProperties
<1> HIDE DEF list
<1>a. core' \in Cores /\ core'.slot = "ready"
  BY <1>0, <1>1, <1>b, <1>c DEF Cores
<1>d. /\ IndexedIs(core') \in Messages /\ MoreFound(list) \in Messages
      /\ CountIs(Len(list)) \in Messages /\ m \in Messages
      /\ IndexedIs(core').is = "indexed" /\ MoreFound(list).is = "found"
      /\ CountIs(Len(list)).is = "count" /\ m.is = "phase" /\ Cleared.is = "cleared"
      /\ m # PhaseIs(o, "running")
  <2>1. IndexedIs(core') \in Messages
    BY <1>a, CoreIs
  <2>2. IndexedIs(core').is = "indexed" /\ m # PhaseIs(o, "running")
    BY DEF IndexedIs, PhaseIs
  <2> QED
    BY <2>1, <2>2, <1>c, ToldAre
<1>e. w \in Seq(Messages) /\ inbox' = Append(w, m)
      /\ Adds(w, inbox, {IndexedIs(core'), MoreFound(list), CountIs(Len(list))})
  <2> DEFINE i == IndexedIs(core')
             f == MoreFound(list)
             l == CountIs(Len(list))
  <2>1. inbox' = inbox \o <<i, f, l, m>>
    BY <1>0
  <2> HIDE DEF i, f, l, m
  <2>2. i \in Messages /\ f \in Messages /\ l \in Messages /\ m \in Messages
    BY <1>d DEF i, f, l, m
  <2>3. <<i, f, l>> \in Seq(Messages) /\ <<i, f, l, m>> = Append(<<i, f, l>>, m)
    BY <2>2
  <2>4. inbox \o <<i, f, l>> = Append(Append(Append(inbox, i), f), l)
    BY <2>2, <1>1, ToldOneByOne
  <2>5. inbox \o Append(<<i, f, l>>, m) = Append(inbox \o <<i, f, l>>, m)
    BY <2>2, <2>3, <1>1, ToldOneByOne
  <2>6. Append(Append(Append(inbox, i), f), l) \in Seq(Messages)
    BY <2>2, <1>1, Appended
  <2>7. Adds(Append(Append(Append(inbox, i), f), l), inbox, {i, f, l})
    BY <2>2, <1>1, AddsThree
  <2> QED
    BY <2>1, <2>3, <2>4, <2>5, <2>6, <2>7 DEF i, f, l
<1>f. ClearsCounted(view.count, w)
  <2> DEFINE i == IndexedIs(core')
             f == MoreFound(list)
             l == CountIs(Len(list))
             x == Append(inbox, i)
             y == Append(x, f)
  <2> HIDE DEF i, f, l
  <2>1. /\ i \in Messages /\ f \in Messages /\ l \in Messages
        /\ i.is # "count" /\ f.is # "count" /\ i # Cleared /\ f # Cleared /\ l # Cleared
    BY <1>d DEF i, f, l
  <2>2. x \in Seq(Messages) /\ IsInserted(x, inbox, Len(inbox) + 1, i)
    BY <2>1, <1>1, Appended, InsertedIs
  <2>3. ClearsCounted(view.count, x)
    BY <2>1, <2>2, <1>1, ClearsInserted
  <2> HIDE DEF x
  <2>4. y \in Seq(Messages) /\ IsInserted(y, x, Len(x) + 1, f)
    BY <2>1, <2>2, Appended, InsertedIs
  <2>5. ClearsCounted(view.count, y)
    BY <2>1, <2>2, <2>3, <2>4, ClearsInserted
  <2> HIDE DEF y
  <2>6. IsInserted(Append(y, l), y, Len(y) + 1, l)
    BY <2>1, <2>4, InsertedIs
  <2>7. ClearsCounted(view.count, Append(y, l))
    BY <2>1, <2>4, <2>5, <2>6, ClearsInserted
  <2> QED
    BY <2>7 DEF x, y, i, f, l
<1> DEFINE M == {IndexedIs(core'), MoreFound(list), CountIs(Len(list))} \cup {m}
<1>g. Adds(inbox', inbox, M) /\ \A x \in M : x.is # "answer"
      /\ \A p : PhaseIs(p, "running") \notin M
  <2>1. Adds(inbox', inbox, M)
    BY <1>d, <1>e, AddsMore, InsertedIs
  <2>2. \A p : PhaseIs(p, "running").is = "phase" /\ PhaseIs(p, "running") # m
    BY DEF PhaseIs
  <2> QED
    BY <2>1, <2>2, <1>d
<1> HIDE DEF w, M, m
<1>3. /\ inbox' \in Seq(Messages) /\ ClearsCounted(view.count, inbox') /\ Adds(inbox', inbox, M)
      /\ \A p : PhaseIs(p, "running") \notin M
      /\ \A x \in M : x.is # "answer"
      /\ \A phase : HearsEnd(phase, inbox', o)
  <2>1. inbox' \in Seq(Messages) /\ ClearsCounted(view.count, inbox')
    BY <1>e, <1>f, PhaseTold DEF m
  <2>2. \A phase : HearsEnd(phase, inbox', o)
    BY <1>e, EndTold DEF m
  <2> QED
    BY <2>1, <2>2, <1>g
<1>4. ViewTypes'
  BY <1>0, <1>2, <1>3, <1>a DEF ViewTypes
<1>5. HolderInv'
  <2>2. \A p \in Ops : task'[p].at \in {"none", "queued"} => task'[p].tries = 0
    BY <1>0, <1>2 DEF ViewInv, HolderInv
  <2> QED
    BY <2>2, <1>2, <1>a, <1>b DEF HolderInv, HasHolder
<1>6. StartInv' /\ RunInv' /\ PendingInv' /\ ClosesInv' /\ (~view.missed => OrderInv')
  <2>1. \A p \in Ops :
          /\ task'[p].aborted = task[p].aborted
          /\ task'[p].at = "none" <=> task[p].at = "none"
          /\ IsOver(p) => task'[p].at \in {"clears", "ended"}
          /\ task'[p].at = "clears" => task'[p].ends # "none"
          /\ task'[p].at = "ended" =>
               \/ task[p].at = "ended" /\ PhaseIs(p, "running") \notin M
               \/ \A phase : HearsEnd(phase, inbox', p)
    <3> TAKE p \in Ops
    <3>1. CASE p = o
      BY <3>1, <1>0, <1>2, <1>3 DEF IsOver
    <3>2. CASE p # o
      BY <3>2, <1>2, <1>3 DEF IsOver, ViewInv, StartInv
    <3> QED
      BY <3>1, <3>2
  <2>2. \A x \in M : x.is # "answer"
    BY <1>3
  <2> QED
    BY <2>1, <2>2, <1>0, <1>2, <1>3, TellStep
<1>7. ~view.missed => MapInv'
  <2> SUFFICES ASSUME ~view.missed PROVE MapInv'
    OBVIOUS
  <2>1. \A p \in Ops : task[p].at = "asks" => task[p].aborted
    BY <1>0 DEF ViewInv, MapInv
  <2> QED
    BY <2>1, <1>2, <1>b DEF MapInv
<1>8. ViewFollows' => ViewFollows
  <2>1. view.op \in Ops \cup {NoOp}
    BY <1>1 DEF Views
  <2>2. CASE view.op = o
    BY <2>2, <1>0, <1>2 DEF ViewFollows, IsFresh
  <2>3. CASE view.op # o
    BY <2>1, <2>3, <1>0, <1>2 DEF ViewFollows, IsFresh
  <2> QED
    BY <2>2, <2>3
<1>a1. ViewFollows => core.map = << >>
  BY <1>0 DEF ViewFollows, ViewInv, MapInv
<1>9. ViewFollows => SyncInv'
  <2> SUFFICES ASSUME ViewFollows PROVE SyncInv'
    OBVIOUS
  <2>1. SyncOf(view, inbox, core, FALSE)
    BY CalmIs, SyncLess DEF ViewInv, SyncInv
  <2>2. SyncOf(view, w, core', IsCalm')
    <3>1. core'.map = list /\ core'.map \in Seq(Entries)
      BY <1>0, <1>c
    <3>2. SyncOf(view, Append(Append(Append(inbox, IndexedIs(core')), MoreFound(core'.map)),
                              CountIs(Len(core'.map))), core', IsCalm')
      BY <2>1, <1>1, <1>a, <1>a1, CalmIs, SyncBack
    <3> QED
      BY <3>1, <3>2 DEF w
  <2>3. SyncOf(view, inbox', core', IsCalm')
    <3>1. IsInserted(Append(w, m), w, Len(w) + 1, m)
      BY <1>d, <1>e, InsertedIs DEF m
    <3>2. m \in Messages /\ m.is \in {"phase", "answer"}
      BY <1>d DEF m
    <3> QED
      BY <3>1, <3>2, <2>2, <1>a, <1>e, CalmIs, SyncOther
  <2> QED
    BY <2>3, <1>0 DEF SyncInv
<1>10. ViewFollows => NestedInv'
  <2> SUFFICES ASSUME ViewFollows PROVE NestedInv'
    OBVIOUS
  <2>1. \A row : \A n \in Nat \ {0} : ~IsMatch(core.map, n, row)
    <3>1. Len(core.map) = 0
      BY <1>a1
    <3> QED
      BY <3>1 DEF IsMatch
  <2> QED
    BY <2>1, <1>0, <1>3, NestedStep DEF ViewInv
<1> QED
  BY <1>0, <1>4, <1>5, <1>6, <1>7, <1>8, <1>9, <1>10 DEF ViewInv

\* A search that was broken is cleared.
LEMMA ClearsKeeps ==
  ASSUME ViewTypes, ViewInv, NEW o \in Ops, Clears(o)
  PROVE  ViewTypes' /\ ViewInv'
<1> DEFINE m == PhaseIs(o, task[o].ends)
           w == inbox \o DropOf(core).events
<1>0. /\ task[o].at = "clears" /\ At(o, "ended") /\ core' = DropOf(core).core
      /\ inbox' = inbox \o Append(DropOf(core).events, m)
      /\ view' = view /\ nested' = nested /\ commands' = commands
      /\ UNCHANGED <<uiVars, commands>>
  BY DEF Clears, Tells, uiVars
<1>1. /\ inbox \in Seq(Messages) /\ task \in [Ops -> Tasks] /\ view \in Views /\ core \in Cores
      /\ ClearsCounted(view.count, inbox)
  BY DEF ViewTypes, ViewInv, ClosesInv
<1>2. /\ task' \in [Ops -> Tasks] /\ task'[o].at = "ended" /\ task'[o].tries = task[o].tries
      /\ task'[o].aborted = task[o].aborted /\ task'[o].ends = task[o].ends
      /\ \A p \in Ops : p # o => task'[p] = task[p]
  BY <1>0, <1>1, AtIs
<1>a. /\ core' \in Cores
      /\ core.slot = "lent" => core' = core
      /\ core.slot # "lent" => core'.map = << >> /\ core'.slot = "empty"
  BY <1>0, <1>1, DropIs
<1>b. task[o].ends \in {"success", "failed"}
  BY <1>0, <1>1 DEF ViewInv, StartInv, Tasks
<1>c. /\ m \in Messages /\ m.is = "phase"
      /\ \A p : PhaseIs(p, "running") # m /\ PhaseIs(p, "running").is = "phase"
  <2>1. \A p : PhaseIs(p, "running") # m /\ PhaseIs(p, "running").is = "phase"
    BY <1>b DEF PhaseIs
  <2> QED
    BY <2>1, <1>b, ToldAre
<1>d. /\ w \in Seq(Messages) /\ ClearsCounted(view.count, w) /\ inbox' = Append(w, m)
  BY <1>0, <1>1, <1>c, DropTold
<1>e. PICK N : /\ Adds(w, inbox, N) /\ CountIs(0) \in N
               /\ \A x \in N : x.is \in {"indexed", "count", "cleared"}
  BY <1>1, DropTold
<1> DEFINE M == N \cup {m}
<1> HIDE DEF w, m
<1>3. /\ inbox' \in Seq(Messages) /\ ClearsCounted(view.count, inbox') /\ Adds(inbox', inbox, M)
      /\ \A p : PhaseIs(p, "running") \notin M
      /\ \A x \in M : x.is # "answer"
      /\ \A phase : HearsEnd(phase, inbox', o)
      /\ CountIs(0) \in M
  <2>1. inbox' \in Seq(Messages) /\ ClearsCounted(view.count, inbox')
    BY <1>b, <1>d, PhaseTold DEF m
  <2>2. \A phase : HearsEnd(phase, inbox', o)
    BY <1>b, <1>d, EndTold DEF m
  <2>3. Adds(inbox', inbox, M)
    BY <1>c, <1>d, <1>e, AddsMore, InsertedIs
  <2>4. /\ \A p : PhaseIs(p, "running") \notin M
        /\ \A x \in M : x.is # "answer"
        /\ CountIs(0) \in M
    BY <1>c, <1>e
  <2> QED
    BY <2>1, <2>2, <2>3, <2>4
<1> HIDE DEF M
<1>4. ViewTypes'
  BY <1>0, <1>2, <1>3, <1>a DEF ViewTypes
<1>5. HolderInv'
  <2>1. \A p \in Ops : task'[p].at \in {"searches", "found"} <=> task[p].at \in {"searches", "found"}
    BY <1>0, <1>2
  <2>2. \A p \in Ops : task'[p].at \in {"none", "queued"} => task'[p].tries = 0
    BY <1>0, <1>2 DEF ViewInv, HolderInv
  <2>3. core'.slot = "lent" <=> core.slot = "lent"
    BY <1>a
  <2> QED
    BY <2>1, <2>2, <2>3 DEF ViewInv, HolderInv, HasHolder
<1>6. StartInv' /\ RunInv' /\ PendingInv' /\ ClosesInv' /\ (~view.missed => OrderInv')
  <2>1. \A p \in Ops :
          /\ task'[p].aborted = task[p].aborted
          /\ task'[p].at = "none" <=> task[p].at = "none"
          /\ IsOver(p) => task'[p].at \in {"clears", "ended"}
          /\ task'[p].at = "clears" => task'[p].ends # "none"
          /\ task'[p].at = "ended" =>
               \/ task[p].at = "ended" /\ PhaseIs(p, "running") \notin M
               \/ \A phase : HearsEnd(phase, inbox', p)
    <3> TAKE p \in Ops
    <3>1. CASE p = o
      BY <3>1, <1>0, <1>2, <1>3 DEF IsOver
    <3>2. CASE p # o
      BY <3>2, <1>2, <1>3 DEF IsOver, ViewInv, StartInv
    <3> QED
      BY <3>1, <3>2
  <2>2. \A x \in M : x.is # "answer"
    BY <1>3
  <2> QED
    BY <2>1, <2>2, <1>0, <1>2, <1>3, TellStep
<1>7. ~view.missed => MapInv'
  <2>1. CASE core.slot = "lent"
    BY <2>1, <1>0, <1>2, <1>a DEF ViewInv, MapInv
  <2>2. CASE core.slot # "lent"
    <3>1. \A p \in Ops : task[p].at \notin {"searches", "found"}
      BY <2>2 DEF ViewInv, HolderInv, HasHolder
    <3> QED
      BY <3>1, <2>2, <1>2, <1>a DEF MapInv
  <2> QED
    BY <2>1, <2>2
<1>8. SyncInv'
  <2>1. core.slot = "lent" => ~IsCalm'
    BY <1>a DEF IsCalm
  <2>2. SyncOf(view, w, core', IsCalm')
    BY <2>1, <1>0, <1>1, CalmIs, SyncDrop DEF w
  <2>3. IsInserted(Append(w, m), w, Len(w) + 1, m)
    BY <1>c, <1>d, InsertedIs
  <2>4. SyncOf(view, inbox', core', IsCalm')
    BY <2>2, <2>3, <1>a, <1>c, <1>d, CalmIs, SyncOther
  <2> QED
    BY <2>4, <1>0 DEF SyncInv
<1>9. NestedInv'
  BY <1>0, <1>3, NestedStep
<1> QED
  BY <1>0, <1>4, <1>5, <1>6, <1>7, <1>8, <1>9 DEF ViewInv

\* Rows are written.
LEMMA WritesKeep ==
  ASSUME ViewTypes, ViewInv, Writes
  PROVE  ViewTypes' /\ ViewInv'
<1> DEFINE list == MatchesOf(core.by, core.upTo + 1, core.rows + 1)
<1>0. /\ task' = task /\ view' = view /\ nested' = nested /\ commands' = commands
      /\ UNCHANGED <<uiVars, commands>>
  BY DEF Writes, uiVars
<1>1. /\ inbox \in Seq(Messages) /\ task \in [Ops -> Tasks] /\ view \in Views /\ core \in Cores
      /\ ClearsCounted(view.count, inbox)
  BY DEF ViewTypes, ViewInv, ClosesInv
<1>2. task' \in [Ops -> Tasks] /\ task' = task
  BY <1>0, <1>1
<1>a. core.rows \in Nat /\ core.upTo \in Nat /\ core.rows + 1 \in Nat /\ core.upTo + 1 \in Nat
  <2>1. core.rows \in Nat /\ core.upTo \in Nat
    BY <1>1, CoreIs
  <2> QED
    BY <2>1
<1>b. CASE core.slot = "ready"
  <2> DEFINE n == core.rows + 1
             i == IndexedIs(core')
             l == CountIs(Len(core'.map))
             f == MoreFound(list)
             x == Append(inbox, i)
             y == Append(x, l)
  <2>1. list \in Seq(Entries) /\ ToSet(list) \in SUBSET Entries /\ IsFiniteSet(ToSet(list))
    <3>1. list \in Seq(Entries)
      <4>1. core.by \in Ops
        BY <1>1, <1>b, CoreIs
      <4> QED
        BY <4>1, <1>a, ListIs
    <3> QED
      BY <3>1, MembersAre
  <2>2. /\ core' = [core EXCEPT !.rows = n, !.upTo = n, !.map = core.map \o list,
                                !.found = core.found \cup ToSet(list)]
        /\ inbox' = inbox \o <<i, CountIs(Len(core.map) + Len(list)), f>>
    <3> DEFINE c == [core EXCEPT !.rows = @ + 1]
               b == [c EXCEPT !.upTo = c.rows]
    <3>1. /\ c.rows = n /\ c.slot = "ready" /\ c.by = core.by /\ c.upTo = core.upTo
          /\ c.map = core.map /\ c.found = core.found /\ c.marks = core.marks
      BY <1>1, <1>b DEF Cores
    <3>2. /\ b = [core EXCEPT !.rows = n, !.upTo = n]
          /\ b.map = core.map /\ b.found = core.found /\ b.marks = core.marks
      BY <3>1, <1>1 DEF Cores
    <3>3. /\ core' = AppendedTo(b, list)
          /\ inbox' = inbox \o AppendEvents(c, list)
      BY <3>1 DEF Writes, Tells
    <3>4. core' = [b EXCEPT !.map = core.map \o list, !.found = core.found \cup ToSet(list)]
      BY <3>2, <3>3 DEF AppendedTo
    <3>5. core' = [core EXCEPT !.rows = n, !.upTo = n, !.map = core.map \o list,
                                !.found = core.found \cup ToSet(list)]
      BY <3>2, <3>4
    <3>6. IndexedIs(AppendedTo(c, list)) = i
      <4>1. AppendedTo(c, list).found = core'.found /\ AppendedTo(c, list).marks = core'.marks
        BY <3>1, <3>5, <1>1 DEF AppendedTo, Cores
      <4> QED
        BY <4>1 DEF IndexedIs
    <3>7. AppendEvents(c, list) = <<i, CountIs(Len(core.map) + Len(list)), f>>
      BY <3>1, <3>6 DEF AppendEvents
    <3> QED
      BY <3>3, <3>5, <3>7
  <2>3. n \in Nat
    BY <1>a
  <2> HIDE DEF n, list
  <2>4. /\ core'.map = core.map \o list /\ core'.slot = "ready" /\ core'.by \in Ops
        /\ core' \in Cores
    <3>1. IsFiniteSet(core.found \cup ToSet(list))
      BY <2>1, <1>1, CoreIs, FS_Union
    <3>2. core.map \o list \in Seq(Entries)
      BY <2>1, <1>1, CoreIs, ConcatProperties
    <3> QED
      BY <3>1, <3>2, <2>1, <2>2, <2>3, <1>1, <1>b DEF Cores
  <2>5. inbox' = inbox \o <<i, l, f>>
    <3>1. Len(core'.map) = Len(core.map) + Len(list)
      BY <2>1, <2>4, <1>1, CoreIs, ConcatProperties
    <3> QED
      BY <3>1, <2>2
  <2>6. /\ i \in Messages /\ l \in Messages /\ f \in Messages
        /\ i.is = "indexed" /\ l.is = "count" /\ f.is = "found" /\ Cleared.is = "cleared"
        /\ \A p : PhaseIs(p, "running").is = "phase"
    <3>1. i \in Messages /\ Len(core'.map) \in Nat
      BY <2>4, CoreIs
    <3>2. i.is = "indexed" /\ \A p : PhaseIs(p, "running").is = "phase"
      BY DEF IndexedIs, PhaseIs
    <3> QED
      BY <3>1, <3>2, <2>1, ToldAre
  <2> HIDE DEF i, l, f
  <2>7. inbox' = Append(y, f) /\ Adds(inbox', inbox, {i, l, f})
    <3>1. inbox' = Append(y, f)
      BY <2>5, <2>6, <1>1, ToldOneByOne
    <3>2. Adds(Append(y, f), inbox, {i, l, f})
      BY <2>6, <1>1, AddsThree
    <3> QED
      BY <3>1, <3>2
  <2>8. /\ \A p : PhaseIs(p, "running") \notin {i, l, f}
        /\ \A m \in {i, l, f} : m.is # "answer"
    BY <2>6
  <2>9. inbox' \in Seq(Messages) /\ ClearsCounted(view.count, inbox')
    <3>0. i.is # "count" /\ f.is # "count" /\ i # Cleared /\ f # Cleared /\ l # Cleared
      BY <2>6
    <3>1. x \in Seq(Messages) /\ IsInserted(x, inbox, Len(inbox) + 1, i)
      BY <2>6, <1>1, Appended, InsertedIs
    <3>2. ClearsCounted(view.count, x)
      BY <3>0, <3>1, <2>6, <1>1, ClearsInserted
    <3> HIDE DEF x
    <3>3. y \in Seq(Messages) /\ IsInserted(y, x, Len(x) + 1, l)
      BY <3>1, <2>6, Appended, InsertedIs
    <3>4. ClearsCounted(view.count, y)
      BY <3>0, <3>1, <3>2, <3>3, <2>6, ClearsInserted
    <3> HIDE DEF y
    <3>5. Append(y, f) \in Seq(Messages) /\ IsInserted(Append(y, f), y, Len(y) + 1, f)
      BY <3>3, <2>6, Appended, InsertedIs
    <3>6. ClearsCounted(view.count, Append(y, f))
      BY <3>0, <3>3, <3>4, <3>5, <2>6, ClearsInserted
    <3> QED
      BY <3>5, <3>6, <2>7
  <2>10. ViewTypes'
    BY <2>4, <2>9, <1>0, <1>2 DEF ViewTypes
  <2>11. HolderInv'
    BY <2>4, <1>0, <1>b DEF ViewInv, HolderInv, HasHolder
  <2>12. StartInv' /\ RunInv' /\ PendingInv' /\ ClosesInv' /\ (~view.missed => OrderInv')
    <3>1. \A p \in Ops :
            /\ task'[p].aborted = task[p].aborted
            /\ task'[p].at = "none" <=> task[p].at = "none"
            /\ IsOver(p) => task'[p].at \in {"clears", "ended"}
            /\ task'[p].at = "clears" => task'[p].ends # "none"
            /\ task'[p].at = "ended" =>
                 \/ task[p].at = "ended" /\ PhaseIs(p, "running") \notin {i, l, f}
                 \/ \A phase : HearsEnd(phase, inbox', p)
      BY <2>8, <1>0 DEF IsOver, ViewInv, StartInv
    <3> QED
      BY <3>1, <2>7, <2>8, <2>9, <1>0, <1>2, TellStep
  <2>13. ~view.missed => MapInv'
    <3>1. \A p \in Ops : task[p].at \notin {"searches", "found"}
      BY <1>b DEF ViewInv, HolderInv, HasHolder
    <3> QED
      BY <3>1, <1>0, <1>b DEF ViewInv, MapInv
  <2>14. ViewFollows => SyncInv'
    <3>1. IsCalm' = IsCalm
      BY <2>4, <1>0, <1>b, CalmIs DEF IsCalm
    <3>2. ViewFollows => SyncOf(view, Append(Append(Append(inbox, i), l), f), core', IsCalm)
      BY <2>1, <2>4, <1>1, <1>b, CalmIs, SyncWrite DEF ViewInv, SyncInv, i, l, f
    <3> QED
      BY <3>1, <3>2, <2>7, <1>0 DEF SyncInv
  <2>15. ViewFollows => NestedInv'
    <3>1. \A row : \A k \in Nat \ {0} : IsMatch(core.map, k, row) => IsMatch(core'.map, k, row)
      <4>1. /\ Len(core.map) \in Nat /\ Len(list) \in Nat
            /\ Len(core.map \o list) = Len(core.map) + Len(list)
            /\ \A k \in 1 .. Len(core.map) + Len(list) :
                 (core.map \o list)[k] = IF k <= Len(core.map) THEN core.map[k]
                                         ELSE list[k - Len(core.map)]
        BY <2>1, <1>1, CoreIs, ConcatProperties, LenProperties
      <4> QED
        BY <4>1, <2>4 DEF IsMatch
    <3> QED
      BY <3>1, <2>7, <2>8, <1>0, NestedStep DEF ViewInv
  <2> QED
    BY <2>10, <2>11, <2>12, <2>13, <2>14, <2>15, <1>0 DEF ViewInv, ViewFollows, IsFresh
<1>c. CASE core.slot # "ready"
  <2> DEFINE n == core.rows + 1
  <2>1. core' = [core EXCEPT !.rows = n] /\ inbox' = inbox
    <3> DEFINE c == [core EXCEPT !.rows = @ + 1]
    <3>1. c.slot # "ready"
      BY <1>1, <1>c DEF Cores
    <3> QED
      BY <3>1 DEF Writes
  <2>2. n \in Nat
    BY <1>a
  <2> HIDE DEF n
  <2>3. /\ core' \in Cores /\ core'.map = core.map /\ core'.slot = core.slot
        /\ core'.found = core.found /\ core'.marks = core.marks
    BY <2>1, <2>2, <1>1 DEF Cores
  <2>4. ViewTypes'
    BY <2>1, <2>3, <1>0, <1>1 DEF ViewTypes
  <2>5. HolderInv' /\ StartInv' /\ RunInv' /\ PendingInv' /\ ClosesInv' /\ (~view.missed => OrderInv')
    BY <2>1, <2>3, <1>0 DEF ViewInv, HolderInv, HasHolder, StartInv, RunInv, PendingInv, FindsPending,
       AnswersPending, ClosesInv, OrderInv, IsLeft, IsOver
  <2>6. ~view.missed => MapInv'
    BY <2>3, <1>0 DEF ViewInv, MapInv
  <2>7. ViewFollows => SyncInv'
    <3>1. IsCalm' = IsCalm
      BY <2>3, <1>0, CalmIs DEF IsCalm
    <3>2. ViewFollows => SyncOf(view, inbox, core', IsCalm)
      BY <2>3, CalmIs, SyncSame DEF ViewInv, SyncInv
    <3> QED
      BY <3>1, <3>2, <2>1, <1>0 DEF SyncInv
  <2>8. ViewFollows => NestedInv'
    BY <2>1, <2>3, <1>0 DEF ViewInv, NestedInv, AnswersPending
  <2> QED
    BY <2>4, <2>5, <2>6, <2>7, <2>8, <1>0 DEF ViewInv, ViewFollows, IsFresh
<1> QED
  BY <1>b, <1>c

-----------------------------------------------------------------------------
(* The service takes commands. *)

\* What is left of the commands.
IsTaken(c) ==
  /\ commands # << >> /\ c = Head(commands) /\ commands' = Tail(commands)
  /\ UNCHANGED uiVars

\* What a command does to the searches.
IsDone(c) ==
  /\ task' \in [Ops -> Tasks]
  /\ \A p \in Ops :
       /\ task'[p].ends = task[p].ends /\ task'[p].tries = task[p].tries
       /\ task'[p].at = (IF c = ApplyOf(p) THEN "queued" ELSE task[p].at)
       /\ task'[p].aborted <=> task[p].aborted \/ (c = DropFor(p) /\ task[p].at # "ended")

\* The command is the first one, the others stay.
LEMMA TakenIs ==
  ASSUME ViewTypes, NEW c, IsTaken(c)
  PROVE  /\ c \in Commands /\ c = commands[1] /\ Len(commands) \in Nat \ {0}
         /\ commands' \in Seq(Commands) /\ Len(commands') = Len(commands) - 1
         /\ DOMAIN commands = 1 .. Len(commands) /\ DOMAIN commands' = 1 .. Len(commands) - 1
         /\ \A i \in 1 .. Len(commands) - 1 : commands'[i] = commands[i + 1]
         /\ \A i \in DOMAIN commands' : \E j \in DOMAIN commands : j # 1 /\ commands'[i] = commands[j]
         /\ \A j \in DOMAIN commands : j # 1 => \E i \in DOMAIN commands' : commands'[i] = commands[j]
         /\ \A i \in DOMAIN commands : commands[i] \in Commands
         /\ view' = view /\ nested' = nested
<1>1. /\ c \in Commands /\ c = commands[1] /\ Len(commands) \in Nat \ {0}
      /\ commands' \in Seq(Commands) /\ Len(commands') = Len(commands) - 1
      /\ DOMAIN commands = 1 .. Len(commands) /\ DOMAIN commands' = 1 .. Len(commands) - 1
      /\ \A i \in 1 .. Len(commands) - 1 : commands'[i] = commands[i + 1]
  BY Tailed DEF IsTaken, ViewTypes
<1>2. ASSUME NEW i \in DOMAIN commands'
      PROVE  \E j \in DOMAIN commands : j # 1 /\ commands'[i] = commands[j]
  <2>1. i \in 1 .. Len(commands) - 1 /\ i + 1 \in DOMAIN commands /\ i + 1 # 1
    BY <1>1
  <2>2. commands'[i] = commands[i + 1]
    BY <2>1, <1>1
  <2> QED
    BY <2>1, <2>2
<1>3. ASSUME NEW j \in DOMAIN commands, j # 1
      PROVE  \E i \in DOMAIN commands' : commands'[i] = commands[j]
  <2>1. j - 1 \in 1 .. Len(commands) - 1 /\ j - 1 \in DOMAIN commands' /\ j - 1 + 1 = j
    BY <1>1, <1>3
  <2>2. commands'[j - 1] = commands[j - 1 + 1]
    BY <2>1, <1>1
  <2> QED
    BY <2>1, <2>2
<1>4. \A i \in DOMAIN commands : commands[i] \in Commands
  BY <1>1, ElementOfSeq DEF ViewTypes
<1> QED
  BY <1>1, <1>2, <1>3, <1>4 DEF IsTaken, uiVars

\* The searches wait and are left as before.
LEMMA TakenStarts ==
  ASSUME ViewTypes, ViewInv, NEW c, IsTaken(c), IsDone(c)
  PROVE  StartInv' /\ (~view.missed => OrderInv')
<1>0. /\ c \in Commands /\ c = commands[1] /\ Len(commands) \in Nat \ {0}
      /\ commands' \in Seq(Commands) /\ Len(commands') = Len(commands) - 1
      /\ DOMAIN commands = 1 .. Len(commands) /\ DOMAIN commands' = 1 .. Len(commands) - 1
      /\ \A i \in 1 .. Len(commands) - 1 : commands'[i] = commands[i + 1]
      /\ \A i \in DOMAIN commands : commands[i] \in Commands
      /\ view' = view /\ view.op \in Ops \cup {NoOp}
  BY TakenIs DEF ViewTypes, Views
<1>a. /\ \A i \in DOMAIN commands' : \E j \in DOMAIN commands : j # 1 /\ commands'[i] = commands[j]
      /\ \A j \in DOMAIN commands : j # 1 => \E i \in DOMAIN commands' : commands'[i] = commands[j]
  BY TakenIs
<1>b. 1 \in DOMAIN commands
  BY <1>0
<1>1. StartInv
  BY DEF ViewInv
<1>c. PICK len \in Nat \ {0} : len = Len(commands)
  BY <1>0
<1>2. \A p \in Ops : c = ApplyOf(p) => task[p].at = "none" /\ p <= view.made
  <2> TAKE p \in Ops
  <2>1. c = ApplyOf(p) => c.is = "apply" /\ c.op = p
    BY DEF ApplyOf
  <2>2. c.is = "apply" => c.op <= view.made /\ task[c.op].at = "none"
    BY <1>0, <1>1, <1>b DEF StartInv
  <2> QED
    BY <2>1, <2>2
<1>3. \A p \in Ops : c = DropFor(p) => p <= view.made /\ p # view.op
  <2> TAKE p \in Ops
  <2>1. NoOp \notin Ops
    BY OpsAre
  <2>2. c = DropFor(p) => c.is = "drop" /\ c.op = p
    BY DEF DropFor
  <2>3. c.is = "drop" => c.op <= view.made /\ (view.op # NoOp => c.op # view.op)
    BY <1>0, <1>1, <1>b DEF StartInv
  <2> QED
    BY <2>1, <2>2, <2>3
<1>4. \A o \in Ops : task'[o].at = "none" /\ o <= view.made =>
        \E i \in DOMAIN commands' : commands'[i] = ApplyOf(o)
  <2> SUFFICES ASSUME NEW o \in Ops, task'[o].at = "none", o <= view.made
               PROVE  \E i \in DOMAIN commands' : commands'[i] = ApplyOf(o)
    OBVIOUS
  <2>1. task[o].at = "none" /\ c # ApplyOf(o)
    BY DEF IsDone
  <2>2. PICK j \in DOMAIN commands : commands[j] = ApplyOf(o)
    BY <2>1, <1>1 DEF StartInv
  <2>3. j # 1
    BY <2>1, <2>2, <1>0
  <2> QED
    BY <2>2, <2>3, <1>a
<1>5. \A o \in Ops : o > view.made => task'[o].at = "none"
  <2> SUFFICES ASSUME NEW o \in Ops, o > view.made PROVE task'[o].at = "none"
    OBVIOUS
  <2>1. task[o].at = "none"
    BY <1>1 DEF StartInv
  <2>2. c # ApplyOf(o)
    <3>1. view.made \in Nat /\ o \in Nat
      BY OpsAre DEF ViewTypes, Views
    <3> QED
      BY <3>1, <1>2
  <2> QED
    BY <2>1, <2>2 DEF IsDone
<1>6. \A i, j \in DOMAIN commands' :
        commands'[i].is = "apply" /\ commands'[i] = commands'[j] => i = j
  <2> SUFFICES ASSUME NEW i \in DOMAIN commands', NEW j \in DOMAIN commands',
                      commands'[i].is = "apply", commands'[i] = commands'[j]
               PROVE  i = j
    OBVIOUS
  <2>1. /\ i + 1 \in DOMAIN commands /\ j + 1 \in DOMAIN commands
        /\ i \in 1 .. Len(commands) - 1 /\ j \in 1 .. Len(commands) - 1
    BY <1>0
  <2>2. commands'[i] = commands[i + 1] /\ commands'[j] = commands[j + 1]
    BY <2>1, <1>0
  <2>3. i + 1 = j + 1
    BY <2>1, <2>2, <1>1 DEF StartInv
  <2> QED
    BY <2>1, <2>3, <1>0
<1>7. \A i \in DOMAIN commands' : commands'[i].is = "apply" =>
        commands'[i].op <= view.made /\ task'[commands'[i].op].at = "none"
  <2> SUFFICES ASSUME NEW i \in DOMAIN commands', commands'[i].is = "apply"
               PROVE  commands'[i].op <= view.made /\ task'[commands'[i].op].at = "none"
    OBVIOUS
  <2>1. PICK j \in DOMAIN commands : j # 1 /\ commands'[i] = commands[j]
    BY <1>a
  <2>2. commands[j].op \in Ops /\ commands[j] = ApplyOf(commands[j].op)
    BY <2>1, <1>0, CommandIs
  <2>3. commands[j].op <= view.made /\ task[commands[j].op].at = "none"
    BY <2>1, <1>1 DEF StartInv
  <2>4. c # ApplyOf(commands[j].op)
    BY <2>1, <2>2, <1>0, <1>1, <1>b DEF StartInv
  <2> QED
    BY <2>1, <2>2, <2>3, <2>4 DEF IsDone
<1>8. \A i \in DOMAIN commands' : commands'[i].is = "drop" =>
        commands'[i].op <= view.made /\ (view.op # NoOp => commands'[i].op # view.op)
  BY <1>a, <1>1 DEF StartInv
<1>9. \A o \in Ops : task'[o].aborted => o <= view.made /\ o # view.op
  BY <1>1, <1>3 DEF StartInv, IsDone
<1>10. \A o \in Ops : task'[o].at = "clears" => task'[o].ends # "none"
  BY <1>1 DEF StartInv, IsDone
<1>11. StartInv'
  <2>1. view.op <= view.made
    BY <1>1 DEF StartInv
  <2> QED
    BY <2>1, <1>0, <1>4, <1>5, <1>6, <1>7, <1>8, <1>9, <1>10 DEF StartInv
<1>12. ASSUME ~view.missed PROVE OrderInv'
  <2>1. OrderInv
    BY <1>12 DEF ViewInv
  <2>2. ASSUME NEW o \in Ops, NEW n \in 1 .. Len(commands), IsLeft(o, n), c # ApplyOf(o)
        PROVE  IsLeft(o, n - 1)'
    <3>1. CASE IsOver(o) \/ task[o].aborted
      BY <3>1, <2>2 DEF IsLeft, IsOver, IsDone
    <3>2. ASSUME NEW j \in 1 .. n, commands[j] = DropFor(o) PROVE IsLeft(o, n - 1)'
      <4>1. CASE j = 1
        <5>1. task'[o].aborted \/ task'[o].at = "ended"
          BY <3>2, <4>1, <1>0, <2>2 DEF IsDone
        <5> QED
          BY <5>1 DEF IsLeft, IsOver
      <4>2. CASE j # 1
        <5>1. j - 1 \in 1 .. n - 1 /\ j - 1 \in 1 .. Len(commands) - 1 /\ j - 1 + 1 = j
          BY <3>2, <4>2, <1>0
        <5>2. commands'[j - 1] = commands[j - 1 + 1]
          BY <5>1, <1>0
        <5>3. \E x \in 1 .. n - 1 : commands'[x] = DropFor(o)
          BY <5>1, <5>2, <3>2
        <5> QED
          BY <5>3 DEF IsLeft
      <4> QED
        BY <4>1, <4>2
    <3> QED
      BY <3>1, <3>2, <2>2 DEF IsLeft
  <2>3. ASSUME NEW p \in Ops, c = ApplyOf(p), NEW o \in Ops, o < p
        PROVE  IsOver(o) \/ task[o].aborted
    <3>1. c.is = "apply" /\ c.op = p
      BY <2>3 DEF ApplyOf
    <3>2. IsLeft(o, 1 - 1)
      BY <2>1, <2>3, <3>1, <1>0, <1>b DEF OrderInv
    <3> QED
      BY <3>2 DEF IsLeft
  <2>4. \A i \in DOMAIN commands' : commands'[i].is = "apply" =>
          \A o \in Ops : o < commands'[i].op => IsLeft(o, i - 1)'
    <3> SUFFICES ASSUME NEW i \in DOMAIN commands', commands'[i].is = "apply",
                        NEW o \in Ops, o < commands'[i].op
                 PROVE  IsLeft(o, i - 1)'
      OBVIOUS
    <3>1. /\ i + 1 \in DOMAIN commands /\ i \in 1 .. Len(commands) - 1
          /\ i \in 1 .. Len(commands) /\ i + 1 - 1 = i
      BY <1>0
    <3>2. commands'[i] = commands[i + 1]
      BY <3>1, <1>0
    <3>3. IsLeft(o, i + 1 - 1)
      BY <3>1, <3>2, <2>1 DEF OrderInv
    <3>4. CASE c # ApplyOf(o)
      BY <3>1, <3>3, <3>4, <2>2
    <3>5. CASE c = ApplyOf(o)
      <4>1. /\ task[o].at = "none" /\ ~IsOver(o)
        BY <3>5, <1>2 DEF IsOver
      <4>2. CASE task[o].aborted
        BY <4>2 DEF IsLeft, IsDone
      <4>3. CASE ~task[o].aborted
        <5>1. \E x \in 1 .. i : commands[x] = DropFor(o)
          BY <4>1, <4>3, <3>1, <3>3 DEF IsLeft
        <5>2. PICK x \in 1 .. i : commands[x] = DropFor(o)
          BY <5>1
        <5>3. x # 1
          BY <5>2, <3>5, <1>0 DEF DropFor, ApplyOf
        <5>4. x - 1 \in 1 .. i - 1 /\ x - 1 \in 1 .. Len(commands) - 1 /\ x - 1 + 1 = x
          BY <5>2, <5>3, <3>1, <1>0
        <5>5. commands'[x - 1] = commands[x - 1 + 1]
          BY <5>4, <1>0
        <5>6. \E y \in 1 .. i - 1 : commands'[y] = DropFor(o)
          BY <5>2, <5>4, <5>5
        <5> QED
          BY <5>6 DEF IsLeft
      <4> QED
        BY <4>2, <4>3
    <3> QED
      BY <3>4, <3>5
  <2>5. \A o, p \in Ops : o < p /\ task'[p].at # "none" =>
          task'[o].at \in {"clears", "ended"} \/ task'[o].aborted
    <3> SUFFICES ASSUME NEW o \in Ops, NEW p \in Ops, o < p, task'[p].at # "none"
                 PROVE  task'[o].at \in {"clears", "ended"} \/ task'[o].aborted
      OBVIOUS
    <3>1. IsOver(o) \/ task[o].aborted
      BY <2>1, <2>3 DEF OrderInv, IsDone
    <3>2. IsOver(o) => c # ApplyOf(o)
      BY <1>2 DEF IsOver
    <3> QED
      BY <3>1, <3>2 DEF IsOver, IsDone
  <2>6. \A o \in Ops : o <= view.made /\ o # view.op => IsLeft(o, len - 1)'
    <3> SUFFICES ASSUME NEW o \in Ops, o <= view.made, o # view.op
                 PROVE  IsLeft(o, len - 1)'
      OBVIOUS
    <3>1. IsLeft(o, len) /\ len \in 1 .. Len(commands)
      BY <2>1, <1>0, <1>c DEF OrderInv
    <3>2. CASE c # ApplyOf(o)
      BY <3>1, <3>2, <2>2
    <3>3. CASE c = ApplyOf(o)
      <4>1. /\ task[o].at = "none" /\ ~IsOver(o)
        BY <3>3, <1>2 DEF IsOver
      <4>2. CASE task[o].aborted
        BY <4>2 DEF IsLeft, IsDone
      <4>3. CASE ~task[o].aborted
        <5>1. PICK x \in 1 .. len : commands[x] = DropFor(o)
          BY <4>1, <4>3, <3>1 DEF IsLeft
        <5>2. x # 1
          BY <5>1, <3>3, <1>0 DEF DropFor, ApplyOf
        <5>3. x - 1 \in 1 .. len - 1 /\ x - 1 \in 1 .. Len(commands) - 1 /\ x - 1 + 1 = x
          BY <5>1, <5>2, <1>0, <1>c
        <5>4. commands'[x - 1] = commands[x - 1 + 1]
          BY <5>3, <1>0
        <5>5. \E y \in 1 .. len - 1 : commands'[y] = DropFor(o)
          BY <5>1, <5>3, <5>4
        <5> QED
          BY <5>5 DEF IsLeft
      <4> QED
        BY <4>2, <4>3
    <3> QED
      BY <3>2, <3>3
  <2>7. Len(commands') = len - 1
    BY <1>0, <1>c
  <2>8. \A o \in Ops : o <= view.made' /\ o # view.op' => IsLeft(o, Len(commands))'
    BY <2>6, <2>7, <1>0 DEF IsLeft, IsOver
  <2> QED
    BY <1>0, <2>4, <2>5, <2>8 DEF OrderInv, IsOver
<1> QED
  BY <1>11, <1>12

\* What taking a command leaves true.
LEMMA TakenStep ==
  ASSUME ViewTypes, ViewInv, NEW c, IsTaken(c), IsDone(c),
         core'.slot = "lent" <=> core.slot = "lent",
         core'.slot = "ready" => core.slot = "ready",
         core'.map = core.map \/ core'.map = << >>,
         NEW M, Adds(inbox', inbox, M), ClearsCounted(view.count, inbox'),
         \A p : PhaseIs(p, "running") \notin M,
         c.is = "find" => \E m \in M : m.is = "answer" /\ m.request = c.request,
         \A m \in M : m.is = "answer" =>
           /\ c.is = "find" /\ m.request = c.request
           /\ m.at # NoAnchor => m.row \in Hits[c.filter]
  PROVE  /\ HolderInv' /\ StartInv' /\ RunInv' /\ PendingInv' /\ ClosesInv'
         /\ ~view.missed => OrderInv' /\ MapInv'
         /\ ViewFollows' => ViewFollows
         /\ IsCalm' = IsCalm
<1>0. /\ view' = view /\ nested' = nested
      /\ c = commands[1] /\ 1 \in DOMAIN commands
      /\ \A i \in DOMAIN commands' : \E j \in DOMAIN commands : j # 1 /\ commands'[i] = commands[j]
      /\ \A j \in DOMAIN commands : j # 1 => \E i \in DOMAIN commands' : commands'[i] = commands[j]
  BY TakenIs
<1>a. /\ task' \in [Ops -> Tasks] /\ task \in [Ops -> Tasks] /\ view \in Views
      /\ view.op \in Ops \cup {NoOp}
  BY DEF ViewTypes, IsDone, Views
<1>b. \A p \in Ops : c = ApplyOf(p) => task[p].at = "none"
  <2> TAKE p \in Ops
  <2>1. c = ApplyOf(p) => c.is = "apply" /\ c.op = p
    BY DEF ApplyOf
  <2>2. c.is = "apply" => task[c.op].at = "none"
    BY <1>0 DEF ViewInv, StartInv
  <2> QED
    BY <2>1, <2>2
<1>c. \A p \in Ops :
        /\ task'[p].tries = task[p].tries /\ (task[p].aborted => task'[p].aborted)
        /\ task'[p].at = task[p].at \/ (task[p].at = "none" /\ task'[p].at = "queued")
  BY <1>b DEF IsDone
<1>1. StartInv' /\ (~view.missed => OrderInv')
  BY TakenStarts
<1>2. HolderInv'
  <2>1. \A p \in Ops : task'[p].at \in {"searches", "found"} <=> task[p].at \in {"searches", "found"}
    BY <1>c
  <2>2. \A p \in Ops : task'[p].at \in {"none", "queued"} => task'[p].tries = 0
    BY <1>c DEF ViewInv, HolderInv
  <2> QED
    BY <2>1, <2>2 DEF ViewInv, HolderInv, HasHolder
<1>3. RunInv'
  <2> SUFFICES ASSUME view.op # NoOp, task'[view.op].at = "ended"
               PROVE  HearsEnd(view.phase, inbox', view.op)
    BY <1>0 DEF RunInv
  <2>1. task[view.op].at = "ended"
    BY <1>a, <1>c
  <2>2. HearsEnd(view.phase, inbox, view.op)
    BY <2>1 DEF ViewInv, RunInv
  <2> QED
    BY <2>2 DEF Adds
<1>4. PendingInv'
  <2>3. PendingInv
    BY DEF ViewInv
  <2>1. \A i \in DOMAIN inbox' : inbox'[i] \in M \/ \E j \in DOMAIN inbox : inbox'[i] = inbox[j]
    BY DEF Adds
  <2>2. /\ \A j \in DOMAIN inbox : \E i \in DOMAIN inbox' : inbox'[i] = inbox[j]
        /\ \A m \in M : \E i \in DOMAIN inbox' : inbox'[i] = m
    BY DEF Adds
  <2>4. /\ nested.pending <= nested.made
        /\ \A i \in DOMAIN commands' : commands'[i].is = "find" =>
             commands'[i].request \in 1 .. nested.made
        /\ \A i \in DOMAIN commands' :
             commands'[i].is = "find" /\ commands'[i].request = nested.pending =>
               commands'[i].filter = nested.filter
        /\ nested.anchor # NoAnchor /\ nested.found => nested.row \in Hits[nested.filter]
        /\ nested.filter = NoFilter => nested.anchor = NoAnchor /\ nested.pending = 0
    BY <2>3, <1>0 DEF PendingInv, FindsPending
  <2>5. nested.pending # 0 =>
          \/ \E i \in DOMAIN commands' : commands'[i].is = "find" /\ commands'[i].request = nested.pending
          \/ \E i \in DOMAIN inbox' : inbox'[i].is = "answer" /\ inbox'[i].request = nested.pending
    <3> SUFFICES ASSUME nested.pending # 0
                 PROVE  \/ \E i \in DOMAIN commands' : commands'[i].is = "find" /\ commands'[i].request = nested.pending
                        \/ \E i \in DOMAIN inbox' : inbox'[i].is = "answer" /\ inbox'[i].request = nested.pending
      OBVIOUS
    <3>1. CASE \E i \in DOMAIN inbox : AnswersPending(i)
      BY <3>1, <2>2 DEF AnswersPending
    <3>2. CASE \E i \in DOMAIN commands : FindsPending(i)
      <4>1. PICK i \in DOMAIN commands : FindsPending(i)
        BY <3>2
      <4>2. CASE i # 1
        BY <4>1, <4>2, <1>0 DEF FindsPending
      <4>3. CASE i = 1
        <5>1. c.is = "find" /\ c.request = nested.pending
          BY <4>1, <4>3, <1>0 DEF FindsPending
        <5>2. PICK m \in M : m.is = "answer" /\ m.request = c.request
          BY <5>1
        <5> QED
          BY <5>1, <5>2, <2>2
      <4> QED
        BY <4>2, <4>3
    <3> QED
      BY <3>1, <3>2, <2>3 DEF PendingInv
  <2>6. \A i \in DOMAIN inbox' : inbox'[i].is = "answer" => inbox'[i].request \in 1 .. nested.made
    <3>1. \A i \in DOMAIN inbox : inbox[i].is = "answer" => inbox[i].request \in 1 .. nested.made
      BY <2>3 DEF PendingInv
    <3>2. c.is = "find" => c.request \in 1 .. nested.made
      BY <2>3, <1>0 DEF PendingInv
    <3> QED
      BY <3>1, <3>2, <2>1
  <2>7. \A i \in DOMAIN inbox' :
          inbox'[i].is = "answer" /\ inbox'[i].request = nested.pending /\ inbox'[i].at # NoAnchor =>
            inbox'[i].row \in Hits[nested.filter]
    <3>1. \A i \in DOMAIN inbox :
            inbox[i].is = "answer" /\ inbox[i].request = nested.pending /\ inbox[i].at # NoAnchor =>
              inbox[i].row \in Hits[nested.filter]
      BY <2>3 DEF PendingInv, AnswersPending
    <3>2. c.is = "find" /\ c.request = nested.pending => c.filter = nested.filter
      BY <2>3, <1>0 DEF PendingInv, FindsPending
    <3> QED
      BY <3>1, <3>2, <2>1
  <2> QED
    BY <1>0, <2>4, <2>5, <2>6, <2>7 DEF PendingInv, FindsPending, AnswersPending
<1>5. ClosesInv'
  <2>1. ZeroAhead(inbox) => ZeroAhead(inbox')
    BY AddsAhead
  <2> QED
    BY <1>0, <2>1 DEF ViewInv, ClosesInv
<1>6. ASSUME ~view.missed PROVE MapInv'
  <2>1. MapInv
    BY <1>6 DEF ViewInv
  <2>2. \A p \in Ops, a \in {"asks", "searches", "found"} : task'[p].at = a => task[p].at = a
    BY <1>c
  <2> QED
    BY <1>c, <2>1, <2>2 DEF MapInv
<1>7. ViewFollows' => ViewFollows
  <2>1. CASE view.op = NoOp
    BY <2>1, <1>0 DEF ViewFollows
  <2>2. CASE view.op \in Ops
    BY <2>2, <1>0, <1>c DEF ViewFollows, IsFresh
  <2> QED
    BY <2>1, <2>2, <1>a
<1>8. IsCalm' = IsCalm
  <2>1. \A p \in Ops : task'[p].at # "clears" <=> task[p].at # "clears"
    BY <1>c
  <2> QED
    BY <2>1, CalmIs DEF IsCalm
<1> QED
  BY <1>1, <1>2, <1>3, <1>4, <1>5, <1>6, <1>7, <1>8

\* A drop is taken: the search is cancelled.
LEMMA DropKeeps ==
  ASSUME ViewTypes, ViewInv, NEW c, IsTaken(c), c.is = "drop", AbortsAndDrops(c.op)
  PROVE  ViewTypes' /\ ViewInv'
<1>0. /\ c \in Commands /\ commands' \in Seq(Commands) /\ view' = view /\ nested' = nested
  BY TakenIs
<1>1. /\ inbox \in Seq(Messages) /\ task \in [Ops -> Tasks] /\ view \in Views /\ core \in Cores
      /\ ClearsCounted(view.count, inbox)
  BY DEF ViewTypes, ViewInv, ClosesInv
<1>2. c.op \in Ops \cup {NoOp} /\ c = DropFor(c.op)
  BY <1>0, CommandIs
<1>3. core' = DropOf(core).core /\ inbox' = inbox \o DropOf(core).events
  BY DEF AbortsAndDrops, Tells
<1>4. /\ core' \in Cores /\ (core'.slot = "lent" <=> core.slot = "lent")
      /\ core'.slot = "ready" => core.slot = "ready"
      /\ core'.map = core.map \/ core'.map = << >>
  BY <1>1, <1>3, DropIs
<1>5. /\ inbox' \in Seq(Messages) /\ ClearsCounted(view.count, inbox')
  BY <1>1, <1>3, DropTold
<1>6. PICK M : /\ Adds(inbox', inbox, M) /\ CountIs(0) \in M
               /\ \A m \in M : m.is \in {"indexed", "count", "cleared"}
  BY <1>1, <1>3, DropTold
<1>7. IsDone(c)
  <2>1. \A p \in Ops : c # ApplyOf(p) /\ (c = DropFor(p) <=> p = c.op)
    BY <1>2 DEF ApplyOf, DropFor
  <2>2. task' = IF c.op # NoOp /\ task[c.op].at # "ended"
                THEN [task EXCEPT ![c.op].aborted = TRUE] ELSE task
    BY DEF AbortsAndDrops
  <2>3. NoOp \notin Ops
    BY OpsAre
  <2>4. CASE c.op # NoOp /\ task[c.op].at # "ended"
    <3>1. c.op \in Ops
      BY <2>4, <1>2
    <3> DEFINE t == [task[c.op] EXCEPT !.aborted = TRUE]
    <3>2. t \in Tasks /\ t.at = task[c.op].at /\ t.tries = task[c.op].tries
          /\ t.ends = task[c.op].ends /\ t.aborted = TRUE
      BY <3>1, <1>1 DEF Tasks
    <3>3. task' = [task EXCEPT ![c.op] = t]
      BY <2>2, <2>4
    <3> HIDE DEF t
    <3>4. task' \in [Ops -> Tasks] /\ task'[c.op] = t
          /\ \A p \in Ops : p # c.op => task'[p] = task[p]
      BY <3>1, <3>2, <3>3, <1>1
    <3>5. \A p \in Ops :
            /\ task'[p].ends = task[p].ends /\ task'[p].tries = task[p].tries
            /\ task'[p].at = task[p].at
            /\ task'[p].aborted <=> task[p].aborted \/ (p = c.op /\ task[p].at # "ended")
      <4> TAKE p \in Ops
      <4>1. CASE p = c.op
        BY <4>1, <3>2, <3>4, <2>4
      <4>2. CASE p # c.op
        BY <4>2, <3>4
      <4> QED
        BY <4>1, <4>2
    <3> QED
      BY <3>4, <3>5, <2>1 DEF IsDone
  <2>5. CASE ~(c.op # NoOp /\ task[c.op].at # "ended")
    <3>1. task' = task
      BY <2>2, <2>5
    <3>2. \A p \in Ops : p = c.op => task[p].at = "ended"
      BY <2>3, <2>5
    <3> QED
      BY <3>1, <3>2, <2>1, <1>1 DEF IsDone
  <2> QED
    BY <2>4, <2>5
<1>8. /\ HolderInv' /\ StartInv' /\ RunInv' /\ PendingInv' /\ ClosesInv'
      /\ ~view.missed => OrderInv' /\ MapInv'
      /\ ViewFollows' => ViewFollows
      /\ IsCalm' = IsCalm
  <2>1. /\ \A p : PhaseIs(p, "running") \notin M
        /\ \A m \in M : m.is # "answer"
    BY <1>6 DEF PhaseIs
  <2> QED
    BY <2>1, <1>4, <1>5, <1>6, <1>7, TakenStep
<1>9. SyncInv'
  <2>1. core.slot = "lent" => ~IsCalm
    BY DEF IsCalm
  <2>2. SyncOf(view, inbox', core', IsCalm)
    BY <2>1, <1>1, <1>3, CalmIs, SyncDrop
  <2> QED
    BY <2>2, <1>0, <1>8 DEF SyncInv
<1>10. NestedInv'
  BY <1>0, <1>6, NestedStep
<1>11. ViewTypes'
  BY <1>0, <1>1, <1>4, <1>5, <1>7 DEF ViewTypes, IsDone
<1> QED
  BY <1>0, <1>8, <1>9, <1>10, <1>11 DEF ViewInv

\* A search is taken: it waits for its turn.
LEMMA ApplyKeeps ==
  ASSUME ViewTypes, ViewInv, NEW c, IsTaken(c), c.is = "apply", At(c.op, "queued"),
         UNCHANGED <<core, inbox>>
  PROVE  ViewTypes' /\ ViewInv'
<1>0. /\ c \in Commands /\ commands' \in Seq(Commands) /\ view' = view /\ nested' = nested
  BY TakenIs
<1>1. /\ inbox \in Seq(Messages) /\ task \in [Ops -> Tasks] /\ view \in Views /\ core \in Cores
      /\ ClearsCounted(view.count, inbox)
  BY DEF ViewTypes, ViewInv, ClosesInv
<1>2. c.op \in Ops /\ c = ApplyOf(c.op)
  BY <1>0, CommandIs
<1>3. /\ task' \in [Ops -> Tasks] /\ task'[c.op].at = "queued" /\ task'[c.op].tries = task[c.op].tries
      /\ task'[c.op].aborted = task[c.op].aborted /\ task'[c.op].ends = task[c.op].ends
      /\ \A p \in Ops : p # c.op => task'[p] = task[p]
  BY <1>1, <1>2, AtIs
<1>4. IsDone(c)
  <2>1. \A p \in Ops : c # DropFor(p) /\ (c = ApplyOf(p) <=> p = c.op)
    BY <1>2 DEF ApplyOf, DropFor
  <2>2. \A p \in Ops :
          /\ task'[p].ends = task[p].ends /\ task'[p].tries = task[p].tries
          /\ task'[p].at = (IF p = c.op THEN "queued" ELSE task[p].at)
          /\ task'[p].aborted = task[p].aborted
    BY <1>3
  <2> QED
    BY <2>1, <2>2, <1>3 DEF IsDone
<1>5. Adds(inbox', inbox, {}) /\ \A p : PhaseIs(p, "running") \notin {}
  BY <1>1, AddsNone
<1>6. /\ HolderInv' /\ StartInv' /\ RunInv' /\ PendingInv' /\ ClosesInv'
      /\ ~view.missed => OrderInv' /\ MapInv'
      /\ ViewFollows' => ViewFollows
      /\ IsCalm' = IsCalm
  BY <1>1, <1>4, <1>5, TakenStep
<1>7. ViewFollows => SyncInv'
  BY <1>0, <1>6 DEF ViewInv, SyncInv
<1>8. ViewFollows => NestedInv'
  BY <1>0, <1>5, NestedStep DEF ViewInv
<1>9. ViewTypes'
  BY <1>0, <1>1, <1>3 DEF ViewTypes
<1> QED
  BY <1>0, <1>6, <1>7, <1>8, <1>9 DEF ViewInv

\* Navigation is answered, from the matches that there are.
LEMMA FindKeeps ==
  ASSUME ViewTypes, ViewInv, NEW c, IsTaken(c), c.is = "find", Answers(c)
  PROVE  ViewTypes' /\ ViewInv'
<1> DEFINE n == NestedMatch(core.map, c.filter, c.anchor, c.next)
           row == IF n = NoAnchor THEN 0 ELSE core.map[n]
           m == Answer(c.request, n, row)
<1>0. /\ c \in Commands /\ commands' \in Seq(Commands) /\ view' = view /\ nested' = nested
      /\ core' = core /\ task' = task
  BY TakenIs DEF Answers
<1>1. /\ inbox \in Seq(Messages) /\ task \in [Ops -> Tasks] /\ view \in Views /\ core \in Cores
      /\ ClearsCounted(view.count, inbox)
  BY DEF ViewTypes, ViewInv, ClosesInv
<1>2. c.request \in Nat /\ c.anchor \in Nat
  BY <1>0, CommandIs
<1>3. core.map \in Seq(Entries) /\ Len(core.map) \in Nat
  BY <1>1, CoreIs
<1>4. n = NoAnchor \/ (n \in 1 .. Len(core.map) /\ core.map[n] \in Hits[c.filter])
  BY <1>2, <1>3, MatchIs, Zenon
<1>5. /\ n \in Nat /\ row \in Entries \cup {0}
      /\ n # NoAnchor => row \in Hits[c.filter] /\ IsMatch(core.map, n, row)
  <2> HIDE DEF n
  <2>1. CASE n = NoAnchor
    BY <2>1 DEF NoAnchor
  <2>2. CASE n # NoAnchor
    <3>1. n \in 1 .. Len(core.map) /\ core.map[n] \in Hits[c.filter]
      BY <2>2, <1>4
    <3>2. core.map[n] \in Entries
      BY <3>1, <1>3, ElementOfSeq
    <3> QED
      BY <2>2, <3>1, <3>2, <1>3 DEF IsMatch
  <2> QED
    BY <2>1, <2>2
<1>6. PICK k \in 1 .. Len(inbox) + 1 : inbox' = InsertAt(inbox, k, m)
  BY DEF Answers
<1> HIDE DEF n, row
<1>7. /\ m \in Messages /\ m.is = "answer" /\ m.request = c.request /\ m.at = n /\ m.row = row
  BY <1>2, <1>5, ToldAre DEF Answer
<1> HIDE DEF m
<1>8. /\ IsInserted(inbox', inbox, k, m) /\ inbox' \in Seq(Messages)
      /\ Adds(inbox', inbox, {m})
  <2>1. IsInserted(inbox', inbox, k, m)
    BY <1>1, <1>6, <1>7, InsertedIs
  <2>2. Adds(inbox', inbox, {} \cup {m})
    BY <2>1, <1>1, <1>7, AddsNone, AddsMore
  <2>3. {} \cup {m} = {m}
    OBVIOUS
  <2> QED
    BY <2>1, <2>2, <2>3 DEF IsInserted
<1>9. ClearsCounted(view.count, inbox')
  <2>1. m.is # "count" /\ m # Cleared
    BY <1>7 DEF Cleared
  <2> QED
    BY <2>1, <1>1, <1>7, <1>8, ClearsInserted
<1>10. IsDone(c)
  <2>1. \A p \in Ops : c # DropFor(p) /\ c # ApplyOf(p)
    BY DEF ApplyOf, DropFor
  <2> QED
    BY <2>1, <1>0, <1>1 DEF IsDone
<1>11. /\ HolderInv' /\ StartInv' /\ RunInv' /\ PendingInv' /\ ClosesInv'
       /\ ~view.missed => OrderInv' /\ MapInv'
       /\ ViewFollows' => ViewFollows
       /\ IsCalm' = IsCalm
  <2>1. \A p : PhaseIs(p, "running") \notin {m}
    BY <1>7 DEF PhaseIs
  <2>2. \E x \in {m} : x.is = "answer" /\ x.request = c.request
    BY <1>7
  <2>3. \A x \in {m} : x.is = "answer" =>
          /\ c.is = "find" /\ x.request = c.request
          /\ x.at # NoAnchor => x.row \in Hits[c.filter]
    BY <1>5, <1>7
  <2> QED
    BY <2>1, <2>2, <2>3, <1>0, <1>8, <1>9, <1>10, TakenStep
<1>12. ViewFollows => SyncInv'
  <2>1. ViewFollows => SyncOf(view, inbox', core, IsCalm)
    BY <1>1, <1>7, <1>8, CalmIs, SyncOther DEF ViewInv, SyncInv
  <2> QED
    BY <2>1, <1>0, <1>11 DEF SyncInv
<1>13. ViewFollows => NestedInv'
  <2>1. \A x \in {m} : x.is = "answer" /\ x.at # NoAnchor => IsMatch(core.map', x.at, x.row)
    BY <1>0, <1>5, <1>7
  <2> QED
    BY <2>1, <1>0, <1>8, AnswerStep DEF ViewInv
<1>14. ViewTypes'
  BY <1>0, <1>1, <1>8 DEF ViewTypes
<1> QED
  BY <1>0, <1>11, <1>12, <1>13, <1>14 DEF ViewInv

\* A bookmark is taken: the index changes.
LEMMA MarkKeeps ==
  ASSUME ViewTypes, ViewInv, NEW c, IsTaken(c), c.is = "mark", Marks(c.row)
  PROVE  ViewTypes' /\ ViewInv'
<1> DEFINE marks == IF c.row \in core.marks THEN core.marks \ {c.row} ELSE core.marks \cup {c.row}
           m == IndexedIs(core')
<1>0. /\ c \in Commands /\ commands' \in Seq(Commands) /\ view' = view /\ nested' = nested
      /\ task' = task /\ core' = [core EXCEPT !.marks = marks] /\ inbox' = inbox \o <<m>>
  BY TakenIs DEF Marks, Tells
<1>1. /\ inbox \in Seq(Messages) /\ task \in [Ops -> Tasks] /\ view \in Views /\ core \in Cores
      /\ ClearsCounted(view.count, inbox)
  BY DEF ViewTypes, ViewInv, ClosesInv
<1>2. marks \in SUBSET Nat /\ IsFiniteSet(marks)
  <2>1. c.row \in Nat /\ core.marks \in SUBSET Nat /\ IsFiniteSet(core.marks)
    BY <1>0, <1>1, CommandIs, CoreIs
  <2>2. IsFiniteSet(core.marks \ {c.row}) /\ IsFiniteSet(core.marks \cup {c.row})
    BY <2>1, FS_RemoveElement, FS_AddElement
  <2> QED
    BY <2>1, <2>2
<1> HIDE DEF marks
<1>3. /\ core' \in Cores /\ core'.map = core.map /\ core'.slot = core.slot
  BY <1>0, <1>1, <1>2 DEF Cores
<1>4. m \in Messages /\ m.is = "indexed" /\ m # Cleared
  <2>1. m \in Messages
    BY <1>3, CoreIs
  <2> QED
    BY <2>1 DEF IndexedIs, Cleared
<1>5. inbox' = Append(inbox, m)
  BY <1>0, <1>1, <1>4, ToldOneByOne
<1> HIDE DEF m
<1>6. /\ inbox' \in Seq(Messages) /\ Adds(inbox', inbox, {m}) /\ ClearsCounted(view.count, inbox')
  <2>1. inbox' \in Seq(Messages) /\ Adds(inbox', inbox, {m})
    BY <1>1, <1>4, <1>5, Appended, AddsOne
  <2>2. IsInserted(inbox', inbox, Len(inbox) + 1, m) /\ m.is # "count"
    BY <1>1, <1>4, <1>5, InsertedIs
  <2> QED
    BY <2>1, <2>2, <1>1, <1>4, ClearsInserted
<1>7. IsDone(c)
  <2>1. \A p \in Ops : c # DropFor(p) /\ c # ApplyOf(p)
    BY DEF ApplyOf, DropFor
  <2> QED
    BY <2>1, <1>0, <1>1 DEF IsDone
<1>8. /\ \A p : PhaseIs(p, "running") \notin {m}
      /\ \A x \in {m} : x.is # "answer"
  BY <1>4 DEF PhaseIs
<1>9. /\ HolderInv' /\ StartInv' /\ RunInv' /\ PendingInv' /\ ClosesInv'
      /\ ~view.missed => OrderInv' /\ MapInv'
      /\ ViewFollows' => ViewFollows
      /\ IsCalm' = IsCalm
  BY <1>3, <1>6, <1>7, <1>8, TakenStep
<1>10. ViewFollows => SyncInv'
  <2>1. ViewFollows => SyncOf(view, Append(inbox, IndexedIs(core')), core', IsCalm)
    BY <1>1, <1>3, CalmIs, SyncMark DEF ViewInv, SyncInv
  <2>2. inbox' = Append(inbox, IndexedIs(core'))
    BY <1>5 DEF m
  <2> QED
    BY <2>1, <2>2, <1>0, <1>9 DEF SyncInv
<1>11. ViewFollows => NestedInv'
  BY <1>0, <1>3, <1>6, <1>8, NestedStep DEF ViewInv
<1>12. ViewTypes'
  BY <1>0, <1>1, <1>3, <1>6 DEF ViewTypes
<1> QED
  BY <1>0, <1>9, <1>10, <1>11, <1>12 DEF ViewInv

\* The service takes a command.
LEMMA TakesKeeps ==
  ASSUME ViewTypes, ViewInv, TakesCommand
  PROVE  ViewTypes' /\ ViewInv'
<1> DEFINE c == Head(commands)
<1>1. IsTaken(c)
  BY DEF TakesCommand, IsTaken
<1>2. CASE c.is = "drop" /\ AbortsAndDrops(c.op)
  BY <1>1, <1>2, DropKeeps
<1>3. CASE c.is = "apply" /\ At(c.op, "queued") /\ UNCHANGED <<core, inbox>>
  BY <1>1, <1>3, ApplyKeeps
<1>4. CASE c.is = "find" /\ Answers(c)
  BY <1>1, <1>4, FindKeeps
<1>5. CASE c.is = "mark" /\ Marks(c.row)
  BY <1>1, <1>5, MarkKeeps
<1> QED
  BY <1>2, <1>3, <1>4, <1>5 DEF TakesCommand

-----------------------------------------------------------------------------
(* What the user does. *)

\* A count that is forgotten is zero.
LEMMA ClearsForgotten ==
  ASSUME NEW count, NEW box, ClearsCounted(count, box)
  PROVE  ClearsCounted(0, box)
<1>1. \A i \in DOMAIN box : ZeroAt(count, box, i) => ZeroAt(0, box, i)
  <2> SUFFICES ASSUME NEW i \in DOMAIN box, ZeroAt(count, box, i) PROVE ZeroAt(0, box, i)
    OBVIOUS
  <2>1. PICK j \in 0 .. i - 1 :
          /\ IF j = 0 THEN count = 0 ELSE box[j] = CountIs(0)
          /\ \A m \in j + 1 .. i - 1 : box[m].is # "count"
    BY DEF ZeroAt
  <2>2. IF j = 0 THEN 0 = 0 ELSE box[j] = CountIs(0)
    BY <2>1
  <2> QED
    BY <2>1, <2>2 DEF ZeroAt
<1> QED
  BY <1>1 DEF ClearsCounted

\* What a nested search that is closed leaves true.
LEMMA ClosedPending ==
  ASSUME ViewTypes, ViewInv, nested'.pending = 0, nested'.made = nested.made,
         nested'.anchor = NoAnchor, NEW F, F \subseteq Commands,
         \A x \in F : x.is # "find",
         \A i \in DOMAIN commands' : commands'[i] \in F \/ \E j \in DOMAIN commands : commands'[i] = commands[j],
         \A i \in DOMAIN inbox' : \E j \in DOMAIN inbox : inbox'[i] = inbox[j]
  PROVE  PendingInv' /\ NestedInv'
<1>1. PendingInv /\ nested.made \in Nat
  BY DEF ViewInv, ViewTypes, Nesteds
<1>2. \A i \in DOMAIN commands' : commands'[i].is = "find" =>
        commands'[i].request \in 1 .. nested.made
  BY <1>1 DEF PendingInv
<1>3. \A i \in DOMAIN inbox' : inbox'[i].is = "answer" =>
        inbox'[i].request \in 1 .. nested.made
  BY <1>1 DEF PendingInv
<1>4. 0 \notin 1 .. nested.made /\ 0 <= nested.made
  BY <1>1
<1>5. /\ \A i \in DOMAIN commands' : ~(commands'[i].is = "find" /\ commands'[i].request = nested'.pending)
      /\ \A i \in DOMAIN inbox' : ~(inbox'[i].is = "answer" /\ inbox'[i].request = nested'.pending)
  BY <1>2, <1>3, <1>4
<1> QED
  BY <1>2, <1>3, <1>4, <1>5 DEF PendingInv, NestedInv, FindsPending, AnswersPending

\* A search is left, for another one or for none.
LEMMA LeaveStep ==
  ASSUME ViewTypes, ViewInv, NEW o,
         o = NoOp \/ (o \in Ops /\ o = view.made + 1),
         view'.op = o, view'.made = IF o = NoOp THEN view.made ELSE o,
         view'.count = 0, view'.missed = Missed, nested' = Closed(nested),
         UNCHANGED <<inbox, core, task>>, commands' \in Seq(Commands),
         NEW n \in Nat, NEW r \in Nat, NEW l \in Nat, n = Len(commands'), l = Len(commands),
         r = IF o = NoOp THEN n ELSE n - 1, l <= r,
         \A i \in DOMAIN commands : i \in DOMAIN commands' /\ commands'[i] = commands[i],
         \A i \in DOMAIN commands' : i \in DOMAIN commands \/
           \/ commands'[i] \in {DropFor(view.op), DropFor(NoOp)}
           \/ o # NoOp /\ i = n /\ commands'[i] = ApplyOf(o),
         IsRunning => \E i \in 1 .. r : commands'[i] = DropFor(view.op),
         o # NoOp => n \in DOMAIN commands' /\ commands'[n] = ApplyOf(o)
  PROVE  /\ HolderInv' /\ StartInv' /\ RunInv' /\ PendingInv' /\ ClosesInv'
         /\ ~view'.missed => OrderInv' /\ MapInv'
         /\ ~ViewFollows'
<1>0. /\ view \in Views /\ view.op \in Ops \cup {NoOp} /\ view.made \in Nat
      /\ commands \in Seq(Commands) /\ task' = task /\ inbox' = inbox /\ core' = core
      /\ DOMAIN commands = 1 .. l /\ DOMAIN commands' = 1 .. n
  BY LenProperties DEF ViewTypes, Views
<1>a. MaxOps \in Nat /\ Ops = 1 .. MaxOps /\ NoOp = 0
  BY OpsAre DEF Ops, NoOp
<1>b. \A p, q : ApplyOf(p).is = "apply" /\ ApplyOf(p).op = p /\ DropFor(p).is = "drop"
                /\ DropFor(p).op = p /\ (ApplyOf(p) = ApplyOf(q) => p = q)
  BY DEF ApplyOf, DropFor
<1>c. StartInv /\ PendingInv /\ ClosesInv /\ HolderInv
  BY DEF ViewInv
<1>d. \A i \in DOMAIN commands : commands[i] \in Commands
  BY <1>0, ElementOfSeq
<1>1. HolderInv'
  BY <1>0, <1>c DEF HolderInv, HasHolder
<1>2. StartInv'
  <2>1. view'.op <= view'.made
    BY <1>a, <1>0
  <2>2. ASSUME NEW p \in Ops, task[p].at = "none", p <= view'.made
        PROVE  \E i \in DOMAIN commands' : commands'[i] = ApplyOf(p)
    <3>1. CASE p <= view.made
      <4>1. PICK i \in DOMAIN commands : commands[i] = ApplyOf(p)
        BY <3>1, <2>2, <1>c DEF StartInv
      <4> QED
        BY <4>1
    <3>2. CASE ~(p <= view.made)
      <4>1. o # NoOp /\ p = o
        BY <3>2, <2>2, <1>a, <1>0
      <4> QED
        BY <4>1
    <3> QED
      BY <3>1, <3>2
  <2>3. ASSUME NEW p \in Ops, p > view'.made PROVE task[p].at = "none"
    <3>1. p > view.made
      BY <2>3, <1>a, <1>0
    <3> QED
      BY <3>1, <1>c DEF StartInv
  <2>4. ASSUME NEW i \in DOMAIN commands', commands'[i].is = "apply"
        PROVE  commands'[i].op <= view'.made /\ task[commands'[i].op].at = "none"
    <3>1. CASE i \in DOMAIN commands
      <4>1. commands[i].is = "apply" /\ commands'[i] = commands[i]
        BY <3>1, <2>4
      <4>2. commands[i].op <= view.made /\ task[commands[i].op].at = "none"
            /\ commands[i].op \in Ops
        BY <3>1, <4>1, <1>c, <1>d, CommandIs DEF StartInv
      <4>3. commands[i].op <= view'.made
        BY <4>2, <1>a, <1>0
      <4> QED
        BY <4>1, <4>2, <4>3
    <3>2. CASE i \notin DOMAIN commands
      <4>1. o # NoOp /\ commands'[i] = ApplyOf(o)
        BY <3>2, <2>4, <1>b
      <4>2. o \in Ops /\ o > view.made /\ view'.made = o
        BY <4>1, <1>0
      <4>3. task[o].at = "none" /\ o <= o
        BY <4>2, <1>a, <1>c DEF StartInv
      <4> QED
        BY <4>1, <4>2, <4>3, <1>b
    <3> QED
      BY <3>1, <3>2
  <2>5. ASSUME NEW i \in DOMAIN commands', NEW j \in DOMAIN commands',
               commands'[i].is = "apply", commands'[i] = commands'[j]
        PROVE  i = j
    <3>1. \A x \in DOMAIN commands : commands[x].is = "apply" =>
            commands'[x] # ApplyOf(o)
      <4> TAKE x \in DOMAIN commands
      <4>1. commands[x].is = "apply" => commands[x].op <= view.made /\ commands[x].op \in Ops
        BY <1>c, <1>d, CommandIs DEF StartInv
      <4>2. o = NoOp \/ ~(o <= view.made)
        BY <1>0
      <4> QED
        BY <4>1, <4>2, <1>b, <1>a
    <3>2. CASE i \in DOMAIN commands /\ j \in DOMAIN commands
      BY <3>2, <2>5, <1>c DEF StartInv
    <3>3. CASE i \notin DOMAIN commands /\ j \notin DOMAIN commands
      BY <3>3, <2>5, <1>b
    <3>4. CASE i \in DOMAIN commands /\ j \notin DOMAIN commands
      <4>1. commands'[j] = ApplyOf(o)
        BY <3>4, <2>5, <1>b
      <4> QED
        BY <4>1, <3>1, <3>4, <2>5
    <3>5. CASE i \notin DOMAIN commands /\ j \in DOMAIN commands
      <4>1. commands'[i] = ApplyOf(o)
        BY <3>5, <2>5, <1>b
      <4> QED
        BY <4>1, <3>1, <3>5, <2>5
    <3> QED
      BY <3>2, <3>3, <3>4, <3>5
  <2>6. ASSUME NEW i \in DOMAIN commands', commands'[i].is = "drop"
        PROVE  commands'[i].op <= view'.made /\ (o # NoOp => commands'[i].op # o)
    <3>1. commands'[i].op <= view.made /\ commands'[i].op \in Nat
      <4>1. CASE i \in DOMAIN commands
        <5>1. commands[i].op \in Ops \cup {NoOp} /\ commands[i].op <= view.made
          BY <4>1, <2>6, <1>c, <1>d, CommandIs DEF StartInv
        <5> QED
          BY <5>1, <4>1, <1>a
      <4>2. CASE i \notin DOMAIN commands
        <5>1. commands'[i].op \in {view.op, NoOp}
          BY <4>2, <2>6, <1>b
        <5>2. view.op <= view.made
          BY <1>c DEF StartInv
        <5> QED
          BY <5>1, <5>2, <1>0, <1>a
      <4> QED
        BY <4>1, <4>2
    <3> QED
      BY <3>1, <1>0, <1>a
  <2>7. ASSUME NEW p \in Ops, task[p].aborted PROVE p <= view'.made /\ p # o
    <3>1. p <= view.made
      BY <2>7, <1>c DEF StartInv
    <3> QED
      BY <3>1, <1>0, <1>a
  <2>8. \A p \in Ops : task[p].at = "clears" => task[p].ends # "none"
    BY <1>c DEF StartInv
  <2> QED
    BY <1>0, <2>1, <2>2, <2>3, <2>4, <2>5, <2>6, <2>7, <2>8 DEF StartInv
<1>e. o # NoOp => task[o].at = "none"
  <2>1. o # NoOp => o \in Ops /\ o > view.made
    BY <1>0
  <2> QED
    BY <2>1, <1>c DEF StartInv
<1>3. RunInv'
  BY <1>0, <1>e DEF RunInv
<1>4. PendingInv'
  <2>1. nested'.pending = 0 /\ nested'.made = nested.made /\ nested'.anchor = NoAnchor
    BY DEF Closed, NoNested
  <2> DEFINE F == {x \in Commands : x.is # "find"}
  <2>2. \A i \in DOMAIN commands' : commands'[i] \in F \/ \E j \in DOMAIN commands : commands'[i] = commands[j]
    <3> TAKE i \in DOMAIN commands'
    <3>1. CASE i \in DOMAIN commands
      BY <3>1
    <3>2. CASE i \notin DOMAIN commands
      <4>1. commands'[i] \in Commands
        BY ElementOfSeq, <1>0
      <4>2. commands'[i].is \in {"drop", "apply"}
        BY <3>2, <1>b
      <4> QED
        BY <4>1, <4>2
    <3> QED
      BY <3>1, <3>2
  <2>3. F \subseteq Commands /\ \A x \in F : x.is # "find"
    OBVIOUS
  <2>4. \A i \in DOMAIN inbox' : \E j \in DOMAIN inbox : inbox'[i] = inbox[j]
    BY <1>0
  <2> HIDE DEF F
  <2> QED
    BY <2>1, <2>2, <2>3, <2>4, ClosedPending
<1>5. ClosesInv'
  <2>1. ClearsCounted(0, inbox)
    BY <1>c, ClearsForgotten DEF ClosesInv
  <2>2. nested'.filter = NoFilter
    BY DEF Closed, NoNested
  <2> QED
    BY <1>0, <2>1, <2>2 DEF ClosesInv
<1>6. ASSUME ~view'.missed PROVE OrderInv' /\ MapInv'
  <2>1. AllAtRest \/ (~view.missed /\ (view.op = NoOp \/ IsRunning \/ task[view.op].at = "ended"))
    BY <1>6 DEF Missed
  <2>a. ASSUME NEW p \in Ops, NEW i \in 0 .. l, IsLeft(p, i) PROVE IsLeft(p, i)'
    <3>1. CASE IsOver(p) \/ task[p].aborted
      BY <3>1, <1>0 DEF IsLeft, IsOver
    <3>2. ASSUME NEW j \in 1 .. i, commands[j] = DropFor(p) PROVE IsLeft(p, i)'
      <4>1. j \in DOMAIN commands
        BY <1>0
      <4>2. commands'[j] = DropFor(p)
        BY <4>1, <3>2
      <4> QED
        BY <4>2 DEF IsLeft
    <3> QED
      BY <3>1, <3>2, <2>a DEF IsLeft
  <2>b. ASSUME NEW p \in Ops, NEW i \in Nat, NEW j \in Nat, i <= j, IsLeft(p, i)'
        PROVE  IsLeft(p, j)'
    <3>1. \A x \in 1 .. i : x \in 1 .. j
      BY <2>b
    <3> QED
      BY <3>1, <2>b DEF IsLeft
  <2>c. ASSUME AllAtRest, NEW p \in Ops, p <= view.made PROVE IsOver(p)
    <3>1. task[p].at \in {"none", "ended"} /\ commands = << >>
      BY <2>c DEF AllAtRest, IsAtRest
    <3>2. task[p].at # "none"
      BY <3>1, <2>c, <1>c DEF StartInv
    <3> QED
      BY <3>1, <3>2 DEF IsOver
  <2>d. ~AllAtRest => OrderInv /\ MapInv
    BY <2>1 DEF ViewInv
  <2>e. ASSUME NEW p \in Ops, p <= view.made PROVE IsLeft(p, r)'
    <3>1. CASE AllAtRest
      BY <3>1, <2>c, <2>e, <1>0 DEF IsLeft, IsOver
    <3>2. CASE ~AllAtRest /\ p # view.op
      <4>1. IsLeft(p, l)
        BY <3>2, <2>d, <2>e DEF OrderInv
      <4>2. l \in 0 .. l
        OBVIOUS
      <4>3. IsLeft(p, l)'
        BY <4>1, <4>2, <2>a
      <4> QED
        BY <4>3, <2>b
    <3>3. CASE ~AllAtRest /\ p = view.op /\ IsRunning
      BY <3>3 DEF IsLeft
    <3>4. CASE ~AllAtRest /\ p = view.op /\ task[view.op].at = "ended"
      BY <3>4, <1>0 DEF IsLeft, IsOver
    <3> QED
      BY <3>1, <3>2, <3>3, <3>4, <2>1, OpsAre
  <2>2. ASSUME NEW i \in DOMAIN commands', commands'[i].is = "apply",
               NEW p \in Ops, p < commands'[i].op
        PROVE  IsLeft(p, i - 1)'
    <3>1. CASE i \in DOMAIN commands
      <4>1. commands[i].is = "apply" /\ p < commands[i].op /\ commands[i].op \in Ops
            /\ commands[i].op <= view.made
        <5>1. commands[i].is = "apply" /\ p < commands[i].op
          BY <3>1, <2>2
        <5> QED
          BY <5>1, <3>1, <1>c, <1>d, CommandIs DEF StartInv
      <4>2. i - 1 \in 0 .. l
        BY <3>1, <1>0
      <4>3. CASE AllAtRest
        <5>1. p <= view.made
          BY <4>1, <1>0, <1>a
        <5> QED
          BY <5>1, <4>3, <2>c, <1>0 DEF IsLeft, IsOver
      <4>4. CASE ~AllAtRest
        <5>1. IsLeft(p, i - 1)
          BY <4>1, <4>4, <3>1, <2>d DEF OrderInv
        <5> QED
          BY <5>1, <4>2, <2>a
      <4> QED
        BY <4>3, <4>4
    <3>2. CASE i \notin DOMAIN commands
      <4>1. o # NoOp /\ i = n /\ commands'[i] = ApplyOf(o)
        BY <3>2, <2>2, <1>b
      <4>2. r = n - 1 /\ o = view.made + 1 /\ p < o
        BY <4>1, <2>2, <1>b
      <4>3. p <= view.made
        BY <4>2, <1>0, <1>a
      <4> QED
        BY <4>1, <4>2, <4>3, <2>e
    <3> QED
      BY <3>1, <3>2
  <2>3. ASSUME NEW p \in Ops, NEW q \in Ops, p < q, task[q].at # "none"
        PROVE  IsOver(p) \/ task[p].aborted
    <3>1. CASE AllAtRest
      <4>1. ~(q > view.made)
        BY <2>3, <1>c DEF StartInv
      <4>2. p <= view.made
        BY <4>1, <2>3, <1>0, <1>a
      <4> QED
        BY <4>2, <3>1, <2>c
    <3>2. CASE ~AllAtRest
      BY <3>2, <2>3, <2>d DEF OrderInv
    <3> QED
      BY <3>1, <3>2
  <2>4. ASSUME NEW p \in Ops, p <= view'.made, p # o PROVE IsLeft(p, n)'
    <3>1. p <= view.made
      BY <2>4, <1>0, <1>a
    <3>2. r <= n
      OBVIOUS
    <3> QED
      BY <3>1, <3>2, <2>b, <2>e
  <2>5. OrderInv'
    <3>1. \A p \in Ops : p <= view.made' /\ p # view.op' => IsLeft(p, Len(commands))'
      BY <2>4 DEF IsLeft, IsOver
    <3> QED
      BY <3>1, <2>2, <2>3, <1>0 DEF OrderInv, IsOver
  <2>6. MapInv'
    <3>1. CASE AllAtRest
      BY <3>1, <1>0 DEF MapInv, AllAtRest, IsAtRest
    <3>2. CASE ~AllAtRest
      BY <3>2, <1>0, <2>d DEF MapInv
    <3> QED
      BY <3>1, <3>2
  <2> QED
    BY <2>5, <2>6
<1>7. ~ViewFollows'
  BY <1>0, <1>e DEF ViewFollows, IsFresh
<1> QED
  BY <1>1, <1>2, <1>3, <1>4, <1>5, <1>6, <1>7

\* The fields of a view.
AreFields(v, o, p, s, c, i, m, x) ==
  /\ v = [op |-> v.op, phase |-> v.phase, shown |-> v.shown, count |-> v.count,
          indexed |-> v.indexed, made |-> v.made, missed |-> v.missed]
  /\ v.op = o /\ v.phase = p /\ v.made = m /\ v.missed = x
  /\ v.shown = s /\ v.count = c /\ v.indexed = i

\* They are what the record says.
LEMMA FieldsAre ==
  ASSUME NEW o, NEW p, NEW s, NEW c, NEW i, NEW m, NEW x, NEW v,
         v = [op |-> o, phase |-> p, shown |-> s, count |-> c, indexed |-> i, made |-> m,
              missed |-> x]
  PROVE  AreFields(v, o, p, s, c, i, m, x)
BY DEF AreFields

\* What the view is once its search is left.
LEMMA LeftFields ==
  ASSUME view \in Views, NEW o, NEW made, NEW phase, NEW missed, NEW v,
         v = [SearchLeft(view) EXCEPT !.op = o, !.phase = phase, !.made = made,
                                      !.missed = missed]
  PROVE  AreFields(v, o, phase, << >>, 0, Minus(view.indexed, view.count), made, missed)
<1> DEFINE k == Minus(view.indexed, view.count)
           e == << >>
<1>1. v = [op |-> o, phase |-> phase, shown |-> e, count |-> 0, indexed |-> k,
           made |-> made, missed |-> missed]
  BY DEF SearchLeft, ShownCleared, CountsReset, Views
<1> HIDE DEF k, e
<1>2. AreFields(v, o, phase, e, 0, k, made, missed)
  BY <1>1, FieldsAre, Zenon
<1> QED
  BY <1>2 DEF k, e

LeftFor(o, phase, made) ==
  [SearchLeft(view) EXCEPT !.op = o, !.phase = phase, !.made = made, !.missed = Missed]

IsLeaving(v, o, made) ==
  /\ v \in Views /\ v.op = o /\ v.made = made /\ v.count = 0
  /\ v.missed = Missed

\* The view that is left has no count and its new search.
LEMMA LeftIs ==
  ASSUME view \in Views, NEW o \in Ops \cup {NoOp}, NEW made \in 0 .. MaxOps,
         NEW phase \in Phases, NEW v, v = LeftFor(o, phase, made)
  PROVE  IsLeaving(v, o, made)
<1> DEFINE k == Minus(view.indexed, view.count)
<1>1. AreFields(v, o, phase, << >>, 0, k, made, Missed)
  BY LeftFields, Zenon DEF LeftFor
<1>2. k \in Nat
  BY DEF Views, Minus
<1> HIDE DEF k
<1>3. v.missed \in BOOLEAN
  <2>1. Missed \in BOOLEAN
    BY DEF Missed
  <2>2. v.missed = Missed
    BY <1>1, Zenon DEF AreFields
  <2> QED
    BY <2>1, <2>2, Zenon
<1>4. v.op = o /\ v.phase = phase /\ v.made = made /\ v.shown = << >> /\ v.count = 0 /\ v.indexed = k
  BY <1>1, Zenon DEF AreFields
<1>5. v = [op |-> v.op, phase |-> v.phase, shown |-> v.shown, count |-> v.count,
           indexed |-> v.indexed, made |-> v.made, missed |-> v.missed]
  BY <1>1, Zenon DEF AreFields
<1>6. v.shown \in Seq(Entries) /\ v.count \in Nat /\ v.indexed \in Nat
  <2>1. << >> \in Seq(Entries) /\ 0 \in Nat
    OBVIOUS
  <2> QED
    BY <2>1, <1>2, <1>4, Zenon
<1>7. v \in Views
  BY <1>3, <1>4, <1>5, <1>6 DEF Views
<1> QED
  BY <1>1, <1>4, <1>7, Zenon DEF AreFields, IsLeaving

\* A nested search that is closed.
LEMMA ClosedIs ==
  ASSUME nested \in Nesteds
  PROVE  Closed(nested) \in Nesteds
BY DEF Closed, NoNested, Nesteds, NoAnchor, NoFilter

\* The commands that were added.
LEMMA CommandsAre ==
  /\ \A o \in Ops : ApplyOf(o) \in Commands
  /\ \A o \in Ops \cup {NoOp} : DropFor(o) \in Commands
BY DEF Commands, ApplyOf, DropFor

\* sync_filter_search_pipeline, with filters
LEMMA AppliesKeeps ==
  ASSUME ViewTypes, ViewInv, AppliesFilters
  PROVE  ViewTypes' /\ ViewInv'
<1> DEFINE o == view.made + 1
           a == ApplyOf(o)
           d == DropFor(view.op)
           l == Len(commands)
           n == Len(commands')
<1>0. /\ view \in Views /\ nested \in Nesteds /\ commands \in Seq(Commands) /\ l \in Nat
      /\ view.op \in Ops \cup {NoOp} /\ view.made \in 0 .. MaxOps
  BY LenProperties DEF ViewTypes, Views
<1>1. /\ view.made < MaxOps /\ nested' = Closed(nested) /\ UNCHANGED <<inbox, core, task>>
      /\ commands' = commands \o Append(DropOfRunning, a)
      /\ view' = [SearchLeft(view) EXCEPT !.op = o, !.phase = "running", !.made = o,
                                          !.missed = Missed]
  BY DEF AppliesFilters, ApplyOf
<1>2. o \in Ops /\ o \in 0 .. MaxOps /\ o # NoOp
  BY <1>0, <1>1, OpsAre DEF Ops, NoOp
<1>3. /\ view' \in Views /\ view'.op = o /\ view'.made = o /\ view'.count = 0
      /\ view'.missed = Missed
  <2> HIDE DEF o
  <2>1. "running" \in Phases
    BY DEF Phases
  <2>2. o \in Ops \cup {NoOp}
    BY <1>2
  <2>3. view' = LeftFor(o, "running", o)
    BY <1>1, Zenon DEF LeftFor
  <2>4. IsLeaving(view', o, o)
    BY <2>1, <2>2, <2>3, <1>0, <1>2, LeftIs
  <2> QED
    BY <2>4, Zenon DEF IsLeaving
<1>4. a \in Commands /\ (IsRunning => d \in Commands /\ view.op \in Ops)
  BY <1>0, <1>2, CommandsAre DEF IsRunning
<1>5. /\ commands' \in Seq(Commands) /\ n \in Nat /\ n - 1 \in Nat
      /\ l <= n - 1
      /\ \A i \in DOMAIN commands : i \in DOMAIN commands' /\ commands'[i] = commands[i]
      /\ \A i \in DOMAIN commands' :
           i \in DOMAIN commands \/ commands'[i] = d \/ (i = n /\ commands'[i] = a)
      /\ IsRunning => \E i \in 1 .. n - 1 : commands'[i] = d
      /\ n \in DOMAIN commands' /\ commands'[n] = a
  <2> HIDE DEF a, d, o
  <2>1. CASE IsRunning
    <3> DEFINE c == Append(commands, d)
    <3>1. DropOfRunning = <<d>>
      BY <2>1 DEF DropOfRunning, d, DropFor
    <3>2. commands' = Append(c, a)
      <4>1. commands' = commands \o <<d, a>>
        BY <3>1, <1>1
      <4> QED
        BY <4>1, <2>1, <1>0, <1>4, ToldOneByOne
    <3>3. /\ c \in Seq(Commands) /\ Len(c) = l + 1 /\ DOMAIN c = 1 .. l + 1
          /\ DOMAIN commands = 1 .. l
          /\ \A i \in 1 .. l : c[i] = commands[i]
          /\ c[l + 1] = d
      BY <2>1, <1>0, <1>4, Appended
    <3> HIDE DEF c
    <3>4. /\ commands' \in Seq(Commands) /\ n = l + 1 + 1 /\ DOMAIN commands' = 1 .. l + 1 + 1
          /\ \A i \in 1 .. l + 1 : commands'[i] = c[i]
          /\ commands'[l + 1 + 1] = a
      BY <3>2, <3>3, <1>4, Appended
    <3> HIDE DEF l, n
    <3>5. l + 1 \in 1 .. n - 1 /\ commands'[l + 1] = d
      BY <3>3, <3>4, <1>0
    <3>6. \A i \in DOMAIN commands : i \in DOMAIN commands' /\ commands'[i] = commands[i]
      BY <3>3, <3>4, <1>0
    <3>7. \A i \in DOMAIN commands' : i \in DOMAIN commands \/ i = l + 1 \/ i = n
      BY <3>3, <3>4, <1>0
    <3>8. n \in Nat /\ n - 1 \in Nat /\ l <= n - 1 /\ n \in 1 .. l + 1 + 1
      BY <3>4, <1>0
    <3> QED
      BY <3>4, <3>5, <3>6, <3>7, <3>8
  <2>2. CASE ~IsRunning
    <3>1. DropOfRunning = << >>
      BY <2>2 DEF DropOfRunning
    <3>2. commands' = Append(commands, a)
      <4>1. commands' = commands \o <<a>>
        BY <3>1, <1>1
      <4> QED
        BY <4>1, <1>0, <1>4, ToldOneByOne
    <3>3. /\ commands' \in Seq(Commands) /\ n = l + 1 /\ DOMAIN commands' = 1 .. l + 1
          /\ DOMAIN commands = 1 .. l
          /\ \A i \in 1 .. l : commands'[i] = commands[i]
          /\ commands'[l + 1] = a
      BY <3>2, <1>0, <1>4, Appended
    <3> HIDE DEF l, n
    <3>4. \A i \in DOMAIN commands' : i \in DOMAIN commands \/ i = n
      BY <3>3, <1>0
    <3>5. n \in Nat /\ n - 1 \in Nat /\ l <= n - 1 /\ n \in 1 .. l + 1
          /\ \A i \in 1 .. l : i \in 1 .. l + 1
      BY <3>3, <1>0
    <3> QED
      BY <3>3, <3>4, <3>5, <2>2
  <2> QED
    BY <2>1, <2>2
<1>6. /\ HolderInv' /\ StartInv' /\ RunInv' /\ PendingInv' /\ ClosesInv'
      /\ ~view'.missed => OrderInv' /\ MapInv'
      /\ ~ViewFollows'
  <2> HIDE DEF a, d, n, l
  <2>1. n = Len(commands') /\ l = Len(commands) /\ a = ApplyOf(o) /\ d = DropFor(view.op)
    BY DEF n, l, a, d
  <2>2. o \in Ops /\ o = view.made + 1 /\ o # NoOp
    BY <1>2
  <2>3. o = NoOp \/ (o \in Ops /\ o = view.made + 1)
    BY <2>2
  <2>4. view'.made = IF o = NoOp THEN view.made ELSE o
    BY <1>3, <2>2
  <2>5. n - 1 = IF o = NoOp THEN n ELSE n - 1
    BY <2>2
  <2>6. \A i \in DOMAIN commands' : i \in DOMAIN commands \/
          \/ commands'[i] \in {DropFor(view.op), DropFor(NoOp)}
          \/ o # NoOp /\ i = n /\ commands'[i] = ApplyOf(o)
    BY <2>1, <2>2, <1>5
  <2>7. /\ IsRunning => \E i \in 1 .. n - 1 : commands'[i] = DropFor(view.op)
        /\ o # NoOp => n \in DOMAIN commands' /\ commands'[n] = ApplyOf(o)
    BY <2>1, <1>5
  <2>8. /\ commands' \in Seq(Commands) /\ n \in Nat /\ n - 1 \in Nat /\ l \in Nat /\ l <= n - 1
        /\ \A i \in DOMAIN commands : i \in DOMAIN commands' /\ commands'[i] = commands[i]
        /\ n = Len(commands') /\ l = Len(commands)
    BY <2>1, <1>0, <1>5
  <2>9. /\ view'.op = o /\ view'.count = 0 /\ view'.missed = Missed
        /\ nested' = Closed(nested) /\ UNCHANGED <<inbox, core, task>>
    BY <1>1, <1>3
  <2> HIDE DEF o
  <2> QED
    BY <2>3, <2>4, <2>5, <2>6, <2>7, <2>8, <2>9, LeaveStep
<1>7. ViewTypes'
  BY <1>0, <1>1, <1>3, <1>5, ClosedIs DEF ViewTypes
<1> QED
  BY <1>6, <1>7 DEF ViewInv

\* sync_filter_search_pipeline, without any filter
LEMMA DropsKeeps ==
  ASSUME ViewTypes, ViewInv, DropsFilters
  PROVE  ViewTypes' /\ ViewInv'
<1> DEFINE e == IF IsRunning THEN view.op ELSE NoOp
           d == DropFor(e)
           l == Len(commands)
           n == Len(commands')
<1>0. /\ view \in Views /\ nested \in Nesteds /\ commands \in Seq(Commands) /\ l \in Nat
      /\ view.op \in Ops \cup {NoOp} /\ view.made \in 0 .. MaxOps
  BY LenProperties DEF ViewTypes, Views
<1>1. /\ nested' = Closed(nested) /\ UNCHANGED <<inbox, core, task>>
      /\ commands' = Append(commands, d)
      /\ view' = [SearchLeft(view) EXCEPT !.missed = Missed]
  BY DEF DropsFilters, DropFor
<1>2. /\ view' \in Views /\ view'.op = NoOp /\ view'.made = view.made /\ view'.count = 0
      /\ view'.missed = Missed
  <2>1. "none" \in Phases
    BY DEF Phases
  <2>2. view' = LeftFor(NoOp, "none", view.made)
    BY <1>0, <1>1 DEF LeftFor, SearchLeft, ShownCleared, CountsReset, Views
  <2>3. NoOp \in Ops \cup {NoOp}
    OBVIOUS
  <2>4. IsLeaving(view', NoOp, view.made)
    BY <2>1, <2>2, <2>3, <1>0, LeftIs
  <2> QED
    BY <2>4, Zenon DEF IsLeaving
<1>3. d \in Commands
  BY <1>0, CommandsAre
<1>4. /\ commands' \in Seq(Commands) /\ n = l + 1 /\ DOMAIN commands' = 1 .. l + 1
      /\ DOMAIN commands = 1 .. l
      /\ \A i \in 1 .. l : commands'[i] = commands[i]
      /\ commands'[l + 1] = d
  BY <1>0, <1>1, <1>3, Appended
<1>5. /\ n \in Nat /\ l <= n
      /\ \A i \in DOMAIN commands : i \in DOMAIN commands' /\ commands'[i] = commands[i]
      /\ \A i \in DOMAIN commands' : i \in DOMAIN commands \/ commands'[i] = d
      /\ IsRunning => \E i \in 1 .. n : commands'[i] = d
  <2> HIDE DEF d, l, n
  <2>1. n \in Nat /\ l <= n /\ l + 1 \in 1 .. n /\ \A i \in 1 .. l : i \in 1 .. l + 1
    BY <1>0, <1>4
  <2>2. \A i \in 1 .. l + 1 : i \in 1 .. l \/ i = l + 1
    BY <1>0
  <2> QED
    BY <2>1, <2>2, <1>4
<1>6. /\ HolderInv' /\ StartInv' /\ RunInv' /\ PendingInv' /\ ClosesInv'
      /\ ~view'.missed => OrderInv' /\ MapInv'
      /\ ~ViewFollows'
  <2>1. d \in {DropFor(view.op), DropFor(NoOp)} /\ (IsRunning => d = DropFor(view.op))
    OBVIOUS
  <2>2. n = Len(commands') /\ l = Len(commands)
    OBVIOUS
  <2> HIDE DEF d, l, n
  <2>3. \A i \in DOMAIN commands' : i \in DOMAIN commands \/
           \/ commands'[i] \in {DropFor(view.op), DropFor(NoOp)}
           \/ NoOp # NoOp /\ i = n /\ commands'[i] = ApplyOf(NoOp)
    BY <2>1, <1>5
  <2>4. IsRunning => \E i \in 1 .. n : commands'[i] = DropFor(view.op)
    BY <2>1, <1>5
  <2> QED
    BY <2>2, <2>3, <2>4, <1>0, <1>1, <1>2, <1>4, <1>5, LeaveStep
<1>7. ViewTypes'
  BY <1>0, <1>1, <1>2, <1>4, ClosedIs DEF ViewTypes
<1> QED
  BY <1>6, <1>7 DEF ViewInv

\* A command about something else is sent.
LEMMA SendStep ==
  ASSUME ViewTypes, ViewInv, NEW c \in Commands, c.is \in {"mark", "find"},
         commands' = Append(commands, c), UNCHANGED <<view, inbox, task>>,
         core'.slot = core.slot, core'.map = core.map
  PROVE  /\ HolderInv' /\ StartInv' /\ RunInv' /\ (~view.missed => OrderInv' /\ MapInv')
         /\ commands' \in Seq(Commands)
         /\ \A j \in DOMAIN commands : \E i \in DOMAIN commands' : commands'[i] = commands[j]
         /\ \A i \in DOMAIN commands' : commands'[i] = c \/ \E j \in DOMAIN commands : commands'[i] = commands[j]
         /\ \E i \in DOMAIN commands' : commands'[i] = c
<1>0. commands \in Seq(Commands) /\ view' = view /\ inbox' = inbox /\ task' = task
  BY DEF ViewTypes
<1>c. PICK l \in Nat : l = Len(commands)
  BY <1>0, LenProperties
<1>1. /\ commands' \in Seq(Commands) /\ Len(commands') = l + 1 /\ l \in Nat
      /\ DOMAIN commands' = 1 .. l + 1 /\ DOMAIN commands = 1 .. l
      /\ \A i \in 1 .. l : commands'[i] = commands[i]
      /\ commands'[l + 1] = c
  BY <1>0, <1>c, Appended
<1>2. /\ \A i \in DOMAIN commands : i \in DOMAIN commands' /\ commands'[i] = commands[i]
      /\ \A i \in DOMAIN commands' : i \in DOMAIN commands \/ (i = l + 1 /\ commands'[i] = c)
      /\ l + 1 \in DOMAIN commands'
  BY <1>1
<1>3. StartInv /\ HolderInv /\ RunInv
  BY DEF ViewInv
<1>a. \A p : ApplyOf(p) # c /\ DropFor(p) # c
  BY DEF ApplyOf, DropFor
<1>b. c.is # "apply" /\ c.is # "drop"
  OBVIOUS
<1>4. StartInv'
  <2>1. \A o \in Ops : task[o].at = "none" /\ o <= view.made =>
          \E i \in DOMAIN commands' : commands'[i] = ApplyOf(o)
    BY <1>2, <1>3 DEF StartInv
  <2>2. \A i \in DOMAIN commands' : commands'[i].is = "apply" =>
          commands'[i].op <= view.made /\ task[commands'[i].op].at = "none"
    BY <1>2, <1>3, <1>b DEF StartInv
  <2>3. \A i, j \in DOMAIN commands' :
          commands'[i].is = "apply" /\ commands'[i] = commands'[j] => i = j
    BY <1>2, <1>3, <1>b DEF StartInv
  <2>4. \A i \in DOMAIN commands' : commands'[i].is = "drop" =>
          commands'[i].op <= view.made /\ (view.op # NoOp => commands'[i].op # view.op)
    BY <1>2, <1>3, <1>b DEF StartInv
  <2> QED
    BY <2>1, <2>2, <2>3, <2>4, <1>0, <1>3 DEF StartInv
<1>5. ASSUME ~view.missed PROVE OrderInv' /\ MapInv'
  <2>1. OrderInv /\ MapInv
    BY <1>5 DEF ViewInv
  <2>2. ASSUME NEW o \in Ops, NEW i \in 0 .. l, NEW k \in Nat, i <= k, IsLeft(o, i)
        PROVE  IsLeft(o, k)'
    <3>1. CASE IsOver(o) \/ task[o].aborted
      BY <3>1, <1>0 DEF IsLeft, IsOver
    <3>2. ASSUME NEW j \in 1 .. i, commands[j] = DropFor(o) PROVE IsLeft(o, k)'
      <4>1. j \in DOMAIN commands /\ j \in 1 .. k
        BY <1>1, <2>2
      <4>2. commands'[j] = DropFor(o)
        BY <4>1, <3>2, <1>2
      <4> QED
        BY <4>1, <4>2 DEF IsLeft
    <3> QED
      BY <3>1, <3>2, <2>2 DEF IsLeft
  <2>3. ASSUME NEW i \in DOMAIN commands', commands'[i].is = "apply",
               NEW o \in Ops, o < commands'[i].op
        PROVE  IsLeft(o, i - 1)'
    <3>1. i \in DOMAIN commands /\ commands[i].is = "apply" /\ o < commands[i].op
      BY <2>3, <1>2, <1>b
    <3>2. i - 1 \in 0 .. l /\ i - 1 \in Nat /\ i - 1 <= i - 1
      BY <3>1, <1>1
    <3>3. IsLeft(o, i - 1)
      BY <3>1, <2>1 DEF OrderInv
    <3> QED
      BY <3>2, <3>3, <2>2
  <2>4. ASSUME NEW o \in Ops, o <= view.made, o # view.op PROVE IsLeft(o, l + 1)'
    <3>1. IsLeft(o, l)
      BY <1>c, <2>1, <2>4 DEF OrderInv
    <3>2. l \in 0 .. l /\ l + 1 \in Nat /\ l <= l + 1
      BY <1>1
    <3> QED
      BY <3>1, <3>2, <2>2
  <2>5. \A o \in Ops : o <= view.made' /\ o # view.op' => IsLeft(o, Len(commands))'
    BY <2>4, <1>0, <1>1 DEF IsLeft, IsOver
  <2>6. \A o, p \in Ops : o < p /\ task[p].at # "none" => IsOver(o) \/ task[o].aborted
    BY <2>1 DEF OrderInv
  <2>7. OrderInv'
    BY <2>3, <2>5, <2>6, <1>0 DEF OrderInv, IsOver
  <2> QED
    BY <2>1, <2>7, <1>0 DEF MapInv
<1>6. HolderInv' /\ RunInv'
  BY <1>0, <1>3 DEF HolderInv, HasHolder, RunInv
<1> QED
  BY <1>1, <1>2, <1>4, <1>5, <1>6

\* A bookmark is to be set or removed.
LEMMA MarksRowKeeps ==
  ASSUME ViewTypes, ViewInv, MarksRow
  PROVE  ViewTypes' /\ ViewInv'
<1>0. PICK row \in Markable : commands' = Append(commands, [is |-> "mark", row |-> row])
  BY DEF MarksRow
<1> DEFINE c == [is |-> "mark", row |-> row]
           k == core.asides + 1
<1>1. /\ view' = view /\ nested' = nested /\ inbox' = inbox /\ task' = task
      /\ core' = [core EXCEPT !.asides = k] /\ core \in Cores
      /\ UNCHANGED <<view, inbox, task>>
  BY DEF MarksRow, uiVars, ViewTypes
<1>2. k \in Nat
  <2>1. core.asides \in Nat
    BY <1>1, CoreIs
  <2> QED
    BY <2>1
<1> HIDE DEF k
<1>3. /\ core' \in Cores /\ core'.slot = core.slot /\ core'.map = core.map
      /\ core'.found = core.found /\ core'.marks = core.marks
  BY <1>1, <1>2 DEF Cores
<1>4. c \in Commands /\ c.is = "mark"
  BY ViewAssumption DEF Commands
<1>5. commands' = Append(commands, c)
  BY <1>0
<1> HIDE DEF c
<1>6. /\ HolderInv' /\ StartInv' /\ RunInv' /\ (~view.missed => OrderInv' /\ MapInv')
      /\ commands' \in Seq(Commands)
      /\ \A j \in DOMAIN commands : \E i \in DOMAIN commands' : commands'[i] = commands[j]
      /\ \A i \in DOMAIN commands' : commands'[i] = c \/ \E j \in DOMAIN commands : commands'[i] = commands[j]
  BY <1>1, <1>3, <1>4, <1>5, SendStep
<1>7. PendingInv'
  <2>1. PendingInv
    BY DEF ViewInv
  <2>2. \A i \in DOMAIN commands' : commands'[i].is = "find" =>
          \E j \in DOMAIN commands : commands'[i] = commands[j]
    BY <1>4, <1>6
  <2>3. nested.pending # 0 =>
          \/ \E i \in DOMAIN commands' : commands'[i].is = "find" /\ commands'[i].request = nested.pending
          \/ \E i \in DOMAIN inbox : inbox[i].is = "answer" /\ inbox[i].request = nested.pending
    BY <1>6, <2>1 DEF PendingInv, FindsPending, AnswersPending
  <2> QED
    BY <2>1, <2>2, <2>3, <1>1 DEF PendingInv, FindsPending, AnswersPending
<1>8. ClosesInv'
  BY <1>1 DEF ViewInv, ClosesInv
<1>9. /\ ViewFollows' => ViewFollows
      /\ IsCalm' = IsCalm
  BY <1>1, <1>3, CalmIs DEF ViewFollows, IsFresh, IsCalm
<1>10. ViewFollows => SyncInv'
  <2>1. ViewFollows => SyncOf(view, inbox, core', IsCalm)
    BY <1>3, CalmIs, SyncSame DEF ViewInv, SyncInv
  <2> QED
    BY <2>1, <1>1, <1>9 DEF SyncInv
<1>11. ViewFollows => NestedInv'
  BY <1>1, <1>3 DEF ViewInv, NestedInv, AnswersPending
<1>12. ViewTypes'
  BY <1>1, <1>3, <1>6 DEF ViewTypes
<1> QED
  BY <1>1, <1>6, <1>7, <1>8, <1>9, <1>10, <1>11, <1>12 DEF ViewInv

\* What is only about nested searches leaves the search as it is.
LEMMA NestedOnly ==
  ASSUME ViewTypes, ViewInv, UNCHANGED <<view, inbox, core, task>>
  PROVE  /\ ViewFollows' => ViewFollows
         /\ ViewFollows => SyncInv'
         /\ ClearsCounted(view'.count, inbox')
         /\ commands' = commands =>
              HolderInv' /\ StartInv' /\ RunInv' /\ (~view.missed => OrderInv' /\ MapInv')
<1>1. view' = view /\ inbox' = inbox /\ core' = core /\ task' = task
  OBVIOUS
<1>2. ViewFollows' => ViewFollows
  BY <1>1 DEF ViewFollows, IsFresh
<1>3. IsCalm' = IsCalm
  BY <1>1, CalmIs DEF IsCalm
<1>4. ViewFollows => SyncInv'
  BY <1>1, <1>3 DEF ViewInv, SyncInv
<1>5. ClearsCounted(view'.count, inbox')
  BY <1>1 DEF ViewInv, ClosesInv
<1>6. ASSUME commands' = commands
      PROVE  HolderInv' /\ StartInv' /\ RunInv' /\ (~view.missed => OrderInv' /\ MapInv')
  <2>1. HolderInv' /\ StartInv' /\ RunInv'
    BY <1>1, <1>6 DEF ViewInv, HolderInv, HasHolder, StartInv, RunInv
  <2>2. ~view.missed => OrderInv' /\ MapInv'
    BY <1>1, <1>6 DEF ViewInv, OrderInv, IsLeft, IsOver, MapInv
  <2> QED
    BY <2>1, <2>2
<1> QED
  BY <1>2, <1>4, <1>5, <1>6

\* apply_filter of a nested search
LEMMA NestedFilterKeeps ==
  ASSUME ViewTypes, ViewInv, AppliesNestedFilter
  PROVE  ViewTypes' /\ ViewInv'
<1> DEFINE f == nested.filter + 1
<1>1. /\ view' = view /\ commands' = commands /\ inbox' = inbox /\ core' = core /\ task' = task
      /\ UNCHANGED <<view, inbox, core, task>>
      /\ view.count > 0 /\ f \in DOMAIN Hits /\ nested' = [Closed(nested) EXCEPT !.filter = f]
      /\ nested \in Nesteds /\ view \in Views
  BY DEF AppliesNestedFilter, ViewTypes
<1>2. f # NoFilter
  BY <1>1, ViewAssumption DEF NoFilter
<1> HIDE DEF f
<1>3. /\ nested' \in Nesteds /\ nested'.filter = f /\ nested'.pending = 0
      /\ nested'.made = nested.made /\ nested'.anchor = NoAnchor
  BY <1>1 DEF Closed, NoNested, Nesteds, NoAnchor
<1>4. PendingInv' /\ NestedInv'
  <2>1. \A i \in DOMAIN inbox' : \E j \in DOMAIN inbox : inbox'[i] = inbox[j]
    BY <1>1
  <2> DEFINE F == {}
  <2>2. \A i \in DOMAIN commands' : commands'[i] \in F \/ \E j \in DOMAIN commands : commands'[i] = commands[j]
    BY <1>1
  <2>3. F \subseteq Commands /\ \A x \in F : x.is # "find"
    OBVIOUS
  <2> HIDE DEF F
  <2> QED
    BY <2>1, <2>2, <2>3, <1>3, ClosedPending
<1>5. ClosesInv'
  <2>1. view'.count # 0
    BY <1>1 DEF Views
  <2> QED
    BY <2>1, <1>1, NestedOnly DEF ClosesInv
<1>6. ViewTypes'
  BY <1>1, <1>3 DEF ViewTypes
<1> QED
  BY <1>1, <1>4, <1>5, <1>6, NestedOnly DEF ViewInv

\* request_match
LEMMA NavigatesKeeps ==
  ASSUME ViewTypes, ViewInv, NEW next \in BOOLEAN, Navigates(next)
  PROVE  ViewTypes' /\ ViewInv'
<1> DEFINE r == nested.made + 1
           c == [is |-> "find", request |-> r, filter |-> nested.filter,
                 anchor |-> nested.anchor, next |-> next]
<1>1. /\ view' = view /\ inbox' = inbox /\ core' = core /\ task' = task
      /\ UNCHANGED <<view, inbox, core, task>>
      /\ nested' = [nested EXCEPT !.made = r, !.pending = r] /\ commands' = Append(commands, c)
      /\ nested.filter # NoFilter /\ nested \in Nesteds
      /\ core'.slot = core.slot /\ core'.map = core.map
  BY DEF Navigates, ViewTypes
<1>2. r \in Nat /\ r # 0 /\ nested.made \in Nat /\ \A x \in 1 .. nested.made : x # r /\ x \in 1 .. r
  BY <1>1 DEF Nesteds
<1>3. c \in Commands
  BY <1>1, <1>2 DEF Nesteds, Commands, NoFilter
<1>4. /\ c.is = "find" /\ c.request = r /\ c.filter = nested.filter
  OBVIOUS
<1>5. r \in 1 .. r /\ r <= r
  BY <1>2
<1> HIDE DEF c, r
<1>6. /\ nested' \in Nesteds /\ nested'.filter = nested.filter /\ nested'.pending = r
      /\ nested'.made = r /\ nested'.anchor = nested.anchor /\ nested'.found = nested.found
      /\ nested'.row = nested.row
  BY <1>1, <1>2 DEF Nesteds
<1>7. /\ HolderInv' /\ StartInv' /\ RunInv' /\ (~view.missed => OrderInv' /\ MapInv')
      /\ commands' \in Seq(Commands)
      /\ \A i \in DOMAIN commands' : commands'[i] = c \/ \E j \in DOMAIN commands : commands'[i] = commands[j]
      /\ \E i \in DOMAIN commands' : commands'[i] = c
  BY <1>1, <1>3, <1>4, SendStep
<1>a. PendingInv
  BY DEF ViewInv
<1>b. \A i \in DOMAIN inbox : inbox[i].is = "answer" => inbox[i].request # r /\ inbox[i].request \in 1 .. r
  BY <1>2, <1>a DEF PendingInv
<1>8. PendingInv'
  <2>1. \A i \in DOMAIN commands' : commands'[i].is = "find" =>
          /\ commands'[i].request \in 1 .. r
          /\ commands'[i].request = r => commands'[i].filter = nested.filter
    <3>1. \A j \in DOMAIN commands : commands[j].is = "find" =>
            commands[j].request # r /\ commands[j].request \in 1 .. r
      BY <1>2, <1>a DEF PendingInv
    <3> QED
      BY <3>1, <1>4, <1>5, <1>7
  <2>2. \E i \in DOMAIN commands' : commands'[i].is = "find" /\ commands'[i].request = r
    BY <1>4, <1>7
  <2>3. nested.anchor # NoAnchor /\ nested.found => nested.row \in Hits[nested.filter]
    BY <1>a DEF PendingInv
  <2> QED
    BY <2>1, <2>2, <2>3, <1>1, <1>5, <1>6, <1>b DEF PendingInv, FindsPending, AnswersPending
<1>9. ClosesInv'
  BY <1>1, <1>6 DEF ViewInv, ClosesInv
<1>10. ViewFollows => NestedInv'
  <2>1. \A i \in DOMAIN inbox' : ~(inbox'[i].is = "answer" /\ inbox'[i].request = nested'.pending)
    BY <1>1, <1>6, <1>b
  <2> QED
    BY <2>1, <1>1, <1>6 DEF ViewInv, NestedInv, AnswersPending
<1>11. ViewTypes'
  BY <1>1, <1>6, <1>7 DEF ViewTypes
<1> QED
  BY <1>1, <1>7, <1>8, <1>9, <1>10, <1>11, NestedOnly DEF ViewInv

\* update_nested_anchor: what is selected is a row of the matches that the core
\* has, or the counts will tell that it had to be forgotten.
LEMMA SelectsKeeps ==
  ASSUME ViewTypes, ViewInv, Selects
  PROVE  ViewTypes' /\ ViewInv'
<1>1. PICK n \in DOMAIN view.shown : nested' = Anchored(nested, n, view.shown[n], FALSE)
  BY DEF Selects
<1>2. /\ view' = view /\ commands' = commands /\ inbox' = inbox /\ core' = core /\ task' = task
      /\ UNCHANGED <<view, inbox, core, task>>
      /\ nested.filter # NoFilter /\ nested \in Nesteds /\ view \in Views
      /\ inbox \in Seq(Messages) /\ core \in Cores
  BY DEF Selects, ViewTypes
<1>3. n \in Nat /\ view.shown[n] \in Entries
  <2>1. view.shown \in Seq(Entries)
    BY <1>2 DEF Views
  <2> QED
    BY <2>1, LenProperties, ElementOfSeq
<1> DEFINE row == view.shown[n]
<1>4. /\ nested' \in Nesteds /\ nested'.filter = nested.filter /\ nested'.pending = nested.pending
      /\ nested'.made = nested.made /\ nested'.anchor = n /\ nested'.row = row
      /\ nested'.found = FALSE
  BY <1>1, <1>2, <1>3 DEF Anchored, Nesteds
<1>5. PendingInv'
  <2>1. PendingInv
    BY DEF ViewInv
  <2> QED
    BY <2>1, <1>2, <1>4 DEF PendingInv, FindsPending, AnswersPending
<1>6. ClosesInv'
  BY <1>2, <1>4 DEF ViewInv, ClosesInv
<1>7. ASSUME ViewFollows PROVE NestedInv'
  <2>1. SyncOf(view, inbox, core, IsCalm) /\ NestedInv
    BY <1>7 DEF ViewInv, SyncInv
  <2>2. CASE ZeroAhead(inbox)
    BY <2>2, <1>2 DEF NestedInv
  <2>3. CASE ~ZeroAhead(inbox)
    <3>1. \A i \in DOMAIN inbox : inbox[i] # Cleared
      <4> SUFFICES ASSUME NEW i \in DOMAIN inbox, inbox[i] = Cleared PROVE FALSE
        OBVIOUS
      <4>0. DOMAIN inbox = 1 .. Len(inbox) /\ Len(inbox) \in Nat
        BY <1>2, LenProperties
      <4>1. ClosesInv
        BY DEF ViewInv
      <4>2. \A j \in DOMAIN inbox : inbox[j] # CountIs(0)
        BY <2>3 DEF ZeroAhead
      <4>3. view.count # 0
        BY <4>1, <2>3, <1>2 DEF ClosesInv
      <4>4. ~ZeroAt(view.count, inbox, i)
        <5> SUFFICES ASSUME NEW j \in 0 .. i - 1,
                            IF j = 0 THEN view.count = 0 ELSE inbox[j] = CountIs(0)
                     PROVE  FALSE
          BY DEF ZeroAt
        <5>1. j # 0 => j \in DOMAIN inbox
          BY <4>0
        <5> QED
          BY <5>1, <4>2, <4>3
      <4>5. \A j \in i + 1 .. Len(inbox) : j \in DOMAIN inbox
        BY <4>0
      <4> QED
        BY <4>1, <4>2, <4>4, <4>5 DEF ClosesInv, ClearsCounted
    <3>2. n \in 1 .. Len(core.map) /\ core.map[n] = row
      BY <3>1, <2>1, <1>2, ShownIsPrefix
    <3>3. IsMatch(core.map, n, row)
      BY <3>2 DEF IsMatch
    <3>4. \A i \in DOMAIN inbox :
            inbox[i].is = "answer" /\ inbox[i].request = nested.pending /\ inbox[i].at # NoAnchor =>
              IsMatch(core.map, inbox[i].at, inbox[i].row)
      BY <2>1, <2>3 DEF NestedInv, AnswersPending
    <3> HIDE DEF row
    <3> QED
      BY <3>3, <3>4, <1>2, <1>4 DEF NestedInv, AnswersPending
  <2> QED
    BY <2>2, <2>3
<1>8. ViewTypes'
  BY <1>2, <1>4 DEF ViewTypes
<1> QED
  BY <1>2, <1>5, <1>6, <1>7, <1>8, NestedOnly DEF ViewInv

-----------------------------------------------------------------------------
(* The view hears a message. *)

\* Whatever it is, what the view then has fits the rest of the messages.
LEMMA HeardStep ==
  ASSUME ViewTypes, ViewInv, NEW m, IsHeard(inbox', inbox, m),
         UNCHANGED <<commands, core, task>>, view' \in Views,
         view'.op = view.op, view'.made = view.made, view'.missed <=> view.missed,
         CountHeard(view'.count, view.count, m),
         IndexedHeard(view'.indexed, view.indexed, view.count, m),
         m = Cleared => view'.shown = << >>,
         view.op # NoOp /\ m.is = "found" => view'.shown = view.shown \o m.list,
         m.is \notin {"found", "cleared"} => view'.shown = view.shown,
         \A p : m = PhaseIs(view.op, p) => view'.phase = p,
         view'.phase # view.phase =>
           view'.phase = "success" \/ \E p : m = PhaseIs(view.op, p) /\ view'.phase = p,
         nested' \in Nesteds,
         \/ nested' = nested /\ m # CountIs(0)
              /\ (m.is = "answer" => m.request # nested.pending)
         \/ m = CountIs(0) /\ nested' = Closed(nested)
         \/ m.is = "answer" /\ m.request = nested.pending /\ nested' = Answered(nested, m)
  PROVE  ViewTypes' /\ ViewInv'
<1>0. /\ commands' = commands /\ core' = core /\ task' = task
      /\ view \in Views /\ nested \in Nesteds /\ inbox \in Seq(Messages) /\ core \in Cores
      /\ inbox' \in Seq(Messages)
  BY DEF ViewTypes, IsHeard
<1>a. /\ ZeroAhead(inbox) /\ m # CountIs(0) => ZeroAhead(inbox')
      /\ \A i \in DOMAIN inbox' : \E j \in DOMAIN inbox : inbox'[i] = inbox[j]
      /\ \A j \in DOMAIN inbox : inbox[j] = m \/ \E i \in DOMAIN inbox' : inbox'[i] = inbox[j]
  BY <1>0, AheadAfter
<1>b. 1 \in DOMAIN inbox /\ inbox[1] = m /\ m \in Messages
  BY DEF IsHeard
<1>c. PendingInv /\ ClosesInv /\ StartInv /\ HolderInv /\ RunInv
  BY DEF ViewInv
<1>d. nested.made \in Nat /\ nested.pending \in Nat /\ 0 \notin 1 .. nested.made
  BY <1>0 DEF Nesteds
<1>e. ASSUME m.is = "answer", m.request = nested.pending
      PROVE  /\ nested.pending # 0 /\ nested.filter # NoFilter
             /\ m.at # NoAnchor => m.row \in Hits[nested.filter]
             /\ nested' = Answered(nested, m)
  <2>1. AnswersPending(1)
    BY <1>b, <1>e DEF AnswersPending
  <2>2. m.request \in 1 .. nested.made
    BY <1>b, <1>c, <1>e DEF PendingInv
  <2>3. nested.pending # 0
    BY <2>2, <1>d, <1>e
  <2>4. nested.filter # NoFilter
    BY <2>3, <1>c DEF PendingInv
  <2>5. m.at # NoAnchor => m.row \in Hits[nested.filter]
    BY <2>1, <1>b, <1>c DEF PendingInv
  <2>6. m # CountIs(0)
    BY <1>e DEF CountIs
  <2> QED
    BY <2>3, <2>4, <2>5, <2>6, <1>e
<1>f. ASSUME m.is = "answer", m.request = nested.pending
      PROVE  /\ nested'.pending = 0 /\ nested'.made = nested.made /\ nested'.filter = nested.filter
             /\ m.at = NoAnchor => /\ nested'.anchor = nested.anchor /\ nested'.row = nested.row
                                   /\ (nested'.found <=> nested.found)
             /\ m.at # NoAnchor => nested'.anchor = m.at /\ nested'.row = m.row
  <2>1. nested' = Answered(nested, m)
    BY <1>e, <1>f
  <2> QED
    BY <2>1, <1>0 DEF Answered, Anchored, Nesteds
<1>1. HolderInv'
  BY <1>0, <1>c DEF HolderInv, HasHolder
<1>2. StartInv'
  BY <1>0, <1>c DEF StartInv
<1>3. RunInv'
  <2> SUFFICES ASSUME view.op # NoOp, task[view.op].at = "ended"
               PROVE  HearsEnd(view'.phase, inbox', view.op)
    BY <1>0 DEF RunInv
  <2>1. HearsEnd(view.phase, inbox, view.op)
    BY <1>c DEF RunInv
  <2> QED
    BY <2>1, <1>0, EndAfter
<1>g. /\ \A i \in DOMAIN commands : commands[i].is = "find" => commands[i].request \in 1 .. nested.made
      /\ \A i \in DOMAIN inbox' : inbox'[i].is = "answer" => inbox'[i].request \in 1 .. nested.made
  BY <1>a, <1>c DEF PendingInv
<1>4. PendingInv'
  <2>1. CASE nested' = nested /\ (m.is = "answer" => m.request # nested.pending)
    <3>1. nested.pending # 0 =>
            \/ \E i \in DOMAIN commands : commands[i].is = "find" /\ commands[i].request = nested.pending
            \/ \E i \in DOMAIN inbox' : inbox'[i].is = "answer" /\ inbox'[i].request = nested.pending
      BY <2>1, <1>a, <1>c DEF PendingInv, FindsPending, AnswersPending
    <3>2. \A i \in DOMAIN inbox' :
            inbox'[i].is = "answer" /\ inbox'[i].request = nested.pending /\ inbox'[i].at # NoAnchor =>
              inbox'[i].row \in Hits[nested.filter]
      BY <1>a, <1>c DEF PendingInv, AnswersPending
    <3> QED
      BY <3>1, <3>2, <2>1, <1>0, <1>c, <1>g DEF PendingInv, FindsPending, AnswersPending
  <2>2. CASE m = CountIs(0) /\ nested' = Closed(nested)
    <3>1. nested'.pending = 0 /\ nested'.made = nested.made /\ nested'.anchor = NoAnchor
      BY <2>2 DEF Closed, NoNested
    <3> DEFINE F == {}
    <3>2. /\ \A i \in DOMAIN commands' : commands'[i] \in F \/ \E j \in DOMAIN commands : commands'[i] = commands[j]
          /\ F \subseteq Commands /\ \A x \in F : x.is # "find"
      BY <1>0
    <3> HIDE DEF F
    <3> QED
      BY <3>1, <3>2, <1>a, ClosedPending
  <2>3. CASE m.is = "answer" /\ m.request = nested.pending
    <3>1. /\ \A i \in DOMAIN commands' : ~(commands'[i].is = "find" /\ commands'[i].request = nested'.pending)
          /\ \A i \in DOMAIN inbox' : ~(inbox'[i].is = "answer" /\ inbox'[i].request = nested'.pending)
          /\ nested'.pending = 0 /\ 0 <= nested.made
      BY <2>3, <1>0, <1>d, <1>f, <1>g
    <3>2. nested'.anchor # NoAnchor /\ nested'.found => nested'.row \in Hits[nested'.filter]
      <4>1. CASE m.at = NoAnchor
        <5>1. nested.anchor # NoAnchor /\ nested.found => nested.row \in Hits[nested.filter]
          BY <1>c DEF PendingInv
        <5> QED
          BY <5>1, <4>1, <2>3, <1>f
      <4>2. CASE m.at # NoAnchor
        BY <4>2, <2>3, <1>e, <1>f
      <4> QED
        BY <4>1, <4>2
    <3>3. nested'.filter # NoFilter /\ nested'.made = nested.made
      BY <2>3, <1>e, <1>f
    <3> QED
      BY <3>1, <3>2, <3>3, <1>0, <1>g DEF PendingInv, FindsPending, AnswersPending
  <2> QED
    BY <2>1, <2>2, <2>3
<1>5. ClosesInv'
  <2>1. ClearsCounted(view'.count, inbox')
    BY <1>0, <1>c, ClearsAfter DEF ClosesInv
  <2>2. ASSUME view'.count = 0 PROVE nested'.filter = NoFilter \/ ZeroAhead(inbox')
    <3>1. CASE m = CountIs(0)
      <4>1. nested' = Closed(nested)
        BY <3>1 DEF CountIs
      <4> QED
        BY <4>1 DEF Closed, NoNested
    <3>2. CASE m # CountIs(0)
      <4>1. nested'.filter = nested.filter
        BY <3>2, <1>f
      <4>2. CASE view.count = 0
        BY <4>1, <4>2, <3>2, <1>a, <1>c DEF ClosesInv
      <4>3. CASE view.count # 0
        <5>1. m = Cleared
          <6>1. m.is \in {"count", "cleared"}
            BY <2>2, <4>3 DEF CountHeard
          <6>2. m.is # "count"
            <7>1. m.is = "count" => m.n = 0 /\ m = CountIs(m.n)
              BY <2>2, <1>b, MessageIs DEF CountHeard
            <7> QED
              BY <7>1, <3>2
          <6> QED
            BY <6>1, <6>2, <1>b, MessageIs
        <5>2. ZeroAt(view.count, inbox, 1) \/ \E j \in 1 + 1 .. Len(inbox) : inbox[j] = CountIs(0)
          BY <5>1, <1>b, <1>c DEF ClosesInv, ClearsCounted
        <5>3. ~ZeroAt(view.count, inbox, 1)
          <6>1. \A j \in 0 .. 1 - 1 : j = 0
            OBVIOUS
          <6> QED
            BY <6>1, <4>3 DEF ZeroAt
        <5>4. ZeroAhead(inbox)
          <6>1. PICK j \in 1 + 1 .. Len(inbox) : inbox[j] = CountIs(0)
            BY <5>2, <5>3
          <6>2. j \in DOMAIN inbox
            BY DEF IsHeard
          <6> QED
            BY <6>1, <6>2 DEF ZeroAhead
        <5> QED
          BY <5>4, <3>2, <1>a
      <4> QED
        BY <4>2, <4>3
    <3> QED
      BY <3>1, <3>2
  <2> QED
    BY <2>1, <2>2 DEF ClosesInv
<1>6. ~view'.missed => OrderInv' /\ MapInv'
  <2>1. ~view.missed => OrderInv /\ MapInv
    BY DEF ViewInv
  <2>2. OrderInv => OrderInv'
    BY <1>0 DEF OrderInv, IsLeft, IsOver
  <2>3. MapInv => MapInv'
    BY <1>0 DEF MapInv
  <2> QED
    BY <2>1, <2>2, <2>3
<1>7. ViewFollows' => ViewFollows
  BY <1>0 DEF ViewFollows, IsFresh
<1>8. ASSUME ViewFollows PROVE SyncInv'
  <2>1. SyncOf(view, inbox, core, IsCalm) /\ view.op # NoOp
    BY <1>8 DEF ViewInv, SyncInv, ViewFollows
  <2>2. IsCalm' = IsCalm
    BY <1>0, CalmIs DEF IsCalm
  <2>3. SyncOf(view', inbox', core, IsCalm)
    <3> DEFINE u == view'
    <3>1. /\ CountHeard(u.count, view.count, m)
          /\ IndexedHeard(u.indexed, view.indexed, view.count, m)
          /\ m = Cleared => u.shown = << >>
          /\ m.is = "found" => u.shown = view.shown \o m.list
          /\ m.is \notin {"found", "cleared"} => u.shown = view.shown
      BY <2>1
    <3> HIDE DEF u
    <3>2. SyncOf(u, inbox', core, IsCalm)
      BY <2>1, <3>1, <1>0, CalmIs, SyncHeard
    <3> QED
      BY <3>2 DEF u
  <2> QED
    BY <2>2, <2>3, <1>0 DEF SyncInv
<1>9. ASSUME ViewFollows PROVE NestedInv'
  <2>1. NestedInv
    BY <1>9 DEF ViewInv
  <2>2. CASE m = CountIs(0)
    <3>1. nested'.anchor = NoAnchor /\ nested'.pending = 0
      <4>1. nested' = Closed(nested)
        BY <2>2 DEF CountIs
      <4> QED
        BY <4>1 DEF Closed, NoNested
    <3>2. \A i \in DOMAIN inbox' : ~(inbox'[i].is = "answer" /\ inbox'[i].request = nested'.pending)
      BY <3>1, <1>d, <1>g
    <3> QED
      BY <3>1, <3>2 DEF NestedInv, AnswersPending
  <2>3. CASE m # CountIs(0) /\ ZeroAhead(inbox)
    BY <2>3, <1>a DEF NestedInv
  <2>4. CASE m # CountIs(0) /\ ~ZeroAhead(inbox)
    <3>1. /\ nested.anchor # NoAnchor => IsMatch(core.map, nested.anchor, nested.row)
          /\ \A i \in DOMAIN inbox :
               inbox[i].is = "answer" /\ inbox[i].request = nested.pending /\ inbox[i].at # NoAnchor =>
                 IsMatch(core.map, inbox[i].at, inbox[i].row)
      BY <2>1, <2>4 DEF NestedInv, AnswersPending
    <3>2. CASE nested' = nested
      <4>1. \A i \in DOMAIN inbox' :
              inbox'[i].is = "answer" /\ inbox'[i].request = nested.pending /\ inbox'[i].at # NoAnchor =>
                IsMatch(core.map, inbox'[i].at, inbox'[i].row)
        BY <3>1, <1>a
      <4> QED
        BY <3>1, <3>2, <4>1, <1>0 DEF NestedInv, AnswersPending
    <3>3. CASE m.is = "answer" /\ m.request = nested.pending
      <4>1. nested'.anchor # NoAnchor => IsMatch(core.map, nested'.anchor, nested'.row)
        BY <3>1, <3>3, <1>b, <1>f
      <4>2. \A i \in DOMAIN inbox' : ~(inbox'[i].is = "answer" /\ inbox'[i].request = nested'.pending)
        BY <3>3, <1>d, <1>f, <1>g
      <4> QED
        BY <4>1, <4>2, <1>0 DEF NestedInv, AnswersPending
    <3> QED
      BY <3>2, <3>3, <2>4
  <2> QED
    BY <2>2, <2>3, <2>4
<1>10. ViewTypes'
  BY <1>0 DEF ViewTypes
<1> QED
  BY <1>1, <1>2, <1>3, <1>4, <1>5, <1>6, <1>7, <1>8, <1>9, <1>10 DEF ViewInv

\* The fields of messages that are heard.
LEMMA HeardAre ==
  ASSUME ViewTypes, inbox # << >>
  PROVE  /\ inbox \in Seq(Messages) /\ Tail(inbox) \in Seq(Messages)
         /\ Head(inbox) \in Messages /\ IsHeard(Tail(inbox), inbox, Head(inbox))
<1>1. IsHeard(Tail(inbox), inbox, Head(inbox))
  BY HeardIs DEF ViewTypes
<1> QED
  BY <1>1 DEF IsHeard, ViewTypes

\* The view stays as it is.
LEMMA SameView ==
  ASSUME ViewTypes, ViewInv, NEW m, IsHeard(inbox', inbox, m),
         UNCHANGED <<view, commands, core, task>>, nested' \in Nesteds,
         m.is \in {"answer", "phase", "found"},
         m.is = "phase" => m.op # view.op,
         m.is = "found" => view.op = NoOp,
         \/ nested' = nested /\ (m.is = "answer" => m.request # nested.pending)
         \/ m.is = "answer" /\ m.request = nested.pending /\ nested' = Answered(nested, m)
  PROVE  ViewTypes' /\ ViewInv'
<1>0. view' = view /\ view' \in Views /\ UNCHANGED <<commands, core, task>>
  BY DEF ViewTypes
<1>1. m # Cleared /\ m # CountIs(0)
  BY DEF Cleared, CountIs
<1>2. /\ CountHeard(view'.count, view.count, m)
      /\ IndexedHeard(view'.indexed, view.indexed, view.count, m)
  BY <1>0, <1>1 DEF CountHeard, IndexedHeard
<1>3. \A p : m # PhaseIs(view.op, p)
  <2> SUFFICES ASSUME NEW p, m = PhaseIs(view.op, p) PROVE FALSE
    OBVIOUS
  <2>1. m.is = "phase" /\ m.op = view.op
    BY DEF PhaseIs
  <2> QED
    BY <2>1
<1>4. view'.op = view.op /\ view'.made = view.made /\ (view'.missed <=> view.missed)
      /\ view'.shown = view.shown /\ view'.phase = view.phase
  BY <1>0
<1> QED
  BY <1>0, <1>1, <1>2, <1>3, <1>4, HeardStep

\* update_operation
LEMMA PhaseKeeps ==
  ASSUME ViewTypes, ViewInv, NEW m \in Messages, IsHeard(inbox', inbox, m),
         UNCHANGED <<commands, core, task>>, m.is = "phase", HearsOfPhase(m)
  PROVE  ViewTypes' /\ ViewInv'
<1>0. /\ view \in Views /\ nested \in Nesteds /\ nested' = nested
      /\ m.op \in Ops /\ m.phase \in {"running", "success", "failed"} /\ m = PhaseIs(m.op, m.phase)
  BY MessageIs DEF HearsOfPhase, ViewTypes
<1>1. CASE view.op # m.op
  <2>1. UNCHANGED <<view, commands, core, task>>
    BY <1>1 DEF HearsOfPhase
  <2> QED
    BY <2>1, <1>0, <1>1, SameView
<1>2. CASE view.op = m.op
  <2>1. view' = [view EXCEPT !.phase = m.phase]
    BY <1>2 DEF HearsOfPhase
  <2>2. m.phase \in Phases
    BY <1>0 DEF Phases
  <2>3. /\ view' \in Views /\ view'.op = view.op /\ view'.made = view.made
        /\ (view'.missed <=> view.missed)
        /\ view'.shown = view.shown /\ view'.phase = m.phase
        /\ view'.count = view.count /\ view'.indexed = view.indexed
    BY <2>1, <2>2, <1>0 DEF Views
  <2>4. m # Cleared /\ m # CountIs(0)
    BY DEF Cleared, CountIs
  <2>5. /\ CountHeard(view'.count, view.count, m)
        /\ IndexedHeard(view'.indexed, view.indexed, view.count, m)
    BY <2>3, <2>4 DEF CountHeard, IndexedHeard
  <2>6. \A p : m = PhaseIs(view.op, p) => view'.phase = p
    BY <2>3 DEF PhaseIs
  <2>7. m = PhaseIs(view.op, view'.phase)
    BY <2>3, <1>0, <1>2
  <2> QED
    BY <2>3, <2>4, <2>5, <2>6, <2>7, <1>0, HeardStep
<1> QED
  BY <1>1, <1>2

\* append_matches
LEMMA MatchesKeep ==
  ASSUME ViewTypes, ViewInv, NEW m \in Messages, IsHeard(inbox', inbox, m),
         UNCHANGED <<commands, core, task>>, m.is = "found", HearsOfMatches(m)
  PROVE  ViewTypes' /\ ViewInv'
<1>0. /\ view \in Views /\ nested \in Nesteds /\ nested' = nested /\ m.list \in Seq(Entries)
  BY MessageIs DEF HearsOfMatches, ViewTypes
<1>1. CASE view.op = NoOp
  <2>1. UNCHANGED <<view, commands, core, task>>
    BY <1>1 DEF HearsOfMatches
  <2> QED
    BY <2>1, <1>0, <1>1, SameView
<1>2. CASE view.op # NoOp
  <2> DEFINE list == view.shown \o m.list
  <2>1. view' = [view EXCEPT !.phase = "success", !.shown = list]
    BY <1>2 DEF HearsOfMatches
  <2>2. list \in Seq(Entries) /\ "success" \in Phases
    BY <1>0, ConcatProperties DEF Phases, Views
  <2> HIDE DEF list
  <2>3. /\ view' \in Views /\ view'.op = view.op /\ view'.made = view.made
        /\ (view'.missed <=> view.missed)
        /\ view'.shown = list /\ view'.phase = "success"
        /\ view'.count = view.count /\ view'.indexed = view.indexed
    BY <2>1, <2>2, <1>0 DEF Views
  <2>4. m # Cleared /\ m # CountIs(0)
    BY DEF Cleared, CountIs
  <2>5. /\ CountHeard(view'.count, view.count, m)
        /\ IndexedHeard(view'.indexed, view.indexed, view.count, m)
    BY <2>3, <2>4 DEF CountHeard, IndexedHeard
  <2>6. \A p : m # PhaseIs(view.op, p)
    BY DEF PhaseIs
  <2>7. view'.shown = view.shown \o m.list
    BY <2>3 DEF list
  <2> QED
    BY <2>3, <2>4, <2>5, <2>6, <2>7, <1>0, HeardStep
<1> QED
  BY <1>1, <1>2

\* clear_matches
LEMMA ClearedKeeps ==
  ASSUME ViewTypes, ViewInv, NEW m \in Messages, IsHeard(inbox', inbox, m),
         UNCHANGED <<nested, commands, core, task>>, m.is = "cleared",
         view' = ShownCleared(view)
  PROVE  ViewTypes' /\ ViewInv'
<1> DEFINE k == Minus(view.indexed, view.count)
           e == << >>
           z == 0
<1>0. view \in Views /\ nested \in Nesteds /\ nested' = nested /\ m = Cleared
  BY MessageIs DEF ViewTypes
<1>1. k \in Nat /\ e \in Seq(Entries) /\ z \in Nat
  BY <1>0 DEF Views, Minus
<1>2. view' = [view EXCEPT !.indexed = k, !.count = z, !.shown = e]
  BY DEF ShownCleared, CountsReset
<1> HIDE DEF k, e, z
<1>3. /\ view' \in Views /\ view'.op = view.op /\ view'.made = view.made
      /\ (view'.missed <=> view.missed)
      /\ view'.shown = e /\ view'.phase = view.phase
      /\ view'.count = z /\ view'.indexed = k
  BY <1>0, <1>1, <1>2 DEF Views
<1>4. m # CountIs(0)
  BY DEF CountIs
<1>5. CountHeard(view'.count, view.count, m)
  BY <1>3 DEF CountHeard, z
<1>6. IndexedHeard(view'.indexed, view.indexed, view.count, m)
  BY <1>3 DEF IndexedHeard, k
<1>7. \A p : m # PhaseIs(view.op, p)
  BY DEF PhaseIs
<1>8. view'.shown = << >>
  BY <1>3 DEF e
<1> QED
  BY <1>0, <1>3, <1>4, <1>5, <1>6, <1>7, <1>8, HeardStep

\* update_count: no matches, no nested search
LEMMA CountKeeps ==
  ASSUME ViewTypes, ViewInv, NEW m \in Messages, IsHeard(inbox', inbox, m),
         UNCHANGED <<commands, core, task>>, m.is = "count", HearsOfCount(m)
  PROVE  ViewTypes' /\ ViewInv'
<1>0. /\ view \in Views /\ nested \in Nesteds /\ m.n \in Nat /\ m = CountIs(m.n)
      /\ view' = [view EXCEPT !.count = m.n]
      /\ nested' = IF m.n = 0 THEN Closed(nested) ELSE nested
  BY MessageIs DEF HearsOfCount, ViewTypes
<1>1. /\ view' \in Views /\ view'.op = view.op /\ view'.made = view.made
      /\ (view'.missed <=> view.missed)
      /\ view'.shown = view.shown /\ view'.phase = view.phase
      /\ view'.count = m.n /\ view'.indexed = view.indexed
  BY <1>0 DEF Views
<1>2. m # Cleared /\ (m = CountIs(0) <=> m.n = 0) /\ \A p : m # PhaseIs(view.op, p)
  BY <1>0 DEF Cleared, CountIs, PhaseIs
<1>3. /\ CountHeard(view'.count, view.count, m)
      /\ IndexedHeard(view'.indexed, view.indexed, view.count, m)
  BY <1>1, <1>2 DEF CountHeard, IndexedHeard
<1>4. nested' \in Nesteds
  BY <1>0, ClosedIs
<1> QED
  BY <1>0, <1>1, <1>2, <1>3, <1>4, HeardStep

\* The count of the index.
LEMMA IndexedKeeps ==
  ASSUME ViewTypes, ViewInv, NEW m \in Messages, IsHeard(inbox', inbox, m),
         UNCHANGED <<nested, commands, core, task>>, m.is = "indexed",
         view' = [view EXCEPT !.indexed = m.n]
  PROVE  ViewTypes' /\ ViewInv'
<1>0. view \in Views /\ nested \in Nesteds /\ nested' = nested /\ m.n \in Nat
  BY MessageIs DEF ViewTypes
<1>1. /\ view' \in Views /\ view'.op = view.op /\ view'.made = view.made
      /\ (view'.missed <=> view.missed)
      /\ view'.shown = view.shown /\ view'.phase = view.phase
      /\ view'.count = view.count /\ view'.indexed = m.n
  BY <1>0 DEF Views
<1>2. m # Cleared /\ m # CountIs(0) /\ \A p : m # PhaseIs(view.op, p)
  BY DEF Cleared, CountIs, PhaseIs
<1>3. /\ CountHeard(view'.count, view.count, m)
      /\ IndexedHeard(view'.indexed, view.indexed, view.count, m)
  BY <1>1, <1>2 DEF CountHeard, IndexedHeard
<1> QED
  BY <1>0, <1>1, <1>2, <1>3, HeardStep

\* handle_nested_result
LEMMA AnswerKeeps ==
  ASSUME ViewTypes, ViewInv, NEW m \in Messages, IsHeard(inbox', inbox, m),
         UNCHANGED <<commands, core, task>>, m.is = "answer", AcceptsAnswer(m)
  PROVE  ViewTypes' /\ ViewInv'
<1>0. /\ nested \in Nesteds /\ m.request \in Nat /\ m.at \in Nat /\ m.row \in Entries \cup {0}
      /\ view' = view /\ UNCHANGED <<view, commands, core, task>>
      /\ nested' = IF nested.pending = m.request THEN Answered(nested, m) ELSE nested
  BY MessageIs DEF AcceptsAnswer, ViewTypes
<1>1. Answered(nested, m) \in Nesteds
  BY <1>0 DEF Answered, Anchored, Nesteds
<1> QED
  BY <1>0, <1>1, SameView

\* A message is handled.
LEMMA HandlesKeeps ==
  ASSUME ViewTypes, ViewInv, HandlesMessage
  PROVE  ViewTypes' /\ ViewInv'
<1> DEFINE m == Head(inbox)
<1>1. IsHeard(inbox', inbox, m) /\ m \in Messages /\ UNCHANGED <<commands, core, task>>
  BY HeardAre DEF HandlesMessage
<1>2. CASE m.is = "phase" /\ HearsOfPhase(m)
  BY <1>1, <1>2, PhaseKeeps
<1>3. CASE m.is = "found" /\ HearsOfMatches(m)
  BY <1>1, <1>3, MatchesKeep
<1>4. CASE m.is = "cleared" /\ view' = ShownCleared(view) /\ UNCHANGED nested
  BY <1>1, <1>4, ClearedKeeps
<1>5. CASE m.is = "count" /\ HearsOfCount(m)
  BY <1>1, <1>5, CountKeeps
<1>6. CASE m.is = "indexed" /\ view' = [view EXCEPT !.indexed = m.n] /\ UNCHANGED nested
  BY <1>1, <1>6, IndexedKeeps
<1>7. CASE m.is = "answer" /\ AcceptsAnswer(m)
  BY <1>1, <1>7, AnswerKeeps
<1> QED
  BY <1>2, <1>3, <1>4, <1>5, <1>6, <1>7 DEF HandlesMessage

-----------------------------------------------------------------------------
(* The view of a search: what follows. *)

\* The initial state.
LEMMA ViewStarts == ASSUME ViewInit PROVE ViewTypes /\ ViewInv
<1>1. ViewTypes
  <2>1. << >> \in Seq(Entries) /\ << >> \in Seq(Commands) /\ << >> \in Seq(Messages)
    OBVIOUS
  <2>2. view \in Views
    BY <2>1, OpsAre DEF ViewInit, Views, Phases
  <2>3. nested \in Nesteds
    BY DEF ViewInit, Nesteds, NoNested, NoAnchor
  <2>4. core \in Cores
    <3>1. IsFiniteSet({})
      BY FS_EmptySet
    <3>2. FirstRows \in Nat
      BY ViewAssumption
    <3> QED
      BY <2>1, <3>1, <3>2 DEF ViewInit, Cores
  <2>5. task \in [Ops -> Tasks]
    BY DEF ViewInit, Tasks
  <2> QED
    BY <2>1, <2>2, <2>3, <2>4, <2>5 DEF ViewInit, ViewTypes
<1>2. \A o \in Ops : task[o].at = "none" /\ task[o].tries = 0 /\ task[o].aborted = FALSE
                     /\ o \in Nat /\ ~(o <= 0)
  BY DEF ViewInit, Ops
<1>3. /\ view.op = NoOp /\ view.made = 0 /\ view.count = 0 /\ nested = NoNested
      /\ commands = << >> /\ inbox = << >> /\ core.slot = "empty"
  BY DEF ViewInit
<1>4. DOMAIN commands = {} /\ DOMAIN inbox = {} /\ NoOp = 0
  BY <1>3 DEF NoOp
<1>5. HolderInv
  BY <1>2, <1>3 DEF HolderInv, HasHolder
<1>6. StartInv
  BY <1>2, <1>3, <1>4 DEF StartInv
<1>7. RunInv
  BY <1>3 DEF RunInv
<1>8. PendingInv
  BY <1>3, <1>4 DEF PendingInv, NoNested, NoAnchor
<1>9. ClosesInv
  BY <1>3, <1>4 DEF ClosesInv, ClearsCounted, NoNested
<1>10. OrderInv
  BY <1>2, <1>3, <1>4 DEF OrderInv
<1>11. MapInv
  BY <1>2 DEF MapInv
<1>12. ~ViewFollows
  BY <1>3 DEF ViewFollows
<1> QED
  BY <1>1, <1>5, <1>6, <1>7, <1>8, <1>9, <1>10, <1>11, <1>12 DEF ViewInv

\* Every step.
LEMMA ViewSteps ==
  ASSUME ViewTypes, ViewInv, [ViewNext]_viewVars
  PROVE  ViewTypes' /\ ViewInv'
<1>1. CASE User
  BY <1>1, AppliesKeeps, DropsKeeps, MarksRowKeeps, NestedFilterKeeps, NavigatesKeeps,
     SelectsKeeps DEF User
<1>2. ASSUME NEW o \in Ops, Searches(o) PROVE ViewTypes' /\ ViewInv'
  <2>1. CASE GetsHolder(o)
    BY <2>1, MissesKeeps, GetsKeeps
  <2> QED
    BY <2>1, <1>2, BeginsKeeps, TriesKeeps, TicksKeep, FindsKeep, GivesBackKeeps,
       BreaksKeeps, ClearsKeeps DEF Searches
<1>3. CASE System
  BY <1>2, <1>3, TakesKeeps, HandlesKeeps DEF System
<1>4. CASE Writes
  BY <1>4, WritesKeep
<1>5. CASE UNCHANGED viewVars
  <2>1. /\ view' = view /\ nested' = nested /\ commands' = commands /\ inbox' = inbox
        /\ core' = core /\ task' = task
    BY <1>5 DEF viewVars, uiVars
  <2>2. ViewTypes'
    BY <2>1 DEF ViewTypes
  <2>3. HolderInv' /\ StartInv' /\ RunInv' /\ PendingInv' /\ ClosesInv'
    BY <2>1 DEF ViewInv, HolderInv, HasHolder, StartInv, RunInv, PendingInv, FindsPending,
                AnswersPending, ClosesInv
  <2>4. ~view'.missed => OrderInv' /\ MapInv'
    BY <2>1 DEF ViewInv, OrderInv, IsLeft, IsOver, MapInv
  <2>5. ViewFollows' => ViewFollows
    BY <2>1 DEF ViewFollows, IsFresh
  <2>6. IsCalm' = IsCalm
    BY <2>1, CalmIs DEF IsCalm
  <2>7. ViewFollows => SyncInv' /\ NestedInv'
    BY <2>1, <2>6 DEF ViewInv, SyncInv, NestedInv, AnswersPending
  <2> QED
    BY <2>2, <2>3, <2>4, <2>5, <2>7 DEF ViewInv
<1> QED
  BY <1>1, <1>3, <1>4, <1>5 DEF ViewNext

\* The invariant of the view of a search.
LEMMA ViewHolds == ViewSpec => [](ViewTypes /\ ViewInv)
<1>1. ViewInit => ViewTypes /\ ViewInv
  BY ViewStarts
<1>2. ViewTypes /\ ViewInv /\ [ViewNext]_viewVars => (ViewTypes /\ ViewInv)'
  BY ViewSteps
<1> QED
  BY <1>1, <1>2, PTL DEF ViewSpec

\* At rest the search that is shown, if there is one, has been told of all that
\* it found, unless one was missed.
LEMMA RestFollows ==
  ASSUME ViewTypes, ViewInv, Quiet
  PROVE  /\ view.op # NoOp => task[view.op].at = "ended"
         /\ view.op # NoOp /\ ~view.missed => ShowsCore /\ NestedInv
         /\ inbox = << >> /\ commands = << >>
<1>1. /\ inbox = << >> /\ commands = << >> /\ \A o \in Ops : task[o].at \in {"none", "ended"}
      /\ DOMAIN commands = {} /\ DOMAIN inbox = {}
  BY DEF Quiet, AllAtRest, IsAtRest
<1>2. view.op # NoOp => view.op \in Ops /\ task[view.op].at = "ended"
  <2>1. view.op # NoOp => view.op \in Ops
    BY DEF ViewTypes, Views
  <2>2. StartInv
    BY DEF ViewInv
  <2> QED
    BY <2>1, <2>2, <1>1 DEF StartInv
<1>3. ASSUME view.op # NoOp, ~view.missed PROVE ShowsCore /\ NestedInv
  <2>1. ViewFollows
    BY <1>2, <1>3 DEF ViewFollows, IsFresh
  <2>2. IsCalm <=> TRUE
    BY <1>1 DEF IsCalm, ViewInv, HolderInv, HasHolder
  <2>3. SyncOf(view, << >>, core, TRUE)
    <3>1. SyncOf(view, inbox, core, IsCalm)
      BY <2>1 DEF ViewInv, SyncInv
    <3>2. IsCalm = TRUE
      BY <2>2, CalmIs
    <3> QED
      BY <3>1, <3>2, <1>1
  <2>4. core \in Cores
    BY DEF ViewTypes
  <2> QED
    BY <2>1, <2>3, <2>4, SyncedShows DEF ShowsCore, ViewInv
<1> QED
  BY <1>1, <1>2, <1>3

\* A search that was left does not keep the holder in use, unless it was missed
\* (app: session/ui/shared, sync_filter_search_pipeline).
THEOREM LeftIsDroppedHolds == ViewSpec => []LeftIsDropped
<1>1. ASSUME ViewTypes, ViewInv, commands = << >>, ~view.missed,
             NEW o \in Ops, o # view.op
      PROVE  task[o].at \in {"none", "clears", "ended"} \/ task[o].aborted
  <2>1. CASE o > view.made
    BY <2>1, <1>1 DEF ViewInv, StartInv
  <2>2. CASE o <= view.made
    <3>1. IsLeft(o, Len(commands))
      BY <2>2, <1>1 DEF ViewInv, OrderInv
    <3>2. 1 .. Len(commands) = {}
      BY <1>1
    <3> QED
      BY <3>1, <3>2 DEF IsLeft, IsOver
  <2> QED
    BY <2>1, <2>2, <1>1, ViewAssumption DEF ViewTypes, Views, Ops
<1>2. ViewTypes /\ ViewInv => LeftIsDropped
  BY <1>1 DEF LeftIsDropped
<1> QED
  BY <1>2, ViewHolds, PTL

\* A search that was left does not go on, as LeftIsDroppedHolds says, and once
\* all messages have been handled the view of a search shows the matches
\* and the counts of the core, unless a search was left without its drop, and
\* nothing is waited for (app: session/ui/shared/searching).
THEOREM ViewFollowsCoreHolds == ViewSpec => []ViewFollowsCore
<1>1. ASSUME ViewTypes, ViewInv, Quiet
      PROVE  /\ view.op # NoOp /\ ~view.missed => ShowsCore
             /\ ~IsRunning /\ nested.pending = 0
  <2>1. ~IsRunning
    <3> SUFFICES ASSUME view.op # NoOp PROVE view.phase # "running"
      BY DEF IsRunning
    <3>1. HearsEnd(view.phase, << >>, view.op)
      BY RestFollows, <1>1 DEF ViewInv, RunInv
    <3> QED
      BY <3>1 DEF HearsEnd
  <2>2. nested.pending = 0
    BY RestFollows, <1>1 DEF ViewInv, PendingInv
  <2> QED
    BY <2>1, <2>2, <1>1, RestFollows
<1>2. ViewTypes /\ ViewInv /\ Quiet =>
        /\ view.op # NoOp /\ ~view.missed => ShowsCore
        /\ ~IsRunning /\ nested.pending = 0
  BY <1>1
<1>3. ViewTypes /\ ViewInv /\ LeftIsDropped => ViewFollowsCore
  BY <1>2 DEF ViewFollowsCore
<1> QED
  BY <1>3, ViewHolds, LeftIsDroppedHolds, PTL

\* At rest navigation continues from a row that is shown, and from a hit of its
\* filter when it has gone there (app: session/ui/shared/searching, nested).
THEOREM NestedIsCurrentHolds == ViewSpec => []NestedIsCurrent
<1>1. ASSUME ViewTypes, ViewInv, Quiet, view.op # NoOp, ~view.missed,
             nested.anchor # NoAnchor
      PROVE  /\ nested.anchor \in DOMAIN view.shown
             /\ view.shown[nested.anchor] = nested.row
             /\ nested.found => nested.row \in Hits[nested.filter]
  <2>1. view.shown = core.map /\ NestedInv /\ inbox = << >>
    BY RestFollows, <1>1 DEF ShowsCore
  <2>2. IsMatch(core.map, nested.anchor, nested.row)
    BY <2>1, <1>1 DEF NestedInv, ZeroAhead
  <2>3. nested.anchor \in 1 .. Len(core.map)
    BY <2>2, <1>1 DEF IsMatch, ViewTypes, Nesteds, NoAnchor
  <2>4. DOMAIN core.map = 1 .. Len(core.map)
    <3>1. core.map \in Seq(Entries)
      BY <1>1, CoreIs DEF ViewTypes
    <3> QED
      BY <3>1, LenProperties
  <2>5. nested.found => nested.row \in Hits[nested.filter]
    BY <1>1 DEF ViewInv, PendingInv
  <2> QED
    BY <2>1, <2>2, <2>3, <2>4, <2>5 DEF IsMatch
<1>2. ViewTypes /\ ViewInv => NestedIsCurrent
  BY <1>1 DEF NestedIsCurrent
<1> QED
  BY <1>2, ViewHolds, PTL

\* Navigation goes to the next hit around the results, whatever was found
\* (session: handle_search_nested_match).
THEOREM NestedFindsNearestHolds == ViewSpec => []NestedFindsNearest
<1>1. ASSUME ViewTypes PROVE NestedFindsNearest
  <2>1. Len(core.map) \in Nat
    BY CoreIs DEF ViewTypes
  <2> QED
    BY <2>1, NearestIsFound, Zenon DEF NestedFindsNearest
<1> QED
  BY <1>1, ViewHolds, PTL

=============================================================================
