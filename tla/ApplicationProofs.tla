-------------------------- MODULE ApplicationProofs --------------------------
(***************************************************************************)
(* Proofs about parts of the desktop application.                          *)
(*                                                                         *)
(* The filters that sessions share (SessionFilters), for any number of     *)
(* sessions, of texts and of definitions: the registry's book of who uses  *)
(* a definition is what the sessions' rows say, the search of a session is *)
(* the one that its filters ask for, and what other sessions change is     *)
(* noted.  They hold as long as no edit makes two rows of a session share  *)
(* a definition (EditsMayMeet).                                            *)
(*                                                                         *)
(* Its files (HostStorage), for any number of starts and changes: nothing  *)
(* that was changed is forgotten as long as the application runs, the      *)
(* favourites are left alone until they are loaded, and the old list is    *)
(* imported once.  They hold whatever fails, unless it fails unseen        *)
(* (NothingIsSilent): a write whose error is dropped with its writer, and  *)
(* a start whose errors are only logged.                                   *)
(*                                                                         *)
(* Its tables of rows (LogTables), for pages, queues and logs of any size: *)
(* whenever an answer comes, a row is shown as the row that it is.         *)
(***************************************************************************)
EXTENDS SessionFilters, HostStorage, LogTables, FiniteSetTheorems,
        FunctionTheorems, SequenceTheorems, WellFoundedInduction, TLAPS

-----------------------------------------------------------------------------
(* Extremes. *)

\* A set of naturals that is not empty has a smallest member.
LEMMA SmallestIsThere ==
  ASSUME NEW S \in SUBSET Nat, S # {}
  PROVE  \E x \in S : \A y \in S : x <= y
<1> DEFINE R == {p \in Nat \X Nat : p[1] < p[2]}
<1>1. IsWellFoundedOn(R, Nat)
  BY NatLessThanWellFounded, Zenon DEF OpToRel
<1>2. PICK x \in S : \A y \in S : ~(<<y, x>> \in R)
  <2> HIDE DEF R
  <2> QED
    BY <1>1, WFMin, Zenon
<1>3. ASSUME NEW y \in S PROVE x <= y
  <2>1. x \in Nat /\ y \in Nat /\ ~(y < x)
    BY <1>2
  <2> QED
    BY <2>1
<1> QED
  BY <1>3

-----------------------------------------------------------------------------
(* The rows that are kept of a sequence. *)

Rank(K, i) == Cardinality({j \in K : j <= i})

Place(K, n) == CHOOSE i \in K : Rank(K, i) = n

\* Kept, with the place of the n-th position named.
LEMMA KeptIs ==
  ASSUME NEW s, NEW K
  PROVE  Kept(s, K) = [n \in 1 .. Cardinality(K) |-> s[Place(K, n)]]
BY DEF Kept, Place, Rank

\* A set of positions and those of them up to one.
LEMMA RanksAre ==
  ASSUME NEW c \in Nat, NEW K \in SUBSET (1 .. c)
  PROVE  /\ IsFiniteSet(K) /\ Cardinality(K) \in Nat /\ Cardinality(K) <= c
         /\ \A i \in K : Rank(K, i) \in 1 .. Cardinality(K)
         /\ \A i, j \in K : i < j => Rank(K, i) < Rank(K, j)
<1>0. \A i \in K : i \in Nat
  OBVIOUS
<1>1. IsFiniteSet(1 .. c) /\ Cardinality(1 .. c) = c
  BY FS_Interval
<1>2. IsFiniteSet(K) /\ Cardinality(K) <= c /\ Cardinality(K) \in Nat
  BY <1>1, FS_Subset, FS_CardinalityType
<1>3. \A i \in K : IsFiniteSet({j \in K : j <= i}) /\ Rank(K, i) \in Nat
                    /\ Rank(K, i) <= Cardinality(K)
  BY <1>2, FS_Subset, FS_CardinalityType DEF Rank
<1>4. ASSUME NEW i \in K PROVE Rank(K, i) # 0
  <2>1. i \in {j \in K : j <= i}
    OBVIOUS
  <2> QED
    BY <1>3, <2>1, FS_EmptySet DEF Rank
<1>5. ASSUME NEW i \in K, NEW j \in K, i < j PROVE Rank(K, i) < Rank(K, j)
  <2> DEFINE A == {x \in K : x <= i}
             B == {x \in K : x <= j}
  <2>1. A \in SUBSET B /\ j \in B /\ j \notin A
    <3>1. \A x \in A : x \in B
      <4> SUFFICES ASSUME NEW x \in A PROVE x \in B
        OBVIOUS
      <4>1. x \in K /\ x \in Nat /\ i \in Nat /\ j \in Nat /\ x <= i
        BY <1>0
      <4> QED
        BY <1>5, <4>1
    <3>2. i \in Nat /\ j \in Nat /\ ~(j <= i) /\ j <= j
      BY <1>0, <1>5
    <3> QED
      BY <3>1, <3>2
  <2>2. IsFiniteSet(B) /\ Cardinality(A) <= Cardinality(B) /\ Cardinality(A) # Cardinality(B)
    BY <1>3, <2>1, FS_Subset
  <2>3. Rank(K, i) = Cardinality(A) /\ Rank(K, j) = Cardinality(B)
    BY DEF Rank
  <2>4. Rank(K, i) \in Nat /\ Rank(K, j) \in Nat
    BY <1>3
  <2> HIDE DEF A, B
  <2> QED
    BY <2>2, <2>3, <2>4
<1>6. \A i \in K : Rank(K, i) \in 1 .. Cardinality(K)
  <2> SUFFICES ASSUME NEW i \in K PROVE Rank(K, i) \in 1 .. Cardinality(K)
    OBVIOUS
  <2>1. Rank(K, i) \in Nat /\ Rank(K, i) <= Cardinality(K) /\ Rank(K, i) # 0
    BY <1>3, <1>4
  <2> QED
    BY <1>2, <2>1
<1> QED
  BY <1>2, <1>5, <1>6

\* The n-th position is there, and the positions come in their order.
LEMMA PlacesAre ==
  ASSUME NEW c \in Nat, NEW K \in SUBSET (1 .. c)
  PROVE  /\ \A n \in 1 .. Cardinality(K) : Place(K, n) \in K /\ Rank(K, Place(K, n)) = n
         /\ \A i \in K : Place(K, Rank(K, i)) = i
         /\ \A m, n \in 1 .. Cardinality(K) : m < n => Place(K, m) < Place(K, n)
<1> DEFINE d == Cardinality(K)
           f == [i \in K |-> Rank(K, i)]
<1>0. d \in Nat /\ IsFiniteSet(K) /\ \A i \in K : i \in Nat
  BY RanksAre
<1>1. \A i \in K : Rank(K, i) \in 1 .. d
  BY RanksAre
<1>2. \A i, j \in K : i < j => Rank(K, i) < Rank(K, j)
  BY RanksAre
<1>3. \A i, j \in K : i # j => Rank(K, i) # Rank(K, j)
  <2> SUFFICES ASSUME NEW i \in K, NEW j \in K, i # j PROVE Rank(K, i) # Rank(K, j)
    OBVIOUS
  <2>1. i \in Nat /\ j \in Nat /\ Rank(K, i) \in Nat /\ Rank(K, j) \in Nat
    BY <1>0, <1>1
  <2>2. CASE i < j
    BY <1>2, <2>1, <2>2
  <2>3. CASE j < i
    BY <1>2, <2>1, <2>3
  <2> QED
    BY <2>1, <2>2, <2>3
<1>4. f \in Injection(K, 1 .. d)
  <2>1. f \in [K -> 1 .. d]
    BY <1>1
  <2>2. \A i, j \in K : f[i] = f[j] => i = j
    BY <1>3
  <2> HIDE DEF f
  <2> QED
    BY <2>1, <2>2, Zenon DEF Injection, IsInjective
<1>5. IsFiniteSet(1 .. d) /\ Cardinality(1 .. d) = d
  BY <1>0, FS_Interval
<1>6. f \in Surjection(K, 1 .. d)
  <2> HIDE DEF f
  <2>1. Cardinality(K) = Cardinality(1 .. d)
    BY <1>5
  <2> HIDE DEF d
  <2> QED
    BY <1>4, <1>5, <2>1, FS_Injection, Zenon
<1>7. \A n \in 1 .. d : \E i \in K : f[i] = n
  <2> HIDE DEF f
  <2> QED
    BY <1>6, Fun_SurjectionProperties, Zenon
<1>8. \A n \in 1 .. d : \E i \in K : Rank(K, i) = n
  BY <1>7
<1>9. \A n \in 1 .. d : Place(K, n) \in K /\ Rank(K, Place(K, n)) = n
  <2> HIDE DEF d
  <2> QED
    BY <1>8, Zenon DEF Place
<1>10. ASSUME NEW i \in K PROVE Place(K, Rank(K, i)) = i
  <2>1. Rank(K, i) \in 1 .. d
    BY <1>1
  <2> HIDE DEF d
  <2>2. Place(K, Rank(K, i)) \in K /\ Rank(K, Place(K, Rank(K, i))) = Rank(K, i)
    BY <1>9, <2>1, Zenon
  <2> QED
    BY <1>3, <2>2, Zenon
<1>11. ASSUME NEW m \in 1 .. d, NEW n \in 1 .. d, m < n PROVE Place(K, m) < Place(K, n)
  <2>1. /\ Place(K, m) \in K /\ Rank(K, Place(K, m)) = m
        /\ Place(K, n) \in K /\ Rank(K, Place(K, n)) = n
    BY <1>9
  <2>2. Place(K, m) \in Nat /\ Place(K, n) \in Nat /\ m \in Nat /\ n \in Nat
    <3>1. \A x \in 1 .. d : x \in Nat
      BY <1>0
    <3>2. \A x \in K : x \in Nat
      BY <1>0
    <3> QED
      BY <2>1, <3>1, <3>2
  <2>3. ~(Place(K, n) < Place(K, m))
    BY <1>2, <1>11, <2>1, <2>2
  <2>4. Place(K, n) # Place(K, m)
    BY <1>11, <2>1, <2>2
  <2> QED
    BY <2>2, <2>3, <2>4
<1> QED
  BY <1>9, <1>10, <1>11

\* There is one way to number positions in their order.
LEMMA PlacesUnique ==
  ASSUME NEW c \in Nat, NEW K \in SUBSET (1 .. c), NEW d \in Nat,
         NEW f \in [1 .. d -> K],
         \A m, n \in 1 .. d : m < n => f[m] < f[n],
         \A i \in K : \E n \in 1 .. d : f[n] = i
  PROVE  d = Cardinality(K) /\ \A n \in 1 .. d : Place(K, n) = f[n]
<1>0. /\ \A i \in K : i \in Nat
      /\ \A n \in 1 .. d : f[n] \in K /\ f[n] \in Nat /\ n \in Nat
  <2>1. \A i \in K : i \in Nat
    OBVIOUS
  <2>2. ASSUME NEW n \in 1 .. d PROVE f[n] \in K /\ f[n] \in Nat /\ n \in Nat
    <3>1. f[n] \in K
      OBVIOUS
    <3>2. f[n] \in Nat
      BY <2>1, <3>1
    <3>3. n \in Nat
      OBVIOUS
    <3> QED
      BY <3>1, <3>2, <3>3
  <2> QED
    BY <2>1, <2>2
<1>1. \A m, n \in 1 .. d : f[m] = f[n] => m = n
  <2> SUFFICES ASSUME NEW m \in 1 .. d, NEW n \in 1 .. d, f[m] = f[n] PROVE m = n
    OBVIOUS
  <2>1. f[m] \in Nat /\ f[n] \in Nat /\ m \in Nat /\ n \in Nat
    BY <1>0
  <2> QED
    BY <2>1
<1>2. \A x \in 1 .. d : Rank(K, f[x]) = x
  <2> SUFFICES ASSUME NEW x \in 1 .. d PROVE Rank(K, f[x]) = x
    OBVIOUS
  <2> DEFINE S == {j \in K : j <= f[x]}
             g == [n \in 1 .. x |-> f[n]]
  <2>1. x \in Nat /\ 1 .. x \subseteq 1 .. d /\ f[x] \in K /\ f[x] \in Nat
    BY <1>0
  <2>2. \A n \in 1 .. x : f[n] \in S
    <3> SUFFICES ASSUME NEW n \in 1 .. x PROVE f[n] \in S
      OBVIOUS
    <3>1. n \in 1 .. d /\ f[n] \in K /\ f[n] \in Nat /\ n \in Nat
      BY <1>0, <2>1
    <3>2. n < x \/ n = x
      BY <2>1, <3>1
    <3>3. f[n] <= f[x]
      BY <2>1, <3>1, <3>2
    <3> QED
      BY <3>1, <3>3
  <2>3. \A i \in S : \E n \in 1 .. x : f[n] = i
    <3> SUFFICES ASSUME NEW i \in S PROVE \E n \in 1 .. x : f[n] = i
      OBVIOUS
    <3>1. PICK n \in 1 .. d : f[n] = i
      OBVIOUS
    <3>2. n \in Nat /\ ~(x < n)
      BY <2>1, <3>1
    <3> QED
      BY <2>1, <3>1, <3>2
  <2>4. g \in [1 .. x -> S] /\ (\A n \in 1 .. x : g[n] = f[n])
    BY <2>2
  <2>5. g \in Bijection(1 .. x, S)
    <3> HIDE DEF g, S
    <3>1. g \in Injection(1 .. x, S)
      <4>1. \A m, n \in 1 .. x : g[m] = g[n] => m = n
        BY <1>1, <2>1, <2>4
      <4> QED
        BY <2>4, <4>1, Zenon DEF Injection, IsInjective
    <3>2. g \in Surjection(1 .. x, S)
      <4>1. \A i \in S : \E n \in 1 .. x : g[n] = i
        BY <2>3, <2>4
      <4> QED
        BY <2>4, <4>1, Zenon DEF Surjection
    <3> QED
      BY <3>1, <3>2, Zenon DEF Bijection
  <2>6. IsFiniteSet(1 .. x) /\ Cardinality(1 .. x) = x
    BY <2>1, FS_Interval
  <2>7. Cardinality(S) = x
    <3> HIDE DEF g, S
    <3> QED
      BY <2>5, <2>6, FS_Bijection, Zenon DEF ExistsBijection
  <2> QED
    BY <2>7 DEF Rank
<1>3. \A n \in 1 .. d : Place(K, n) = f[n]
  <2> SUFFICES ASSUME NEW n \in 1 .. d PROVE Place(K, n) = f[n]
    OBVIOUS
  <2>1. f[n] \in K
    OBVIOUS
  <2> QED
    BY <1>2, <2>1, PlacesAre
<1>4. d = Cardinality(K)
  <2>1. f \in Bijection(1 .. d, K)
    <3>1. f \in Injection(1 .. d, K)
      BY <1>1, Zenon DEF Injection, IsInjective
    <3>2. f \in Surjection(1 .. d, K)
      BY Zenon DEF Surjection
    <3> QED
      BY <3>1, <3>2, Zenon DEF Bijection
  <2>2. IsFiniteSet(1 .. d) /\ Cardinality(1 .. d) = d
    BY FS_Interval
  <2> QED
    BY <2>1, <2>2, FS_Bijection, Zenon DEF ExistsBijection
<1> QED
  BY <1>3, <1>4

\* What is kept of a sequence are the elements at these positions, each once.
LEMMA KeptAre ==
  ASSUME NEW S, NEW s \in Seq(S), NEW K \in SUBSET (DOMAIN s)
  PROVE  /\ Kept(s, K) \in Seq(S)
         /\ Len(Kept(s, K)) = Cardinality(K)
         /\ DOMAIN Kept(s, K) = 1 .. Cardinality(K)
         /\ \A n \in 1 .. Cardinality(K) : Place(K, n) \in K /\ Kept(s, K)[n] = s[Place(K, n)]
         /\ \A i \in K : /\ Rank(K, i) \in 1 .. Cardinality(K)
                         /\ Kept(s, K)[Rank(K, i)] = s[i]
<1> DEFINE q == Kept(s, K)
           c == Cardinality(K)
<1>1. DOMAIN s = 1 .. Len(s) /\ Len(s) \in Nat
  OBVIOUS
<1>2. K \in SUBSET (1 .. Len(s))
  BY <1>1
<1>3. /\ c \in Nat
      /\ \A i \in K : Rank(K, i) \in 1 .. c
  BY <1>1, <1>2, RanksAre
<1>4. /\ \A n \in 1 .. c : Place(K, n) \in K
      /\ \A i \in K : Place(K, Rank(K, i)) = i
  BY <1>1, <1>2, PlacesAre
<1>5. q = [n \in 1 .. c |-> s[Place(K, n)]]
  BY KeptIs
<1>6. \A i \in K : s[i] \in S
  BY <1>1, <1>2
<1> HIDE DEF q, c
<1>7. q \in Seq(S) /\ Len(q) = c /\ DOMAIN q = 1 .. c
  <2>1. \A n \in 1 .. c : s[Place(K, n)] \in S
    BY <1>4, <1>6
  <2> QED
    BY <1>3, <1>5, <2>1
<1>8. \A n \in 1 .. c : q[n] = s[Place(K, n)]
  BY <1>5
<1>9. \A i \in K : q[Rank(K, i)] = s[i]
  BY <1>3, <1>4, <1>8
<1> QED
  BY <1>3, <1>4, <1>7, <1>8, <1>9 DEF q, c

\* Nothing changes when all are kept.
LEMMA AllPlaces ==
  ASSUME NEW d \in Nat
  PROVE  Cardinality(1 .. d) = d /\ \A n \in 1 .. d : Place(1 .. d, n) = n
<1>1. Cardinality(1 .. d) = d
  BY FS_Interval
<1>2. ASSUME NEW n \in 1 .. d PROVE Rank(1 .. d, n) = n
  <2>1. {j \in 1 .. d : j <= n} = 1 .. n /\ n \in Nat
    OBVIOUS
  <2>2. Cardinality(1 .. n) = n
    BY <2>1, FS_Interval
  <2> QED
    BY <2>1, <2>2 DEF Rank
<1>3. \A n \in 1 .. d : Place(1 .. d, Rank(1 .. d, n)) = n
  <2>1. 1 .. d \in SUBSET (1 .. d)
    OBVIOUS
  <2> QED
    BY <2>1, PlacesAre
<1> QED
  BY <1>1, <1>2, <1>3

\* What is kept everywhere is the sequence itself.
LEMMA AllKept ==
  ASSUME NEW S, NEW s \in Seq(S)
  PROVE  Kept(s, DOMAIN s) = s
<1>1. DOMAIN s = 1 .. Len(s) /\ Len(s) \in Nat
  OBVIOUS
<1>2. Kept(s, DOMAIN s) = [n \in 1 .. Cardinality(DOMAIN s) |-> s[Place(DOMAIN s, n)]]
  BY KeptIs
<1>3. Kept(s, DOMAIN s) = [n \in 1 .. Len(s) |-> s[n]]
  BY <1>1, <1>2, AllPlaces
<1> QED
  BY <1>3

\* Keeping some of what was kept.
LEMMA KeptTwice ==
  ASSUME NEW S, NEW s \in Seq(S), NEW A \in SUBSET (DOMAIN s),
         NEW C \in SUBSET A
  PROVE  Kept(Kept(s, A), {n \in DOMAIN Kept(s, A) : Place(A, n) \in C}) = Kept(s, C)
<1> DEFINE q == Kept(s, A)
           B == {n \in 1 .. Cardinality(A) : Place(A, n) \in C}
           f == [n \in 1 .. Cardinality(B) |-> Place(A, Place(B, n))]
<1>1. DOMAIN s = 1 .. Len(s) /\ Len(s) \in Nat
  OBVIOUS
<1>2. A \in SUBSET (1 .. Len(s)) /\ C \in SUBSET (1 .. Len(s))
  BY <1>1
<1>3. /\ Cardinality(A) \in Nat
      /\ \A i \in A : Rank(A, i) \in 1 .. Cardinality(A)
  BY <1>1, <1>2, RanksAre
<1>4. B \in SUBSET (1 .. Cardinality(A))
  OBVIOUS
<1>5. /\ Cardinality(B) \in Nat
      /\ \A i \in B : Rank(B, i) \in 1 .. Cardinality(B)
  BY <1>3, <1>4, RanksAre
<1>6. /\ \A n \in 1 .. Cardinality(A) : Place(A, n) \in A
      /\ \A i \in A : Place(A, Rank(A, i)) = i
      /\ \A m, n \in 1 .. Cardinality(A) : m < n => Place(A, m) < Place(A, n)
  BY <1>1, <1>2, PlacesAre
<1>7. /\ \A n \in 1 .. Cardinality(B) : Place(B, n) \in B
      /\ \A i \in B : Place(B, Rank(B, i)) = i
      /\ \A m, n \in 1 .. Cardinality(B) : m < n => Place(B, m) < Place(B, n)
  <2> HIDE DEF B
  <2> QED
    BY <1>3, <1>4, PlacesAre
<1>8. \A n \in B : n \in 1 .. Cardinality(A) /\ Place(A, n) \in C
  OBVIOUS
<1>9. \A i \in C : Rank(A, i) \in B
  <2> SUFFICES ASSUME NEW i \in C PROVE Rank(A, i) \in B
    OBVIOUS
  <2>1. i \in A
    OBVIOUS
  <2> QED
    BY <1>3, <1>6, <2>1
<1>10. q = [n \in 1 .. Cardinality(A) |-> s[Place(A, n)]]
  BY KeptIs
<1>11. Kept(q, B) = [n \in 1 .. Cardinality(B) |-> q[Place(B, n)]]
  BY KeptIs
<1>12. Kept(s, C) = [n \in 1 .. Cardinality(C) |-> s[Place(C, n)]]
  BY KeptIs
<1>13. DOMAIN q = 1 .. Cardinality(A)
  BY <1>10
<1> HIDE DEF q, B
<1>14. /\ f \in [1 .. Cardinality(B) -> C]
       /\ \A m, n \in 1 .. Cardinality(B) : m < n => f[m] < f[n]
       /\ \A i \in C : \E n \in 1 .. Cardinality(B) : f[n] = i
       /\ \A n \in 1 .. Cardinality(B) : f[n] = Place(A, Place(B, n))
  <2>1. f \in [1 .. Cardinality(B) -> C]
    BY <1>7, <1>8
  <2>2. \A n \in 1 .. Cardinality(B) : f[n] = Place(A, Place(B, n))
    OBVIOUS
  <2> HIDE DEF f
  <2>3. ASSUME NEW m \in 1 .. Cardinality(B), NEW n \in 1 .. Cardinality(B), m < n
        PROVE  f[m] < f[n]
    <3>1. Place(B, m) \in B /\ Place(B, n) \in B /\ Place(B, m) < Place(B, n)
      BY <1>7, <2>3
    <3>2. Place(A, Place(B, m)) < Place(A, Place(B, n))
      BY <1>6, <1>8, <3>1
    <3> QED
      BY <2>2, <3>2
  <2>4. ASSUME NEW i \in C PROVE \E n \in 1 .. Cardinality(B) : f[n] = i
    <3>1. Rank(A, i) \in B /\ i \in A
      BY <1>9
    <3>2. Rank(B, Rank(A, i)) \in 1 .. Cardinality(B)
      BY <1>5, <3>1
    <3>3. f[Rank(B, Rank(A, i))] = Place(A, Rank(A, i))
      BY <1>7, <2>2, <3>1, <3>2
    <3>4. Place(A, Rank(A, i)) = i
      BY <1>6, <3>1
    <3> QED
      BY <3>2, <3>3, <3>4
  <2> QED
    BY <2>1, <2>2, <2>3, <2>4
<1> HIDE DEF f
<1>15. Cardinality(B) = Cardinality(C) /\ \A n \in 1 .. Cardinality(B) : Place(C, n) = f[n]
  BY <1>1, <1>2, <1>5, <1>14, PlacesUnique
<1>16. Kept(q, B) = [n \in 1 .. Cardinality(C) |-> s[Place(C, n)]]
  <2>1. ASSUME NEW n \in 1 .. Cardinality(B) PROVE q[Place(B, n)] = s[Place(C, n)]
    <3>1. Place(B, n) \in 1 .. Cardinality(A)
      BY <1>7, <1>8
    <3>2. q[Place(B, n)] = s[Place(A, Place(B, n))]
      BY <1>10, <3>1
    <3> QED
      BY <1>14, <1>15, <3>2
  <2> QED
    BY <1>11, <1>15, <2>1
<1>17. {n \in DOMAIN q : Place(A, n) \in C} = B
  BY <1>13 DEF B
<1> QED
  BY <1>12, <1>16, <1>17 DEF q
-----------------------------------------------------------------------------
(* The invariant.                                                           *)

\* Ids that were not given yet are not defined, and whatever is used is.
Sound(r) ==
  /\ r \in Registries
  /\ \A k \in Kinds, i \in Ids :
       /\ IsFiniteSet(r.usage[k][i])
       /\ i > r.made => r.defs[k][i] = NoText
       /\ r.usage[k][i] # {} => r.defs[k][i] # NoText

Distinct(rows) == \A m, n \in DOMAIN rows : rows[m].id = rows[n].id => m = n

Pairs == [reg : Registries, ses : SessionStates]

\* What a handler of session s works on: the registry knows its rows.
Fits(p, s) ==
  /\ p \in Pairs /\ Sound(p.reg)
  /\ \A k \in Kinds :
       /\ Distinct(p.ses.rows[k])
       /\ \A i \in Ids : Uses(p.reg, k, i, s) <=> HasRow(p.ses, k, i)

Inv ==
  /\ FiltersConstants
  /\ open \in SUBSET Sessions
  /\ session \in [Sessions -> SessionStates]
  /\ Sound(registry)
  /\ \A s \in Sessions : Fits(Of(s), s)
  /\ \A s \in Sessions \ open : session[s] = NewSession
  /\ AskedIsEffective

-----------------------------------------------------------------------------
(* What the handlers are made of.                                           *)

\* There are two kinds, and each is the other's other one.
LEMMA KindsAre ==
  /\ Kinds = {"filter", "value"}
  /\ \A k \in Kinds : Other(k) \in Kinds /\ Other(k) # k
BY DEF Kinds, Other

\* What FiltersConstants says of the constants, and of the ids.
LEMMA ConstantsAre ==
  ASSUME FiltersConstants
  PROVE  /\ MaxDefs \in Nat /\ NoText \notin Texts /\ Charted \subseteq Texts
         /\ \A i \in Ids : i \in Nat /\ i > 0 /\ i <= MaxDefs
         /\ \A i \in Nat : i > 0 /\ i <= MaxDefs => i \in Ids
BY DEF FiltersConstants, RegistryConstants, Ids

\* The types of the parts of a pair on which a handler works.
LEMMA PairIs ==
  ASSUME NEW p \in Pairs
  PROVE  /\ p = [reg |-> p.reg, ses |-> p.ses]
         /\ p.reg \in Registries /\ p.ses \in SessionStates
         /\ \A k \in Kinds : /\ p.ses.rows[k] \in Seq(Rows)
                             /\ p.ses.asked[k] \in Seq(Texts)
         /\ p.ses.rows \in [Kinds -> Seq(Rows)]
         /\ p.ses.asked \in [Kinds -> Seq(Texts)]
         /\ p.ses.temp \in Texts \cup {NoText}
         /\ p.ses.bumped \in BOOLEAN /\ p.ses.due \in SUBSET Kinds
BY DEF Pairs, SessionStates

\* The types of the rows of a kind, and of their ids.
LEMMA RowsAre ==
  ASSUME NEW rows \in Seq(Rows)
  PROVE  /\ DOMAIN rows = 1 .. Len(rows) /\ Len(rows) \in Nat
         /\ \A n \in DOMAIN rows : /\ rows[n] \in Rows /\ rows[n].id \in Ids
                                   /\ rows[n].id \in IdsOf(rows)
                                   /\ rows[n].enabled \in BOOLEAN
         /\ IdsOf(rows) \subseteq Ids
         /\ \A i \in IdsOf(rows) : \E n \in DOMAIN rows : rows[n].id = i
<1>1. DOMAIN rows = 1 .. Len(rows) /\ Len(rows) \in Nat
  OBVIOUS
<1>2. \A n \in DOMAIN rows : rows[n] \in Rows
  BY <1>1
<1>3. \A n \in DOMAIN rows : rows[n].id \in Ids /\ rows[n].enabled \in BOOLEAN
  BY <1>2 DEF Rows
<1> QED
  BY <1>1, <1>2, <1>3 DEF IdsOf

\* The first row with an id is one with that id.
LEMMA FirstRowIs ==
  ASSUME NEW ses, NEW k, NEW i, ses.rows[k] \in Seq(Rows), HasRow(ses, k, i)
  PROVE  /\ FirstRow(ses, k, i) \in DOMAIN ses.rows[k]
         /\ ses.rows[k][FirstRow(ses, k, i)].id = i
<1> DEFINE rows == ses.rows[k]
           I == {n \in 1 .. Len(rows) : rows[n].id = i}
<1>1. I \in SUBSET Nat /\ I # {}
  BY RowsAre DEF HasRow
<1>2. FirstRow(ses, k, i) = CHOOSE x \in I : \A y \in I : x <= y
  BY <1>1, Zenon DEF FirstRow, SelectInSeq, Min
<1> HIDE DEF I
<1>3. \E x \in I : \A y \in I : x <= y
  BY <1>1, SmallestIsThere
<1>4. FirstRow(ses, k, i) \in I
  BY <1>2, <1>3
<1> QED
  BY <1>4, RowsAre DEF I

\* Definitions stay, and more are made.
Extends(r, q) ==
  \A k \in Kinds : \A i \in Defined(r, k) : q.defs[k][i] = r.defs[k][i]

\* add_filter: only definitions are added, and the id that is returned has
\* the text.
LEMMA AddedIs ==
  ASSUME FiltersConstants, NEW r, Sound(r), NEW k \in Kinds, NEW t \in Texts,
         NEW a \in Added(r, k, t)
  PROVE  /\ a = [reg |-> a.reg, id |-> a.id]
         /\ Sound(a.reg) /\ a.reg.usage = r.usage /\ Extends(r, a.reg)
         /\ a.id \in Ids /\ a.reg.defs[k][a.id] = t /\ a.id \in Defined(a.reg, k)
         /\ a.id \in Defined(r, k) => a.reg = r
<1>0. t # NoText
  BY ConstantsAre
<1>1. CASE Same(r, k, t) # {}
  <2>1. PICK i \in Same(r, k, t) : a = [reg |-> r, id |-> i]
    BY <1>1 DEF Added
  <2> QED
    BY <1>0, <2>1 DEF Same, Extends, Defined
<1>2. CASE Same(r, k, t) = {}
  <2>1. r.made < MaxDefs /\ a = [reg |-> Created(r, k, t), id |-> r.made + 1]
    BY <1>2 DEF Added
  <2> DEFINE n == r.made + 1
             q == Created(r, k, t)
  <2>2. /\ r.made \in 0 .. MaxDefs /\ MaxDefs \in Nat
        /\ r.defs \in [Kinds -> [Ids -> Texts \cup {NoText}]]
        /\ r.usage \in [Kinds -> [Ids -> SUBSET Sessions]]
    BY ConstantsAre DEF Sound, Registries
  <2>3. n \in Ids /\ n > r.made /\ n \in 0 .. MaxDefs /\ n \in Nat /\ r.made \in Nat
    BY <2>1, <2>2 DEF Ids
  <2>4. /\ q \in Registries /\ q.made = n /\ q.usage = r.usage
        /\ q.defs = [r.defs EXCEPT ![k][n] = t]
    <3>1. r \in Registries
      BY DEF Sound
    <3> QED
      BY <2>3, <3>1 DEF Created, Registries
  <2>5. r.defs[k][n] = NoText
    BY <2>3 DEF Sound
  <2> HIDE DEF n
  <2> DEFINE d == [r.defs EXCEPT ![k][n] = t]
  <2>6. /\ d \in [Kinds -> [Ids -> Texts \cup {NoText}]] /\ d[k][n] = t
        /\ \A kk \in Kinds, i \in Ids : kk # k \/ i # n => d[kk][i] = r.defs[kk][i]
    BY <2>2, <2>3
  <2>7. q.made = n /\ q.defs = d /\ q.usage = r.usage
    BY <2>4
  <2>8. q \in Registries
    BY <2>4
  <2> HIDE DEF d, q
  <2>9. \A kk \in Kinds, i \in Ids : r.defs[kk][i] # NoText => d[kk][i] = r.defs[kk][i]
    BY <2>5, <2>6
  <2>10. \A kk \in Kinds, i \in Ids : i > n => d[kk][i] = NoText
    <3> SUFFICES ASSUME NEW kk \in Kinds, NEW i \in Ids, i > n PROVE d[kk][i] = NoText
      OBVIOUS
    <3>1. i \in Nat /\ i # n /\ i > r.made
      BY <2>3, ConstantsAre
    <3> QED
      BY <2>6, <3>1 DEF Sound
  <2>11. Sound(q)
    BY <2>7, <2>8, <2>9, <2>10 DEF Sound
  <2>12. Extends(r, q)
    BY <2>7, <2>9 DEF Extends, Defined
  <2>13. n \in Defined(q, k) /\ n \notin Defined(r, k)
    BY <1>0, <2>3, <2>5, <2>6, <2>7 DEF Defined
  <2>14. a = [reg |-> q, id |-> n]
    BY <2>1 DEF n, q
  <2> QED
    BY <2>3, <2>6, <2>7, <2>11, <2>12, <2>13, <2>14
<1> QED
  BY <1>1, <1>2

-----------------------------------------------------------------------------
(* What a handler of session s may do on its way from p to q.               *)

\* What the others use they still use, and it is what it was.
Others(r, q, s) ==
  \A t \in Sessions \ {s}, k \in Kinds, i \in Ids :
    /\ t \in q.usage[k][i] <=> t \in r.usage[k][i]
    /\ t \in r.usage[k][i] => q.defs[k][i] = r.defs[k][i]

SameKind(p, q, k) ==
  /\ q.ses.rows[k] = p.ses.rows[k]
  /\ \A i \in IdsOf(p.ses.rows[k]) : q.reg.defs[k][i] = p.reg.defs[k][i]

\* Rows of the kinds K are changed, which is noted; nothing is asked for.
Leads(p, q, s, K) ==
  /\ Fits(q, s) /\ Others(p.reg, q.reg, s)
  /\ q.ses.temp = p.ses.temp /\ q.ses.asked = p.ses.asked /\ q.ses.due = p.ses.due
  /\ p.ses.bumped => q.ses.bumped
  /\ \A k \in Kinds : SameKind(p, q, k) \/ (k \in K /\ q.ses.bumped)

\* Two changes of a handler, one after the other.
LEMMA LeadsOn ==
  ASSUME NEW s, NEW p, NEW q, NEW u, NEW K, NEW L,
         Leads(p, q, s, K), Leads(q, u, s, L)
  PROVE  Leads(p, u, s, K \cup L)
<1>1. Others(p.reg, u.reg, s)
  BY DEF Leads, Others
<1>2. \A k \in Kinds : SameKind(p, u, k) \/ (k \in K \cup L /\ u.ses.bumped)
  BY DEF Leads, SameKind
<1> QED
  BY <1>1, <1>2 DEF Leads

\* A handler that changes nothing.
LEMMA LeadsNowhere ==
  ASSUME NEW s, NEW p, Fits(p, s), NEW K
  PROVE  Leads(p, p, s, K)
BY DEF Leads, Others, SameKind

\* A definition is looked up or made.
LEMMA AddLeads ==
  ASSUME FiltersConstants, NEW s \in Sessions, NEW p, Fits(p, s), NEW k \in Kinds,
         NEW t \in Texts, NEW a \in Added(p.reg, k, t)
  PROVE  Leads(p, [p EXCEPT !.reg = a.reg], s, {})
<1> DEFINE q == [p EXCEPT !.reg = a.reg]
<1>1. p \in Pairs /\ Sound(p.reg)
  BY DEF Fits
<1>2. /\ Sound(a.reg) /\ a.reg.usage = p.reg.usage /\ Extends(p.reg, a.reg)
  BY <1>1, AddedIs
<1>3. q \in Pairs /\ q.reg = a.reg /\ q.ses = p.ses
  BY <1>1, <1>2 DEF Pairs, Sound
<1> HIDE DEF q
<1>4. Fits(q, s)
  BY <1>2, <1>3 DEF Fits, Uses
<1>5. \A kk \in Kinds, i \in Ids : p.reg.usage[kk][i] # {} => a.reg.defs[kk][i] = p.reg.defs[kk][i]
  BY <1>1, <1>2 DEF Sound, Extends, Defined
<1>6. Others(p.reg, q.reg, s)
  BY <1>2, <1>3, <1>5 DEF Others
<1>7. \A kk \in Kinds : SameKind(p, q, kk)
  <2> SUFFICES ASSUME NEW kk \in Kinds, NEW i \in IdsOf(p.ses.rows[kk])
               PROVE  a.reg.defs[kk][i] = p.reg.defs[kk][i]
    BY <1>3 DEF SameKind
  <2>1. i \in Ids
    BY <1>1, PairIs, RowsAre
  <2>2. s \in p.reg.usage[kk][i]
    BY <2>1 DEF Fits, Uses, HasRow
  <2> QED
    BY <1>5, <2>1, <2>2
<1> QED
  BY <1>3, <1>4, <1>6, <1>7 DEF Leads, q

\* The rows of one kind are changed, the registry in step with them, and noted.
ChangesKind(p, q, s, k) ==
  /\ q \in Pairs /\ Sound(q.reg)
  /\ \A kk \in Kinds : kk # k => q.ses.rows[kk] = p.ses.rows[kk]
  /\ \A kk \in Kinds, i \in Ids : kk # k =>
       q.reg.defs[kk][i] = p.reg.defs[kk][i] /\ q.reg.usage[kk][i] = p.reg.usage[kk][i]
  /\ \A i \in Ids : /\ q.reg.usage[k][i] \ {s} = p.reg.usage[k][i] \ {s}
                    /\ p.reg.usage[k][i] \ {s} # {} => q.reg.defs[k][i] = p.reg.defs[k][i]
  /\ Distinct(q.ses.rows[k])
  /\ \A i \in Ids : Uses(q.reg, k, i, s) <=> HasRow(q.ses, k, i)
  /\ q.ses.temp = p.ses.temp /\ q.ses.asked = p.ses.asked /\ q.ses.due = p.ses.due
  /\ q.ses.bumped \/ (q.ses.bumped = p.ses.bumped /\ SameKind(p, q, k))

\* ChangesKind, from its parts.
LEMMA ChangesKindIf ==
  ASSUME NEW p, NEW q, NEW s, NEW k, q \in Pairs, Sound(q.reg),
         \A kk \in Kinds : kk # k => q.ses.rows[kk] = p.ses.rows[kk],
         \A kk \in Kinds, i \in Ids : kk # k =>
           q.reg.defs[kk][i] = p.reg.defs[kk][i] /\ q.reg.usage[kk][i] = p.reg.usage[kk][i],
         \A i \in Ids :
           /\ q.reg.usage[k][i] \ {s} = p.reg.usage[k][i] \ {s}
           /\ p.reg.usage[k][i] \ {s} # {} => q.reg.defs[k][i] = p.reg.defs[k][i],
         Distinct(q.ses.rows[k]),
         \A i \in Ids : Uses(q.reg, k, i, s) <=> HasRow(q.ses, k, i),
         q.ses.temp = p.ses.temp /\ q.ses.asked = p.ses.asked /\ q.ses.due = p.ses.due,
         q.ses.bumped \/ (q.ses.bumped = p.ses.bumped /\ SameKind(p, q, k))
  PROVE  ChangesKind(p, q, s, k)
BY DEF ChangesKind

\* A change of one kind that is sound there is one that a handler may make.
LEMMA KindLeads ==
  ASSUME NEW s \in Sessions, NEW p, Fits(p, s), NEW k \in Kinds, NEW q,
         ChangesKind(p, q, s, k)
  PROVE  Leads(p, q, s, {k})
<1>0. /\ q \in Pairs /\ Sound(q.reg)
      /\ \A kk \in Kinds : kk # k => q.ses.rows[kk] = p.ses.rows[kk]
      /\ \A kk \in Kinds, i \in Ids : kk # k =>
           q.reg.defs[kk][i] = p.reg.defs[kk][i] /\ q.reg.usage[kk][i] = p.reg.usage[kk][i]
      /\ \A i \in Ids : /\ q.reg.usage[k][i] \ {s} = p.reg.usage[k][i] \ {s}
                        /\ p.reg.usage[k][i] \ {s} # {} => q.reg.defs[k][i] = p.reg.defs[k][i]
      /\ Distinct(q.ses.rows[k])
      /\ \A i \in Ids : Uses(q.reg, k, i, s) <=> HasRow(q.ses, k, i)
      /\ q.ses.temp = p.ses.temp /\ q.ses.asked = p.ses.asked /\ q.ses.due = p.ses.due
      /\ q.ses.bumped \/ (q.ses.bumped = p.ses.bumped /\ SameKind(p, q, k))
  BY DEF ChangesKind
<1>1. Fits(q, s)
  <2> SUFFICES ASSUME NEW kk \in Kinds
               PROVE  /\ Distinct(q.ses.rows[kk])
                      /\ \A i \in Ids : Uses(q.reg, kk, i, s) <=> HasRow(q.ses, kk, i)
    BY <1>0 DEF Fits
  <2>1. CASE kk = k
    BY <1>0, <2>1
  <2>2. CASE kk # k
    BY <1>0, <2>2 DEF Fits, Uses, HasRow
  <2> QED
    BY <2>1, <2>2
<1>2. Others(p.reg, q.reg, s)
  <2> SUFFICES ASSUME NEW t \in Sessions \ {s}, NEW kk \in Kinds, NEW i \in Ids
               PROVE  /\ t \in q.reg.usage[kk][i] <=> t \in p.reg.usage[kk][i]
                      /\ t \in p.reg.usage[kk][i] => q.reg.defs[kk][i] = p.reg.defs[kk][i]
    BY DEF Others
  <2>1. CASE kk = k
    BY <1>0, <2>1
  <2>2. CASE kk # k
    BY <1>0, <2>2
  <2> QED
    BY <2>1, <2>2
<1>3. \A kk \in Kinds : kk # k => SameKind(p, q, kk)
  <2> SUFFICES ASSUME NEW kk \in Kinds, kk # k, NEW i \in IdsOf(p.ses.rows[kk])
               PROVE  q.reg.defs[kk][i] = p.reg.defs[kk][i]
    BY <1>0 DEF SameKind
  <2>1. i \in Ids
    BY PairIs, RowsAre DEF Fits
  <2> QED
    BY <1>0, <2>1
<1>4. p.ses.bumped => q.ses.bumped
  BY <1>0, PairIs DEF Fits
<1> QED
  BY <1>0, <1>1, <1>2, <1>3, <1>4 DEF Leads

\* Rows are changed and keep their ids; the registry is left alone.
LEMMA RowsLead ==
  ASSUME FiltersConstants, NEW s \in Sessions, NEW p, Fits(p, s), NEW k \in Kinds,
         NEW rows \in Seq(Rows), Distinct(rows),
         IdsOf(rows) = IdsOf(p.ses.rows[k])
  PROVE  Leads(p, [p EXCEPT !.ses = [p.ses EXCEPT !.rows[k] = rows, !.bumped = TRUE]], s, {k})
<1> DEFINE ses == [p.ses EXCEPT !.rows[k] = rows, !.bumped = TRUE]
           q == [p EXCEPT !.ses = ses]
<1>1. p \in Pairs /\ Sound(p.reg)
  BY DEF Fits
<1>2. p.ses \in SessionStates
  BY <1>1, PairIs
<1>3. /\ ses \in SessionStates
      /\ ses.rows = [p.ses.rows EXCEPT ![k] = rows] /\ ses.bumped = TRUE
      /\ ses.temp = p.ses.temp /\ ses.asked = p.ses.asked /\ ses.due = p.ses.due
  BY <1>2 DEF SessionStates
<1>4. /\ ses.rows[k] = rows
      /\ \A kk \in Kinds : kk # k => ses.rows[kk] = p.ses.rows[kk]
  BY <1>1, <1>3, PairIs
<1> HIDE DEF ses
<1>5. q \in Pairs /\ q.reg = p.reg /\ q.ses = ses
  BY <1>1, <1>3 DEF Pairs
<1> HIDE DEF q
<1>6. \A i \in Ids : Uses(q.reg, k, i, s) <=> HasRow(q.ses, k, i)
  BY <1>4, <1>5 DEF Fits, HasRow
<1>7. ChangesKind(p, q, s, k)
  BY <1>1, <1>3, <1>4, <1>5, <1>6 DEF ChangesKind
<1>8. Leads(p, q, s, {k})
  BY <1>7, KindLeads
<1> QED
  BY <1>8 DEF q, ses

\* set_filter_enabled
LEMMA EnabledLeads ==
  ASSUME FiltersConstants, NEW s \in Sessions, NEW p, Fits(p, s), NEW k \in Kinds,
         NEW i, NEW e \in BOOLEAN
  PROVE  Leads(p, [p EXCEPT !.ses = SetEnabled(p.ses, k, i, e)], s, {k})
<1>0. p \in Pairs /\ p.ses.rows[k] \in Seq(Rows) /\ Distinct(p.ses.rows[k])
  BY PairIs DEF Fits
<1>1. CASE ~(HasRow(p.ses, k, i) /\ IsEnabled(p.ses, k, i) # e)
  <2>1. SetEnabled(p.ses, k, i, e) = p.ses
    BY <1>1 DEF SetEnabled
  <2>2. [p EXCEPT !.ses = p.ses] = p
    BY <1>0 DEF Pairs
  <2> QED
    BY <2>1, <2>2, LeadsNowhere
<1>2. CASE HasRow(p.ses, k, i) /\ IsEnabled(p.ses, k, i) # e
  <2> DEFINE old == p.ses.rows[k]
             n == FirstRow(p.ses, k, i)
             rows == [old EXCEPT ![n].enabled = e]
  <2>1. n \in DOMAIN old
    BY <1>0, <1>2, FirstRowIs
  <2>2. SetEnabled(p.ses, k, i, e) = [p.ses EXCEPT !.rows[k] = rows, !.bumped = TRUE]
    BY <1>2 DEF SetEnabled
  <2> HIDE DEF n
  <2>3. /\ rows \in Seq(Rows) /\ DOMAIN rows = DOMAIN old
        /\ \A m \in DOMAIN old : rows[m].id = old[m].id
    <3>1. \A m \in DOMAIN old : old[m] \in Rows
      BY <1>0, RowsAre
    <3>2. [old[n] EXCEPT !.enabled = e] \in Rows /\ [old[n] EXCEPT !.enabled = e].id = old[n].id
      BY <2>1, <3>1 DEF Rows
    <3> QED
      BY <1>0, <2>1, <3>1, <3>2
  <2> HIDE DEF rows
  <2>4. Distinct(rows) /\ IdsOf(rows) = IdsOf(old)
    BY <1>0, <2>3 DEF Distinct, IdsOf
  <2>5. Leads(p, [p EXCEPT !.ses = [p.ses EXCEPT !.rows[k] = rows, !.bumped = TRUE]], s, {k})
    BY <2>3, <2>4, RowsLead
  <2> QED
    BY <2>2, <2>5
<1> QED
  BY <1>1, <1>2

\* apply_filter_with_state
LEMMA WithRowLeads ==
  ASSUME FiltersConstants, NEW s \in Sessions, NEW p, Fits(p, s), NEW k \in Kinds,
         NEW i \in Defined(p.reg, k), NEW e \in BOOLEAN
  PROVE  /\ Leads(p, WithRow(p, s, k, i, e), s, {k})
         /\ WithRow(p, s, k, i, e).reg.defs = p.reg.defs
<1>0. /\ p \in Pairs /\ p.ses.rows[k] \in Seq(Rows) /\ Distinct(p.ses.rows[k])
      /\ p.ses \in SessionStates /\ Sound(p.reg) /\ i \in Ids /\ p.reg.defs[k][i] # NoText
  BY PairIs DEF Fits, Defined
<1>1. CASE HasRow(p.ses, k, i)
  <2>1. WithRow(p, s, k, i, e) = [p EXCEPT !.ses = SetEnabled(p.ses, k, i, e)]
    BY <1>1 DEF WithRow
  <2>2. [p EXCEPT !.ses = SetEnabled(p.ses, k, i, e)].reg = p.reg
    BY <1>0 DEF Pairs
  <2> QED
    BY <2>1, <2>2, EnabledLeads
<1>2. CASE ~HasRow(p.ses, k, i)
  <2> DEFINE old == p.ses.rows[k]
             row == [id |-> i, enabled |-> e]
             rows == Append(old, row)
             ses == [p.ses EXCEPT !.rows[k] = rows, !.bumped = TRUE]
             reg == Applied(p.reg, k, i, s)
             q == [reg |-> reg, ses |-> ses]
  <2>1. WithRow(p, s, k, i, e) = q
    BY <1>2 DEF WithRow
  <2>2. /\ rows \in Seq(Rows) /\ DOMAIN rows = 1 .. Len(old) + 1 /\ rows[Len(old) + 1] = row
        /\ \A m \in DOMAIN old : m \in DOMAIN rows /\ rows[m] = old[m]
        /\ DOMAIN old = 1 .. Len(old) /\ Len(old) \in Nat
    <3>1. row \in Rows
      BY <1>0 DEF Rows
    <3> QED
      BY <1>0, <3>1
  <2> HIDE DEF rows
  <2>3. \A m \in DOMAIN rows : m \in DOMAIN old \/ m = Len(old) + 1
    BY <2>2
  <2>4. IdsOf(rows) = IdsOf(old) \cup {i}
    <3>1. \A m \in DOMAIN rows : rows[m].id \in IdsOf(old) \cup {i}
      BY <2>2, <2>3 DEF IdsOf
    <3>2. \A j \in IdsOf(old) \cup {i} : \E m \in DOMAIN rows : rows[m].id = j
      <4>1. Len(old) + 1 \in DOMAIN rows /\ rows[Len(old) + 1].id = i
        BY <2>2
      <4>2. \A j \in IdsOf(old) : \E m \in DOMAIN old : old[m].id = j
        BY DEF IdsOf
      <4> QED
        BY <2>2, <4>1, <4>2
    <3> QED
      BY <3>1, <3>2 DEF IdsOf
  <2>5. Distinct(rows)
    <3>1. \A m \in DOMAIN old : old[m].id # i
      BY <1>2 DEF HasRow, IdsOf
    <3> SUFFICES ASSUME NEW m \in DOMAIN rows, NEW n \in DOMAIN rows, rows[m].id = rows[n].id
                 PROVE  m = n
      BY DEF Distinct
    <3>2. CASE m \in DOMAIN old /\ n \in DOMAIN old
      BY <1>0, <2>2, <3>2 DEF Distinct
    <3>3. CASE m \in DOMAIN old /\ n \notin DOMAIN old
      BY <2>2, <2>3, <3>1, <3>3
    <3>4. CASE m \notin DOMAIN old /\ n \in DOMAIN old
      BY <2>2, <2>3, <3>1, <3>4
    <3>5. CASE m \notin DOMAIN old /\ n \notin DOMAIN old
      BY <2>3, <3>5
    <3> QED
      BY <3>2, <3>3, <3>4, <3>5
  <2>6. /\ ses \in SessionStates
        /\ ses.rows = [p.ses.rows EXCEPT ![k] = rows] /\ ses.bumped = TRUE
        /\ ses.temp = p.ses.temp /\ ses.asked = p.ses.asked /\ ses.due = p.ses.due
    BY <1>0, <2>2 DEF SessionStates
  <2>7. /\ ses.rows[k] = rows
        /\ \A kk \in Kinds : kk # k => ses.rows[kk] = p.ses.rows[kk]
    BY <1>0, <2>6, PairIs
  <2>8. /\ reg \in Registries /\ reg.defs = p.reg.defs /\ reg.made = p.reg.made
        /\ reg.usage = [p.reg.usage EXCEPT ![k][i] = p.reg.usage[k][i] \cup {s}]
    <3>1. p.reg \in Registries
      BY <1>0 DEF Sound
    <3>2. p.reg.usage[k][i] \cup {s} \in SUBSET Sessions
      BY <1>0, <3>1 DEF Registries
    <3>3. reg = [p.reg EXCEPT !.usage[k][i] = p.reg.usage[k][i] \cup {s}]
      BY DEF Applied
    <3>4. [p.reg.usage EXCEPT ![k][i] = p.reg.usage[k][i] \cup {s}]
            \in [Kinds -> [Ids -> SUBSET Sessions]]
      BY <1>0, <3>1, <3>2 DEF Registries
    <3> QED
      BY <3>1, <3>3, <3>4 DEF Registries
  <2>9. /\ \A kk \in Kinds, j \in Ids : kk # k \/ j # i => reg.usage[kk][j] = p.reg.usage[kk][j]
        /\ reg.usage[k][i] = p.reg.usage[k][i] \cup {s}
    <3>1. p.reg.usage \in [Kinds -> [Ids -> SUBSET Sessions]]
      BY <1>0 DEF Sound, Registries
    <3> QED
      BY <1>0, <2>8, <3>1
  <2> HIDE DEF ses, reg
  <2>10. Sound(reg)
    <3>1. IsFiniteSet(p.reg.usage[k][i] \cup {s})
      BY <1>0, FS_AddElement DEF Sound
    <3> SUFFICES ASSUME NEW kk \in Kinds, NEW j \in Ids
                 PROVE  /\ IsFiniteSet(reg.usage[kk][j])
                        /\ j > reg.made => reg.defs[kk][j] = NoText
                        /\ reg.usage[kk][j] # {} => reg.defs[kk][j] # NoText
      BY <2>8 DEF Sound
    <3>2. CASE kk = k /\ j = i
      BY <1>0, <2>8, <2>9, <3>1, <3>2 DEF Sound
    <3>3. CASE kk # k \/ j # i
      BY <1>0, <2>8, <2>9, <3>3 DEF Sound
    <3> QED
      BY <3>2, <3>3
  <2>11. q \in Pairs /\ q.reg = reg /\ q.ses = ses
    BY <2>6, <2>8 DEF Pairs
  <2> HIDE DEF q
  <2>12. \A j \in Ids : Uses(q.reg, k, j, s) <=> HasRow(q.ses, k, j)
    <3> SUFFICES ASSUME NEW j \in Ids PROVE s \in reg.usage[k][j] <=> j \in IdsOf(rows)
      BY <2>7, <2>11 DEF Uses, HasRow
    <3>1. s \in p.reg.usage[k][j] <=> j \in IdsOf(old)
      BY DEF Fits, Uses, HasRow
    <3>2. CASE j = i
      BY <2>4, <2>9, <3>2
    <3>3. CASE j # i
      BY <2>4, <2>9, <3>1, <3>3
    <3> QED
      BY <3>2, <3>3
  <2>13. \A j \in Ids : reg.usage[k][j] \ {s} = p.reg.usage[k][j] \ {s}
    <3> SUFFICES ASSUME NEW j \in Ids PROVE reg.usage[k][j] \ {s} = p.reg.usage[k][j] \ {s}
      OBVIOUS
    <3>1. CASE j = i
      BY <2>9, <3>1
    <3>2. CASE j # i
      BY <2>9, <3>2
    <3> QED
      BY <3>1, <3>2
  <2>14. Leads(p, q, s, {k})
    <3>1. \A kk \in Kinds, j \in Ids : kk # k =>
            q.reg.defs[kk][j] = p.reg.defs[kk][j] /\ q.reg.usage[kk][j] = p.reg.usage[kk][j]
      BY <2>8, <2>9, <2>11
    <3>2. \A j \in Ids : /\ q.reg.usage[k][j] \ {s} = p.reg.usage[k][j] \ {s}
                         /\ p.reg.usage[k][j] \ {s} # {} => q.reg.defs[k][j] = p.reg.defs[k][j]
      BY <2>8, <2>11, <2>13
    <3>3. Sound(q.reg) /\ Distinct(q.ses.rows[k]) /\ q.ses.bumped
      BY <2>5, <2>6, <2>7, <2>10, <2>11
    <3>4. /\ \A kk \in Kinds : kk # k => q.ses.rows[kk] = p.ses.rows[kk]
          /\ q.ses.temp = p.ses.temp /\ q.ses.asked = p.ses.asked /\ q.ses.due = p.ses.due
      BY <2>6, <2>7, <2>11
    <3>5. q \in Pairs
      BY <2>11
    <3>6. q.ses.bumped \/ (q.ses.bumped = p.ses.bumped /\ SameKind(p, q, k))
      BY <3>3
    <3>7. ChangesKind(p, q, s, k)
      BY <2>12, <3>1, <3>2, <3>3, <3>4, <3>5, <3>6, ChangesKindIf, Zenon
    <3> QED
      BY <3>7, KindLeads
  <2> QED
    BY <2>1, <2>8, <2>11, <2>14
<1> QED
  BY <1>1, <1>2

-----------------------------------------------------------------------------
(* Rows that are moved, left out, or bound to another definition.           *)

\* A sequence without one of its elements.
LEMMA RemoveAtIs ==
  ASSUME NEW S, NEW s \in Seq(S), NEW n \in 1 .. Len(s)
  PROVE  /\ RemoveAt(s, n) \in Seq(S) /\ Len(RemoveAt(s, n)) = Len(s) - 1
         /\ \A j \in 1 .. Len(s) - 1 :
              RemoveAt(s, n)[j] = s[IF j < n THEN j ELSE j + 1]
<1> DEFINE a == SubSeq(s, 1, n - 1)
           b == SubSeq(s, n + 1, Len(s))
<1>1. n \in Nat /\ Len(s) \in Nat /\ n >= 1 /\ n <= Len(s)
  OBVIOUS
<1>2. a \in Seq(S) /\ Len(a) = n - 1 /\ \A j \in 1 .. n - 1 : a[j] = s[j]
  BY <1>1
<1>3. b \in Seq(S) /\ Len(b) = Len(s) - n /\ \A j \in 1 .. Len(s) - n : b[j] = s[n + j]
  BY <1>1
<1>4. RemoveAt(s, n) = a \o b
  BY DEF RemoveAt
<1> HIDE DEF a, b
<1>5. /\ a \o b \in Seq(S) /\ Len(a \o b) = Len(s) - 1
      /\ \A j \in 1 .. Len(s) - 1 : (a \o b)[j] = IF j < n THEN a[j] ELSE b[j - (n - 1)]
  <2>1. Len(a) + Len(b) = Len(s) - 1 /\ Len(a) = n - 1
    BY <1>1, <1>2, <1>3
  <2>2. /\ a \o b \in Seq(S) /\ Len(a \o b) = Len(s) - 1
        /\ \A j \in 1 .. Len(s) - 1 : (a \o b)[j] = IF j <= n - 1 THEN a[j] ELSE b[j - (n - 1)]
    <3>1. /\ a \o b \in Seq(S) /\ Len(a \o b) = Len(a) + Len(b)
          /\ \A j \in 1 .. Len(a) + Len(b) :
               (a \o b)[j] = IF j <= Len(a) THEN a[j] ELSE b[j - Len(a)]
      BY <1>2, <1>3, ConcatProperties, Zenon
    <3> QED
      BY <2>1, <3>1
  <2>3. \A j \in 1 .. Len(s) - 1 : j <= n - 1 <=> j < n
    BY <1>1
  <2> QED
    BY <2>2, <2>3
<1>6. ASSUME NEW j \in 1 .. Len(s) - 1
      PROVE  (a \o b)[j] = s[IF j < n THEN j ELSE j + 1]
  <2>1. CASE j < n
    BY <1>1, <1>2, <1>5, <2>1
  <2>2. CASE ~(j < n)
    <3>1. j - (n - 1) \in 1 .. Len(s) - n /\ n + (j - (n - 1)) = j + 1
      BY <1>1, <2>2
    <3> QED
      BY <1>3, <1>5, <2>2, <3>1
  <2> QED
    BY <2>1, <2>2
<1> QED
  BY <1>4, <1>5, <1>6

\* A sequence with one more element.
LEMMA InsertAtIs ==
  ASSUME NEW S, NEW s \in Seq(S), NEW n \in 1 .. Len(s) + 1, NEW e \in S
  PROVE  /\ InsertAt(s, n, e) \in Seq(S) /\ Len(InsertAt(s, n, e)) = Len(s) + 1
         /\ \A j \in 1 .. Len(s) + 1 :
              InsertAt(s, n, e)[j] = IF j < n THEN s[j] ELSE IF j = n THEN e ELSE s[j - 1]
<1> DEFINE a == SubSeq(s, 1, n - 1)
           b == SubSeq(s, n, Len(s))
           c == a \o <<e>>
<1>1. n \in Nat /\ Len(s) \in Nat /\ n >= 1 /\ n <= Len(s) + 1
  OBVIOUS
<1>2. a \in Seq(S) /\ Len(a) = n - 1 /\ \A j \in 1 .. n - 1 : a[j] = s[j]
  BY <1>1
<1>3. /\ b \in Seq(S) /\ Len(b) = Len(s) + 1 - n
      /\ \A j \in 1 .. Len(s) + 1 - n : b[j] = s[n - 1 + j]
  BY <1>1
<1>4. InsertAt(s, n, e) = c \o b
  BY DEF InsertAt
<1> HIDE DEF a, b
<1>5. /\ c \in Seq(S) /\ Len(c) = n
      /\ \A j \in 1 .. n : c[j] = IF j < n THEN a[j] ELSE e
  BY <1>1, <1>2
<1> HIDE DEF c
<1>6. /\ c \o b \in Seq(S) /\ Len(c \o b) = Len(s) + 1
      /\ \A j \in 1 .. Len(s) + 1 : (c \o b)[j] = IF j <= n THEN c[j] ELSE b[j - n]
  <2>1. Len(c) + Len(b) = Len(s) + 1 /\ Len(c) = n
    BY <1>1, <1>3, <1>5
  <2> QED
    BY <1>3, <1>5, <2>1, ConcatProperties
<1>7. ASSUME NEW j \in 1 .. Len(s) + 1
      PROVE  (c \o b)[j] = IF j < n THEN s[j] ELSE IF j = n THEN e ELSE s[j - 1]
  <2>1. CASE j < n
    BY <1>1, <1>2, <1>5, <1>6, <2>1
  <2>2. CASE j = n
    BY <1>1, <1>5, <1>6, <2>2
  <2>3. CASE j > n
    <3>1. j - n \in 1 .. Len(s) + 1 - n /\ n - 1 + (j - n) = j - 1
      BY <1>1, <2>3
    <3> QED
      BY <1>1, <1>3, <1>6, <2>3, <3>1
  <2>4. j < n \/ j = n \/ j > n
    <3>1. j \in Nat
      OBVIOUS
    <3> QED
      BY <1>1, <3>1
  <2> QED
    BY <2>1, <2>2, <2>3, <2>4
<1> QED
  BY <1>4, <1>6, <1>7

\* Where the rows of a list were before one of them was moved from n to m.
Before(n, m, j) ==
  IF j = m THEN n
  ELSE LET i == IF j < m THEN j ELSE j - 1 IN IF i < n THEN i ELSE i + 1

\* move_entry loses no row and doubles none.
LEMMA MovedAre ==
  ASSUME NEW rows \in Seq(Rows), Distinct(rows), NEW n \in DOMAIN rows,
         NEW slot \in 1 .. Len(rows) + 1
  PROVE  /\ Moved(rows, n, slot) \in Seq(Rows)
         /\ Distinct(Moved(rows, n, slot))
         /\ IdsOf(Moved(rows, n, slot)) = IdsOf(rows)
<1> DEFINE c == Len(rows)
           m == IF slot > n THEN slot - 1 ELSE slot
           t == RemoveAt(rows, n)
           q == Moved(rows, n, slot)
<1>1. n \in 1 .. c /\ n \in Nat /\ c \in Nat /\ slot \in Nat /\ m \in 1 .. c /\ m \in Nat
      /\ DOMAIN rows = 1 .. c /\ rows[n] \in Rows
  OBVIOUS
<1>2. /\ t \in Seq(Rows) /\ Len(t) = c - 1
      /\ \A j \in 1 .. c - 1 : t[j] = rows[IF j < n THEN j ELSE j + 1]
  BY <1>1, RemoveAtIs
<1>3. q = InsertAt(t, m, rows[n])
  BY DEF Moved
<1> HIDE DEF t, q, m, c
<1>4. /\ q \in Seq(Rows) /\ Len(q) = c
      /\ \A j \in 1 .. c : q[j] = IF j < m THEN t[j] ELSE IF j = m THEN rows[n] ELSE t[j - 1]
  <2>1. Len(t) + 1 = c /\ m \in 1 .. Len(t) + 1
    BY <1>1, <1>2
  <2> DEFINE u == InsertAt(t, m, rows[n])
  <2>2. /\ u \in Seq(Rows) /\ Len(u) = Len(t) + 1
        /\ \A j \in 1 .. Len(t) + 1 : u[j] = IF j < m THEN t[j] ELSE IF j = m THEN rows[n] ELSE t[j - 1]
    <3>1. t \in Seq(Rows) /\ m \in 1 .. Len(t) + 1 /\ rows[n] \in Rows
      BY <1>1, <1>2, <2>1
    <3> QED
      BY <3>1, InsertAtIs
  <2> HIDE DEF u
  <2>3. q = u
    BY <1>3 DEF u
  <2> QED
    BY <2>1, <2>2, <2>3
<1>5. ASSUME NEW j \in 1 .. c
      PROVE  Before(n, m, j) \in 1 .. c /\ q[j] = rows[Before(n, m, j)]
  <2>1. CASE j = m
    BY <1>1, <1>4, <2>1 DEF Before
  <2>2. CASE j < m
    <3>1. j \in 1 .. c - 1
      BY <1>1, <2>2
    <3> QED
      BY <1>1, <1>2, <1>4, <2>2, <3>1 DEF Before
  <2>3. CASE j > m
    <3>1. j - 1 \in 1 .. c - 1 /\ (j - 1) + 1 = j /\ ~(j < m) /\ j # m /\ j \in Nat
      BY <1>1, <2>3
    <3>2. q[j] = t[j - 1] /\ t[j - 1] = rows[IF j - 1 < n THEN j - 1 ELSE (j - 1) + 1]
      BY <1>2, <1>4, <3>1
    <3>3. Before(n, m, j) = IF j - 1 < n THEN j - 1 ELSE (j - 1) + 1
      BY <3>1 DEF Before
    <3>4. Before(n, m, j) \in 1 .. c
      BY <1>1, <3>1, <3>3
    <3> QED
      BY <3>2, <3>3, <3>4
  <2>4. j \in Nat
    OBVIOUS
  <2> QED
    BY <1>1, <2>1, <2>2, <2>3, <2>4
<1>6. \A i, j \in 1 .. c : Before(n, m, i) = Before(n, m, j) => i = j
  BY <1>1 DEF Before
<1>7. \A i \in 1 .. c : \E j \in 1 .. c : Before(n, m, j) = i
  <2> SUFFICES ASSUME NEW i \in 1 .. c PROVE \E j \in 1 .. c : Before(n, m, j) = i
    OBVIOUS
  <2> DEFINE x == IF i < n THEN i ELSE i - 1
             j == IF i = n THEN m ELSE IF x < m THEN x ELSE x + 1
  <2>1. j \in 1 .. c /\ Before(n, m, j) = i
    BY <1>1 DEF Before
  <2> QED
    BY <2>1
<1>8. DOMAIN q = 1 .. c
  BY <1>4
<1>9. Distinct(q)
  <2> SUFFICES ASSUME NEW i \in 1 .. c, NEW j \in 1 .. c, q[i].id = q[j].id PROVE i = j
    BY <1>8 DEF Distinct
  <2>1. /\ Before(n, m, i) \in DOMAIN rows /\ Before(n, m, j) \in DOMAIN rows
        /\ rows[Before(n, m, i)].id = rows[Before(n, m, j)].id
    BY <1>1, <1>5
  <2>2. Before(n, m, i) = Before(n, m, j)
    BY <2>1 DEF Distinct
  <2> QED
    BY <1>6, <2>2
<1>10. IdsOf(q) = IdsOf(rows)
  <2>1. \A j \in DOMAIN q : \E i \in DOMAIN rows : q[j].id = rows[i].id
    BY <1>1, <1>5, <1>8
  <2>2. \A i \in DOMAIN rows : \E j \in DOMAIN q : q[j].id = rows[i].id
    BY <1>1, <1>5, <1>7, <1>8
  <2> QED
    BY <2>1, <2>2 DEF IdsOf
<1> QED
  BY <1>4, <1>9, <1>10 DEF q

\* move_filter
LEMMA MoveLeads ==
  ASSUME FiltersConstants, NEW s \in Sessions, NEW p, Fits(p, s), NEW k \in Kinds,
         NEW i, NEW slot \in 1 .. Len(p.ses.rows[k]) + 1
  PROVE  Leads(p, [p EXCEPT !.ses = MovedTo(p.ses, k, i, slot)], s, {k})
<1> DEFINE old == p.ses.rows[k]
           n == FirstRow(p.ses, k, i)
           rows == Moved(old, n, slot)
<1>0. p \in Pairs /\ old \in Seq(Rows) /\ Distinct(old)
  BY PairIs DEF Fits
<1>1. CASE ~(HasRow(p.ses, k, i) /\ rows # old)
  <2>1. MovedTo(p.ses, k, i, slot) = p.ses
    BY <1>1 DEF MovedTo
  <2>2. [p EXCEPT !.ses = p.ses] = p
    BY <1>0 DEF Pairs
  <2> QED
    BY <2>1, <2>2, LeadsNowhere
<1>2. CASE HasRow(p.ses, k, i) /\ rows # old
  <2>1. n \in DOMAIN old
    BY <1>0, <1>2, FirstRowIs
  <2>2. MovedTo(p.ses, k, i, slot) = [p.ses EXCEPT !.rows[k] = rows, !.bumped = TRUE]
    BY <1>2 DEF MovedTo
  <2> HIDE DEF n
  <2>3. rows \in Seq(Rows) /\ Distinct(rows) /\ IdsOf(rows) = IdsOf(old)
    BY <1>0, <2>1, MovedAre
  <2> HIDE DEF rows
  <2>4. Leads(p, [p EXCEPT !.ses = [p.ses EXCEPT !.rows[k] = rows, !.bumped = TRUE]], s, {k})
    BY <2>3, RowsLead
  <2> QED
    BY <2>2, <2>4
<1> QED
  BY <1>1, <1>2

-----------------------------------------------------------------------------
(* Rows that go.                                                            *)

\* The registry with fewer uses.
LEMMA FewerUses ==
  ASSUME NEW r, Sound(r), NEW u \in [Kinds -> [Ids -> SUBSET Sessions]],
         \A k \in Kinds, i \in Ids : u[k][i] \subseteq r.usage[k][i]
  PROVE  /\ Sound([r EXCEPT !.usage = u])
         /\ [r EXCEPT !.usage = u].defs = r.defs /\ [r EXCEPT !.usage = u].usage = u
         /\ [r EXCEPT !.usage = u].made = r.made
<1> DEFINE q == [r EXCEPT !.usage = u]
<1>1. r \in Registries
  BY DEF Sound
<1>2. q \in Registries /\ q.defs = r.defs /\ q.usage = u /\ q.made = r.made
  BY <1>1 DEF Registries
<1> HIDE DEF q
<1>3. ASSUME NEW k \in Kinds, NEW i \in Ids
      PROVE  IsFiniteSet(u[k][i]) /\ (u[k][i] # {} => r.usage[k][i] # {})
  <2>1. IsFiniteSet(r.usage[k][i])
    BY DEF Sound
  <2>2. u[k][i] \in SUBSET r.usage[k][i]
    OBVIOUS
  <2> QED
    BY <2>1, <2>2, FS_Subset
<1>4. Sound(q)
  BY <1>2, <1>3 DEF Sound
<1> QED
  BY <1>2, <1>4 DEF q

\* A handler puts a list of rows, and a registry that is in step with it.
LEMMA ListLeads ==
  ASSUME NEW s \in Sessions, NEW p, Fits(p, s), NEW k \in Kinds,
         NEW rows \in Seq(Rows), Distinct(rows), NEW b \in BOOLEAN, p.ses.bumped => b,
         NEW reg, Sound(reg),
         \A kk \in Kinds, i \in Ids : kk # k =>
           reg.defs[kk][i] = p.reg.defs[kk][i] /\ reg.usage[kk][i] = p.reg.usage[kk][i],
         \A i \in Ids :
           /\ reg.usage[k][i] \ {s} = p.reg.usage[k][i] \ {s}
           /\ p.reg.usage[k][i] \ {s} # {} => reg.defs[k][i] = p.reg.defs[k][i]
           /\ s \in reg.usage[k][i] <=> i \in IdsOf(rows),
         b \/ (rows = p.ses.rows[k] /\ \A i \in IdsOf(rows) : reg.defs[k][i] = p.reg.defs[k][i])
  PROVE  Leads(p, [reg |-> reg, ses |-> [p.ses EXCEPT !.rows[k] = rows, !.bumped = b]], s, {k})
<1> DEFINE ses == [p.ses EXCEPT !.rows[k] = rows, !.bumped = b]
           q == [reg |-> reg, ses |-> ses]
<1>1. p \in Pairs /\ Sound(p.reg)
  BY DEF Fits
<1>2. p.ses \in SessionStates
  BY <1>1, PairIs
<1>3. /\ ses \in SessionStates
      /\ ses.rows = [p.ses.rows EXCEPT ![k] = rows] /\ ses.bumped = b
      /\ ses.temp = p.ses.temp /\ ses.asked = p.ses.asked /\ ses.due = p.ses.due
  BY <1>2 DEF SessionStates
<1>4. /\ ses.rows[k] = rows
      /\ \A kk \in Kinds : kk # k => ses.rows[kk] = p.ses.rows[kk]
  BY <1>1, <1>3, PairIs
<1> HIDE DEF ses
<1>5. q \in Pairs /\ q.reg = reg /\ q.ses = ses
  BY <1>1, <1>3 DEF Pairs, Sound
<1> HIDE DEF q
<1>6. \A i \in Ids : Uses(q.reg, k, i, s) <=> HasRow(q.ses, k, i)
  BY <1>4, <1>5 DEF Uses, HasRow
<1>7. q.ses.bumped \/ (q.ses.bumped = p.ses.bumped /\ SameKind(p, q, k))
  <2>1. CASE b
    BY <1>3, <1>5, <2>1
  <2>2. CASE ~b
    <3>1. p.ses.bumped \in BOOLEAN
      BY <1>1, PairIs
    <3>2. q.ses.bumped = p.ses.bumped
      BY <1>3, <1>5, <2>2, <3>1
    <3>3. SameKind(p, q, k)
      BY <1>4, <1>5, <2>2 DEF SameKind
    <3> QED
      BY <3>2, <3>3
  <2> QED
    BY <2>1, <2>2
<1>8. ChangesKind(p, q, s, k)
  BY <1>1, <1>3, <1>4, <1>5, <1>6, <1>7 DEF ChangesKind
<1>9. Leads(p, q, s, {k})
  BY <1>8, KindLeads
<1> QED
  BY <1>9 DEF q, ses

\* Some of the rows are kept.
LEMMA KeptRowsAre ==
  ASSUME NEW rows \in Seq(Rows), Distinct(rows), NEW K \in SUBSET DOMAIN rows
  PROVE  /\ Kept(rows, K) \in Seq(Rows) /\ Distinct(Kept(rows, K))
         /\ IdsOf(Kept(rows, K)) = {rows[n].id : n \in K}
<1> DEFINE q == Kept(rows, K)
           c == Cardinality(K)
<1>1. /\ q \in Seq(Rows) /\ DOMAIN q = 1 .. c
      /\ \A n \in 1 .. c : Place(K, n) \in K /\ q[n] = rows[Place(K, n)]
      /\ \A i \in K : Rank(K, i) \in 1 .. c /\ q[Rank(K, i)] = rows[i]
  BY KeptAre
<1>2. K \in SUBSET (1 .. Len(rows)) /\ Len(rows) \in Nat
  BY RowsAre
<1>3. \A n \in 1 .. c : Rank(K, Place(K, n)) = n
  BY <1>2, PlacesAre
<1> HIDE DEF q, c
<1>4. Distinct(q)
  <2> SUFFICES ASSUME NEW m \in 1 .. c, NEW n \in 1 .. c, q[m].id = q[n].id PROVE m = n
    BY <1>1 DEF Distinct
  <2>1. Place(K, m) = Place(K, n)
    BY <1>1 DEF Distinct
  <2> QED
    BY <1>3, <2>1
<1>5. IdsOf(q) = {rows[n].id : n \in K}
  <2>1. \A n \in 1 .. c : q[n].id \in {rows[m].id : m \in K}
    BY <1>1
  <2>2. \A m \in K : rows[m].id \in {q[n].id : n \in 1 .. c}
    BY <1>1
  <2> QED
    BY <1>1, <2>1, <2>2 DEF IdsOf
<1> QED
  BY <1>1, <1>4, <1>5 DEF q

RowsWithout(rows, i) == Kept(rows, {n \in DOMAIN rows : rows[n].id # i})

RowLess(p, q, k, i) == q.ses.rows[k] = RowsWithout(p.ses.rows[k], i)

SameDefs(p, q) == q.reg.defs = p.reg.defs

\* unapply_filter
LEMMA WithoutRowIs ==
  ASSUME FiltersConstants, NEW s \in Sessions, NEW p, Fits(p, s), NEW k \in Kinds,
         NEW i \in Ids
  PROVE  /\ Leads(p, WithoutRow(p, s, k, i), s, {k})
         /\ SameDefs(p, WithoutRow(p, s, k, i))
         /\ RowLess(p, WithoutRow(p, s, k, i), k, i)
         /\ IdsOf(WithoutRow(p, s, k, i).ses.rows[k]) = IdsOf(p.ses.rows[k]) \ {i}
<1> DEFINE old == p.ses.rows[k]
           K == {n \in DOMAIN old : old[n].id # i}
           rows == Kept(old, K)
           ses == [p.ses EXCEPT !.rows[k] = rows, !.bumped = TRUE]
           reg == Unapplied(p.reg, k, i, s)
<1>0. /\ p \in Pairs /\ old \in Seq(Rows) /\ Distinct(old)
      /\ p.ses \in SessionStates /\ Sound(p.reg) /\ p.ses.rows \in [Kinds -> Seq(Rows)]
  BY PairIs DEF Fits
<1>1. /\ rows \in Seq(Rows) /\ Distinct(rows) /\ IdsOf(rows) = IdsOf(old) \ {i}
  <2>1. rows \in Seq(Rows) /\ Distinct(rows) /\ IdsOf(rows) = {old[n].id : n \in K}
    BY <1>0, KeptRowsAre
  <2>2. {old[n].id : n \in K} = IdsOf(old) \ {i}
    BY DEF IdsOf
  <2> QED
    BY <2>1, <2>2
<1>2. CASE ~HasRow(p.ses, k, i)
  <2>1. WithoutRow(p, s, k, i) = p
    BY <1>2 DEF WithoutRow
  <2>2. K = DOMAIN old
    BY <1>2 DEF HasRow, IdsOf
  <2>3. rows = old
    BY <1>0, <2>2, AllKept
  <2> QED
    BY <1>1, <2>1, <2>3, LeadsNowhere DEF RowsWithout, RowLess, SameDefs
<1>3. CASE HasRow(p.ses, k, i)
  <2>1. WithoutRow(p, s, k, i) = [reg |-> reg, ses |-> ses]
    BY <1>3 DEF WithoutRow
  <2> HIDE DEF rows
  <2> DEFINE u == [p.reg.usage EXCEPT ![k][i] = p.reg.usage[k][i] \ {s}]
  <2>2. p.reg.usage \in [Kinds -> [Ids -> SUBSET Sessions]]
    BY <1>0 DEF Sound, Registries
  <2>3. /\ u \in [Kinds -> [Ids -> SUBSET Sessions]]
        /\ u[k][i] = p.reg.usage[k][i] \ {s}
        /\ \A kk \in Kinds, j \in Ids : kk # k \/ j # i => u[kk][j] = p.reg.usage[kk][j]
    BY <2>2
  <2>4. reg = [p.reg EXCEPT !.usage = u]
    BY DEF Unapplied
  <2> HIDE DEF u
  <2>5. \A kk \in Kinds, j \in Ids : u[kk][j] \subseteq p.reg.usage[kk][j]
    <3> SUFFICES ASSUME NEW kk \in Kinds, NEW j \in Ids PROVE u[kk][j] \subseteq p.reg.usage[kk][j]
      OBVIOUS
    <3>1. CASE kk = k /\ j = i
      BY <2>3, <3>1
    <3>2. CASE kk # k \/ j # i
      BY <2>3, <3>2
    <3> QED
      BY <3>1, <3>2
  <2>6. Sound(reg) /\ reg.defs = p.reg.defs /\ reg.usage = u
    <3>1. /\ Sound([p.reg EXCEPT !.usage = u])
          /\ [p.reg EXCEPT !.usage = u].defs = p.reg.defs
          /\ [p.reg EXCEPT !.usage = u].usage = u
      BY <1>0, <2>3, <2>5, FewerUses, Zenon
    <3> QED
      BY <2>4, <3>1
  <2> HIDE DEF reg
  <2>7. \A j \in Ids : /\ u[k][j] \ {s} = p.reg.usage[k][j] \ {s}
                       /\ s \in u[k][j] <=> j \in IdsOf(rows)
    <3> SUFFICES ASSUME NEW j \in Ids
                 PROVE  /\ u[k][j] \ {s} = p.reg.usage[k][j] \ {s}
                        /\ s \in u[k][j] <=> j \in IdsOf(rows)
      OBVIOUS
    <3>1. s \in p.reg.usage[k][j] <=> j \in IdsOf(old)
      BY DEF Fits, Uses, HasRow
    <3>2. CASE j = i
      BY <1>1, <2>3, <3>2
    <3>3. CASE j # i
      BY <1>1, <2>3, <3>1, <3>3
    <3> QED
      BY <3>2, <3>3
  <2>8. Leads(p, [reg |-> reg, ses |-> [p.ses EXCEPT !.rows[k] = rows, !.bumped = TRUE]], s, {k})
    <3>1. \A kk \in Kinds, j \in Ids : kk # k =>
            reg.defs[kk][j] = p.reg.defs[kk][j] /\ reg.usage[kk][j] = p.reg.usage[kk][j]
      BY <2>3, <2>6
    <3>2. \A j \in Ids :
            /\ reg.usage[k][j] \ {s} = p.reg.usage[k][j] \ {s}
            /\ p.reg.usage[k][j] \ {s} # {} => reg.defs[k][j] = p.reg.defs[k][j]
            /\ s \in reg.usage[k][j] <=> j \in IdsOf(rows)
      BY <2>6, <2>7
    <3> QED
      BY <1>1, <2>6, <3>1, <3>2, ListLeads
  <2>9. ses.rows[k] = rows
    BY <1>0 DEF SessionStates
  <2>10. WithoutRow(p, s, k, i).reg = reg /\ WithoutRow(p, s, k, i).ses = ses
    BY <2>1
  <2>11. Leads(p, WithoutRow(p, s, k, i), s, {k})
    BY <2>1, <2>8
  <2> HIDE DEF ses
  <2>12. WithoutRow(p, s, k, i).ses.rows[k] = rows
    BY <2>9, <2>10
  <2>13. WithoutRow(p, s, k, i).reg.defs = p.reg.defs
    BY <2>6, <2>10
  <2>14. IdsOf(WithoutRow(p, s, k, i).ses.rows[k]) = IdsOf(old) \ {i}
    BY <1>1, <2>12
  <2> QED
    BY <2>11, <2>12, <2>13, <2>14 DEF rows, RowsWithout, RowLess, SameDefs
<1> QED
  BY <1>2, <1>3

\* unapply_all_filters
LEMMA WithoutRowsLead ==
  ASSUME FiltersConstants, NEW s \in Sessions, NEW p, Fits(p, s), NEW k \in Kinds
  PROVE  Leads(p, WithoutRows(p, s, k), s, {k})
<1> DEFINE old == p.ses.rows[k]
           b == p.ses.bumped \/ old # << >>
           v == [i \in Ids |-> IF HasRow(p.ses, k, i) THEN p.reg.usage[k][i] \ {s}
                               ELSE p.reg.usage[k][i]]
           u == [p.reg.usage EXCEPT ![k] = v]
           reg == [p.reg EXCEPT !.usage = u]
<1>0. /\ p \in Pairs /\ old \in Seq(Rows) /\ p.ses.bumped \in BOOLEAN
      /\ p.ses \in SessionStates /\ Sound(p.reg)
  BY PairIs DEF Fits
<1>1. p.reg.usage \in [Kinds -> [Ids -> SUBSET Sessions]]
  BY <1>0 DEF Sound, Registries
<1>2. \A i \in Ids : /\ v[i] \in SUBSET p.reg.usage[k][i]
                     /\ v[i] \ {s} = p.reg.usage[k][i] \ {s} /\ s \notin v[i]
  <2> SUFFICES ASSUME NEW i \in Ids
               PROVE  /\ v[i] \in SUBSET p.reg.usage[k][i]
                      /\ v[i] \ {s} = p.reg.usage[k][i] \ {s} /\ s \notin v[i]
    OBVIOUS
  <2>1. s \in p.reg.usage[k][i] <=> HasRow(p.ses, k, i)
    BY DEF Fits, Uses
  <2> QED
    BY <2>1
<1>3. v \in [Ids -> SUBSET Sessions]
  BY <1>1
<1>4. WithoutRows(p, s, k) = [reg |-> reg, ses |-> [p.ses EXCEPT !.rows[k] = << >>, !.bumped = b]]
  <2>1. \A i \in Ids : v[i] = IF HasRow(p.ses, k, i) THEN p.reg.usage[k][i] \ {s}
                              ELSE p.reg.usage[k][i]
    OBVIOUS
  <2> QED
    BY DEF WithoutRows
<1> HIDE DEF v
<1>5. /\ u \in [Kinds -> [Ids -> SUBSET Sessions]] /\ u[k] = v
      /\ \A kk \in Kinds : kk # k => u[kk] = p.reg.usage[kk]
  BY <1>1, <1>3
<1> HIDE DEF u
<1>6. \A kk \in Kinds, i \in Ids : u[kk][i] \subseteq p.reg.usage[kk][i]
  <2> SUFFICES ASSUME NEW kk \in Kinds, NEW i \in Ids PROVE u[kk][i] \subseteq p.reg.usage[kk][i]
    OBVIOUS
  <2>1. CASE kk = k
    BY <1>2, <1>5, <2>1
  <2>2. CASE kk # k
    BY <1>5, <2>2
  <2> QED
    BY <2>1, <2>2
<1>7. Sound(reg) /\ reg.defs = p.reg.defs /\ reg.usage = u
  BY <1>0, <1>5, <1>6, FewerUses
<1> HIDE DEF reg
<1>8. << >> \in Seq(Rows) /\ Distinct(<< >>) /\ IdsOf(<< >>) = {}
  BY DEF Distinct, IdsOf
<1>9. b \in BOOLEAN /\ (p.ses.bumped => b) /\ (b \/ << >> = old)
  BY <1>0
<1> HIDE DEF b
<1>10. Leads(p, [reg |-> reg, ses |-> [p.ses EXCEPT !.rows[k] = << >>, !.bumped = b]], s, {k})
  <2>1. \A kk \in Kinds, i \in Ids : kk # k =>
          reg.defs[kk][i] = p.reg.defs[kk][i] /\ reg.usage[kk][i] = p.reg.usage[kk][i]
    BY <1>5, <1>7
  <2>2. \A i \in Ids :
          /\ reg.usage[k][i] \ {s} = p.reg.usage[k][i] \ {s}
          /\ p.reg.usage[k][i] \ {s} # {} => reg.defs[k][i] = p.reg.defs[k][i]
          /\ s \in reg.usage[k][i] <=> i \in IdsOf(<< >>)
    BY <1>2, <1>5, <1>7, <1>8
  <2> QED
    BY <1>7, <1>8, <1>9, <2>1, <2>2, ListLeads
<1> QED
  BY <1>4, <1>10

-----------------------------------------------------------------------------
(* What is searched for.                                                    *)

TextOfEach(r, k, rows) == [n \in DOMAIN rows |-> r.defs[k][rows[n].id]]

\* No row is passed over when all are defined.
LEMMA TextsAre ==
  ASSUME NEW r \in Registries, NEW k \in Kinds, NEW rows \in Seq(Rows),
         IdsOf(rows) \subseteq Defined(r, k)
  PROVE  /\ KnownRows(r, k, rows) = rows /\ TextsOf(r, k, rows) = TextOfEach(r, k, rows)
         /\ TextsOf(r, k, rows) \in Seq(Texts)
<1>1. {n \in DOMAIN rows : rows[n].id \in Defined(r, k)} = DOMAIN rows
  BY DEF IdsOf
<1>2. KnownRows(r, k, rows) = rows
  BY <1>1, AllKept DEF KnownRows
<1>3. TextsOf(r, k, rows) = TextOfEach(r, k, rows)
  BY <1>2 DEF TextsOf, TextOfEach
<1>4. \A n \in DOMAIN rows : r.defs[k][rows[n].id] \in Texts
  <2>1. \A i \in Defined(r, k) : r.defs[k][i] \in Texts
    BY DEF Defined, Registries
  <2> QED
    BY <2>1 DEF IdsOf
<1>5. DOMAIN rows = 1 .. Len(rows) /\ Len(rows) \in Nat
  OBVIOUS
<1>6. TextOfEach(r, k, rows) \in Seq(Texts)
  BY <1>4, <1>5 DEF TextOfEach
<1> QED
  BY <1>2, <1>3, <1>6

\* All rows of a session that fits are defined.
LEMMA RowsDefined ==
  ASSUME NEW s \in Sessions, NEW p, Fits(p, s), NEW k \in Kinds
  PROVE  /\ p.ses.rows[k] \in Seq(Rows)
         /\ IdsOf(p.ses.rows[k]) \subseteq Defined(p.reg, k)
         /\ EnabledRows(p.ses, k) \in Seq(Rows)
         /\ IdsOf(EnabledRows(p.ses, k)) \subseteq IdsOf(p.ses.rows[k])
         /\ p.reg \in Registries
<1> DEFINE rows == p.ses.rows[k]
           K == {n \in DOMAIN rows : rows[n].enabled}
<1>1. rows \in Seq(Rows) /\ Sound(p.reg) /\ p.reg \in Registries /\ Distinct(rows)
  BY PairIs DEF Fits, Sound
<1>2. ASSUME NEW i \in IdsOf(rows) PROVE i \in Defined(p.reg, k)
  <2>1. i \in Ids
    BY <1>1, RowsAre
  <2>2. s \in p.reg.usage[k][i]
    BY <2>1 DEF Fits, Uses, HasRow
  <2> QED
    BY <1>1, <2>1, <2>2 DEF Sound, Defined
<1>3. /\ Kept(rows, K) \in Seq(Rows)
      /\ IdsOf(Kept(rows, K)) = {rows[n].id : n \in K}
  BY <1>1, KeptRowsAre
<1>4. {rows[n].id : n \in K} \subseteq IdsOf(rows)
  BY DEF IdsOf
<1>5. EnabledRows(p.ses, k) = Kept(rows, K)
  BY DEF EnabledRows
<1> QED
  BY <1>1, <1>2, <1>3, <1>4, <1>5

\* What a kind of a session shows is a sequence of texts: the temporary
\* search, or the text of each row that is enabled.
LEMMA EffectiveIs ==
  ASSUME FiltersConstants, NEW s \in Sessions, NEW p, Fits(p, s), NEW k \in Kinds
  PROVE  /\ Effective(p, k) \in Seq(Texts)
         /\ Effective(p, k) = IF k = "filter" /\ p.ses.temp # NoText THEN <<p.ses.temp>>
                              ELSE TextOfEach(p.reg, k, EnabledRows(p.ses, k))
<1>1. /\ EnabledRows(p.ses, k) \in Seq(Rows) /\ p.reg \in Registries
      /\ IdsOf(EnabledRows(p.ses, k)) \subseteq Defined(p.reg, k)
  BY RowsDefined
<1>2. /\ TextsOf(p.reg, k, EnabledRows(p.ses, k)) = TextOfEach(p.reg, k, EnabledRows(p.ses, k))
      /\ TextsOf(p.reg, k, EnabledRows(p.ses, k)) \in Seq(Texts)
  BY <1>1, TextsAre
<1>3. p.ses.temp # NoText => <<p.ses.temp>> \in Seq(Texts)
  <2>1. p.ses.temp \in Texts \cup {NoText}
    BY PairIs DEF Fits
  <2> QED
    BY <2>1
<1> QED
  BY <1>2, <1>3 DEF Effective

AskedFor(p, k) == k \in p.ses.due \/ p.ses.asked[k] = Effective(p, k)

\* A search stays what it is while its rows do.
LEMMA SameEffective ==
  ASSUME FiltersConstants, NEW s \in Sessions, NEW p, Fits(p, s), NEW q, Fits(q, s),
         NEW k \in Kinds, SameKind(p, q, k), q.ses.temp = p.ses.temp
  PROVE  Effective(q, k) = Effective(p, k)
<1> DEFINE rows == EnabledRows(p.ses, k)
<1>1. EnabledRows(q.ses, k) = rows
  BY DEF EnabledRows, SameKind
<1>2. IdsOf(rows) \subseteq IdsOf(p.ses.rows[k])
  BY RowsDefined
<1>3. \A n \in DOMAIN rows : q.reg.defs[k][rows[n].id] = p.reg.defs[k][rows[n].id]
  BY <1>2 DEF SameKind, IdsOf
<1> HIDE DEF rows
<1>4. TextOfEach(q.reg, k, rows) = TextOfEach(p.reg, k, rows)
  BY <1>3 DEF TextOfEach
<1> QED
  BY <1>1, <1>4, EffectiveIs DEF rows

\* What was asked stays right as long as nothing is asked and the kind shows
\* what it showed.
LEMMA SameAsked ==
  ASSUME FiltersConstants, NEW s \in Sessions, NEW p, Fits(p, s), NEW q, Fits(q, s),
         NEW k \in Kinds, SameKind(p, q, k), q.ses.temp = p.ses.temp,
         q.ses.asked = p.ses.asked, q.ses.due = p.ses.due, AskedFor(p, k)
  PROVE  AskedFor(q, k)
BY SameEffective DEF AskedFor

\* sync_search and sync_persistent_search change nothing but what is asked.
LEMMA SyncedIs ==
  ASSUME FiltersConstants, NEW s \in Sessions, NEW p, Fits(p, s), NEW L
  PROVE  /\ Fits(Synced(p, L), s)
         /\ Synced(p, L).reg = p.reg
         /\ \A k \in Kinds : Synced(p, L).ses.rows[k] = p.ses.rows[k]
         /\ Synced(p, L).ses.temp = p.ses.temp /\ Synced(p, L).ses.due = p.ses.due
         /\ Synced(p, L).ses.bumped = p.ses.bumped
         /\ \A k \in Kinds : /\ Effective(Synced(p, L), k) = Effective(p, k)
                             /\ k \in L => AskedFor(Synced(p, L), k)
                             /\ AskedFor(p, k) => AskedFor(Synced(p, L), k)
<1> DEFINE f == [k \in Kinds |-> IF k \in L THEN Effective(p, k) ELSE p.ses.asked[k]]
           ses == [p.ses EXCEPT !.asked = f]
           q == [p EXCEPT !.ses = ses]
<1>1. p \in Pairs /\ p.ses \in SessionStates /\ \A k \in Kinds : p.ses.asked[k] \in Seq(Texts)
  BY PairIs DEF Fits
<1>2. f \in [Kinds -> Seq(Texts)]
  BY <1>1, EffectiveIs
<1>3. Synced(p, L) = q
  BY DEF Synced
<1>4. \A k \in Kinds : f[k] = IF k \in L THEN Effective(p, k) ELSE p.ses.asked[k]
  OBVIOUS
<1> HIDE DEF f
<1>5. /\ ses \in SessionStates /\ ses.rows = p.ses.rows /\ ses.temp = p.ses.temp
      /\ ses.due = p.ses.due /\ ses.bumped = p.ses.bumped /\ ses.asked = f
  BY <1>1, <1>2 DEF SessionStates
<1> HIDE DEF ses
<1>6. q \in Pairs /\ q.reg = p.reg /\ q.ses = ses
  BY <1>1, <1>5 DEF Pairs
<1> HIDE DEF q
<1>7. Fits(q, s)
  BY <1>5, <1>6 DEF Fits, HasRow
<1>8. \A k \in Kinds : Effective(q, k) = Effective(p, k)
  BY <1>5, <1>6 DEF Effective, EnabledRows
<1>9. \A k \in Kinds : /\ k \in L => AskedFor(q, k)
                       /\ AskedFor(p, k) => AskedFor(q, k)
  BY <1>4, <1>5, <1>6, <1>8 DEF AskedFor
<1> QED
  BY <1>3, <1>5, <1>6, <1>7, <1>8, <1>9

\* The rows of a temporary search are not asked for: they wait.
LEMMA SyncedRowsIs ==
  ASSUME FiltersConstants, NEW s \in Sessions, NEW p, Fits(p, s),
         NEW q, Fits(q, s), q.ses.temp = p.ses.temp, q.ses.asked = p.ses.asked,
         q.ses.due = p.ses.due, NEW L,
         \A k \in Kinds : AskedFor(p, k),
         \A k \in Kinds \ L : Effective(q, k) = Effective(p, k)
  PROVE  /\ Fits(SyncedRows(q, L), s)
         /\ SyncedRows(q, L).reg = q.reg
         /\ \A k \in Kinds : SyncedRows(q, L).ses.rows[k] = q.ses.rows[k]
         /\ SyncedRows(q, L).ses.bumped = q.ses.bumped
         /\ \A k \in Kinds : AskedFor(SyncedRows(q, L), k)
<1> DEFINE M == IF q.ses.temp # NoText THEN L \ {"filter"} ELSE L
<1>1. SyncedRows(q, L) = Synced(q, M)
  BY DEF SyncedRows
<1>2. ASSUME NEW k \in Kinds, k \notin M PROVE AskedFor(q, k)
  <2>1. Effective(q, k) = Effective(p, k)
    <3>1. CASE k \in L
      <4>1. k = "filter" /\ q.ses.temp # NoText
        BY <1>2, <3>1
      <4> QED
        BY <4>1 DEF Effective
    <3>2. CASE k \notin L
      BY <3>2
    <3> QED
      BY <3>1, <3>2
  <2> QED
    BY <2>1 DEF AskedFor
<1> HIDE DEF M
<1> QED
  BY <1>1, <1>2, SyncedIs

-----------------------------------------------------------------------------
(* What the change of one session means for all of them.                    *)

\* What would be saved of the rows of a session, and of a pair.
SavedRows(r, rows) ==
  [k \in Kinds |->
     LET known == KnownRows(r, k, rows[k])
     IN  [n \in DOMAIN known |-> <<r.defs[k][known[n].id], known[n].enabled>>]]

Saved(p) == SavedRows(p.reg, p.ses.rows)

\* What would be saved of a session depends on its rows and their texts.
LEMMA SameSaved ==
  ASSUME FiltersConstants, NEW s \in Sessions, NEW p, Fits(p, s), NEW q, Fits(q, s),
         \A k \in Kinds : SameKind(p, q, k)
  PROVE  Saved(q) = Saved(p)
<1> DEFINE Each(u, k) == LET known == KnownRows(u.reg, k, u.ses.rows[k])
                         IN  [n \in DOMAIN known |->
                                <<u.reg.defs[k][known[n].id], known[n].enabled>>]
<1>1. ASSUME NEW k \in Kinds PROVE Each(q, k) = Each(p, k)
  <2> DEFINE rows == p.ses.rows[k]
  <2>1. q.ses.rows[k] = rows /\ \A i \in IdsOf(rows) : q.reg.defs[k][i] = p.reg.defs[k][i]
    BY <1>1 DEF SameKind
  <2>2. KnownRows(p.reg, k, rows) = rows
    BY RowsDefined, TextsAre
  <2>3. KnownRows(q.reg, k, q.ses.rows[k]) = q.ses.rows[k]
    BY RowsDefined, TextsAre
  <2>4. \A n \in DOMAIN rows : q.reg.defs[k][rows[n].id] = p.reg.defs[k][rows[n].id]
    BY <2>1 DEF IdsOf
  <2> QED
    BY <2>1, <2>2, <2>3, <2>4
<1>2. Saved(q) = [k \in Kinds |-> Each(q, k)] /\ Saved(p) = [k \in Kinds |-> Each(p, k)]
  BY DEF Saved, SavedRows
<1> HIDE DEF Each
<1> QED
  BY <1>1, <1>2

\* What a session is left with that uses the registry in its own way.
LEMMA OthersFit ==
  ASSUME FiltersConstants, NEW s \in Sessions, NEW t \in Sessions \ {s},
         NEW r, NEW q, Sound(q), Others(r, q, s), NEW ses,
         Fits([reg |-> r, ses |-> ses], t)
  PROVE  /\ Fits([reg |-> q, ses |-> ses], t)
         /\ \A k \in Kinds : SameKind([reg |-> r, ses |-> ses], [reg |-> q, ses |-> ses], k)
<1> DEFINE u == [reg |-> r, ses |-> ses]
           v == [reg |-> q, ses |-> ses]
<1>1. u \in Pairs /\ u.reg = r /\ u.ses = ses
  BY DEF Fits
<1>2. v \in Pairs /\ v.reg = q /\ v.ses = ses
  BY <1>1 DEF Pairs, Sound
<1>3. Fits(u, t)
  OBVIOUS
<1> HIDE DEF u, v
<1>4. ASSUME NEW k \in Kinds, NEW i \in Ids PROVE Uses(q, k, i, t) <=> HasRow(ses, k, i)
  BY <1>1, <1>3 DEF Fits, Others, Uses
<1>5. Fits(v, t)
  BY <1>1, <1>2, <1>3, <1>4 DEF Fits
<1>6. ASSUME NEW k \in Kinds PROVE SameKind(u, v, k)
  <2>1. \A i \in IdsOf(ses.rows[k]) : i \in Ids /\ t \in r.usage[k][i]
    <3> SUFFICES ASSUME NEW i \in IdsOf(ses.rows[k]) PROVE i \in Ids /\ t \in r.usage[k][i]
      OBVIOUS
    <3>1. i \in Ids
      BY <1>1, PairIs, RowsAre
    <3> QED
      BY <1>1, <1>3, <3>1 DEF Fits, Uses, HasRow
  <2>2. \A i \in IdsOf(ses.rows[k]) : q.defs[k][i] = r.defs[k][i]
    BY <2>1 DEF Others
  <2> QED
    BY <1>1, <1>2, <2>2 DEF SameKind
<1> QED
  BY <1>5, <1>6 DEF u, v

NoteKept(p, q) == q.ses.bumped \/ \A k \in Kinds : SameKind(p, q, k)

\* A session of Inv.
LEMMA SessionIs ==
  ASSUME Inv, NEW s \in Sessions
  PROVE  /\ FiltersConstants /\ Fits(Of(s), s) /\ Of(s) \in Pairs
         /\ Of(s).reg = registry /\ Of(s).ses = session[s]
         /\ session[s] \in SessionStates /\ Sound(registry) /\ registry \in Registries
         /\ s \in open => \A k \in Kinds : AskedFor(Of(s), k)
         /\ s \notin open => session[s] = NewSession
         /\ Snapshot(s) = Saved(Of(s))
<1>1. Of(s).reg = registry /\ Of(s).ses = session[s]
  BY DEF Of
<1>2. s \in open => \A k \in Kinds : AskedFor(Of(s), k)
  BY <1>1 DEF Inv, AskedIsEffective, AskedFor
<1>3. Snapshot(s) = Saved(Of(s))
  <2>1. Snapshot(s) = SavedRows(registry, session[s].rows)
    BY DEF Snapshot, SavedRows
  <2> QED
    BY <1>1, <2>1 DEF Saved
<1>4. Fits(Of(s), s) /\ FiltersConstants /\ Sound(registry) /\ session[s] \in SessionStates
  BY DEF Inv
<1>5. Of(s) \in Pairs /\ registry \in Registries
  BY <1>4 DEF Fits, Sound
<1>6. s \notin open => session[s] = NewSession
  BY DEF Inv
<1> QED
  BY <1>1, <1>2, <1>3, <1>4, <1>5, <1>6

Noted == \A s \in open \cap open' : Snapshot(s)' # Snapshot(s) => session'[s].bumped

\* A step of session s.
LEMMA StepKeeps ==
  ASSUME Inv, NEW s \in Sessions, NEW q, Fits(q, s), Others(registry, q.reg, s),
         registry' = q.reg, session' = [session EXCEPT ![s] = q.ses],
         open' \in SUBSET Sessions, open' \ {s} = open \ {s},
         IF s \in open' THEN \A k \in Kinds : AskedFor(q, k) ELSE q.ses = NewSession,
         s \in open \cap open' => NoteKept(Of(s), q)
  PROVE  Inv' /\ Noted
<1>0. /\ FiltersConstants /\ q \in Pairs /\ q.ses \in SessionStates /\ Sound(q.reg)
      /\ q = [reg |-> q.reg, ses |-> q.ses]
  BY PairIs DEF Inv, Fits
<1>1. /\ session' \in [Sessions -> SessionStates] /\ session'[s] = q.ses
      /\ \A t \in Sessions \ {s} : session'[t] = session[t]
  BY <1>0 DEF Inv
<1>2. Of(s)' = q
  BY <1>0, <1>1 DEF Of
<1>3. ASSUME NEW t \in Sessions \ {s}
      PROVE  /\ Of(t)' = [reg |-> q.reg, ses |-> session[t]]
             /\ Fits(Of(t)', t) /\ \A k \in Kinds : SameKind(Of(t), Of(t)', k)
             /\ t \in open => \A k \in Kinds : AskedFor(Of(t)', k)
             /\ Saved(Of(t)') = Saved(Of(t))
  <2>1. Of(t)' = [reg |-> q.reg, ses |-> session[t]]
    BY <1>1 DEF Of
  <2>2. Of(t) = [reg |-> registry, ses |-> session[t]] /\ Fits(Of(t), t)
    BY SessionIs DEF Of
  <2>3. /\ Fits([reg |-> q.reg, ses |-> session[t]], t)
        /\ \A k \in Kinds : SameKind(Of(t), [reg |-> q.reg, ses |-> session[t]], k)
    BY <1>0, <2>2, OthersFit
  <2> DEFINE v == [reg |-> q.reg, ses |-> session[t]]
  <2>4. v.ses = Of(t).ses
    BY <2>2
  <2>5. Fits(v, t) /\ \A k \in Kinds : SameKind(Of(t), v, k)
    BY <2>3
  <2>6. Of(t)' = v
    BY <2>1
  <2> HIDE DEF v
  <2>7. ASSUME t \in open, NEW k \in Kinds PROVE AskedFor(v, k)
    <3>1. AskedFor(Of(t), k)
      BY <2>7, SessionIs
    <3> QED
      BY <1>0, <2>2, <2>4, <2>5, <3>1, SameAsked
  <2>8. Saved(v) = Saved(Of(t))
    BY <1>0, <2>2, <2>5, SameSaved
  <2> QED
    BY <2>1, <2>5, <2>6, <2>7, <2>8
<1>4. AskedIsEffective'
  <2> SUFFICES ASSUME NEW t \in open', NEW k \in Kinds
               PROVE  k \in session'[t].due \/ session'[t].asked[k] = Effective(Of(t)', k)
    BY DEF AskedIsEffective
  <2>1. AskedFor(Of(t)', k)
    <3>1. CASE t = s
      BY <1>2, <3>1
    <3>2. CASE t # s
      BY <1>3, <3>2
    <3> QED
      BY <3>1, <3>2
  <2>2. Of(t)'.ses = session'[t]
    BY DEF Of
  <2> QED
    BY <2>1, <2>2 DEF AskedFor
<1>5. \A t \in Sessions : Fits(Of(t)', t)
  <2> SUFFICES ASSUME NEW t \in Sessions PROVE Fits(Of(t)', t)
    OBVIOUS
  <2> QED
    BY <1>2, <1>3
<1>6. \A t \in Sessions \ open' : session'[t] = NewSession
  <2> SUFFICES ASSUME NEW t \in Sessions \ open' PROVE session'[t] = NewSession
    OBVIOUS
  <2>1. CASE t = s
    BY <1>1, <2>1
  <2>2. CASE t # s
    BY <1>1, <2>2 DEF Inv
  <2> QED
    BY <2>1, <2>2
<1>7. Inv'
  <2>1. FiltersConstants'
    BY <1>0 DEF FiltersConstants, RegistryConstants, Kinds
  <2>2. \A t \in Sessions : Fits(Of(t), t)'
    BY <1>5
  <2> QED
    BY <1>0, <1>1, <1>4, <1>6, <2>1, <2>2 DEF Inv
<1>8. Noted
  <2> SUFFICES ASSUME NEW t \in open \cap open', Snapshot(t)' # Snapshot(t)
               PROVE  session'[t].bumped
    BY DEF Noted
  <2>0. t \in Sessions
    BY DEF Inv
  <2>1. Snapshot(t)' = Saved(Of(t)')
    <3>1. Of(t)'.reg = registry' /\ Of(t)'.ses = session'[t]
      BY DEF Of
    <3>2. Snapshot(t)' = SavedRows(registry', session'[t].rows)
      BY DEF Snapshot, SavedRows
    <3> QED
      BY <3>1, <3>2 DEF Saved
  <2>2. Snapshot(t) = Saved(Of(t))
    BY <2>0, SessionIs
  <2>3. CASE t = s
    <3>1. Saved(q) # Saved(Of(s))
      BY <1>2, <2>1, <2>2, <2>3
    <3>2. ~ \A k \in Kinds : SameKind(Of(s), q, k)
      BY <3>1, SessionIs, SameSaved
    <3> QED
      BY <1>1, <2>3, <3>2 DEF NoteKept
  <2>4. CASE t # s
    BY <1>3, <2>0, <2>1, <2>2, <2>4
  <2> QED
    BY <2>3, <2>4
<1> QED
  BY <1>7, <1>8

-----------------------------------------------------------------------------
(* Steps of an open session.                                                *)

\* A kind that a handler leaves alone shows what it showed.
LEMMA EffectiveKept ==
  ASSUME FiltersConstants, NEW s \in Sessions, NEW p, Fits(p, s), NEW q, NEW K,
         Leads(p, q, s, K), NEW k \in Kinds \ K
  PROVE  Effective(q, k) = Effective(p, k)
<1>1. SameKind(p, q, k) /\ Fits(q, s) /\ q.ses.temp = p.ses.temp
  BY DEF Leads
<1> QED
  BY <1>1, SameEffective

\* The step that a handler of an open session makes keeps the invariant, if
\* the pair that it ends with fits, leaves the others alone, notes what it
\* changes and has asked for what it shows.
LEMMA BecomesIs ==
  ASSUME Inv, NEW s \in open, NEW q, Becomes(s, q), Fits(q, s),
         Others(registry, q.reg, s), NoteKept(Of(s), q),
         \A k \in Kinds : AskedFor(q, k)
  PROVE  Inv' /\ Noted
<1>1. /\ registry' = q.reg /\ session' = [session EXCEPT ![s] = q.ses] /\ open' = open
  BY DEF Becomes
<1>2. s \in Sessions /\ open \in SUBSET Sessions
  BY DEF Inv
<1> QED
  BY <1>1, <1>2, StepKeeps

\* The rows were changed, and what they say is asked for.
LEMMA RowsStep ==
  ASSUME Inv, NEW s \in open, NEW q, NEW K, Leads(Of(s), q, s, K), NEW L,
         \A k \in Kinds \ L : Effective(q, k) = Effective(Of(s), k),
         Becomes(s, SyncedRows(q, L))
  PROVE  Inv' /\ Noted
<1> DEFINE p == Of(s)
           u == SyncedRows(q, L)
<1>1. s \in Sessions
  BY DEF Inv
<1>2. FiltersConstants /\ Fits(p, s) /\ (\A k \in Kinds : AskedFor(p, k)) /\ p.reg = registry
  BY <1>1, SessionIs
<1>3. Leads(p, q, s, K) /\ \A k \in Kinds \ L : Effective(q, k) = Effective(p, k)
  OBVIOUS
<1> HIDE DEF p
<1>4. /\ Fits(q, s) /\ Others(p.reg, q.reg, s) /\ q.ses.temp = p.ses.temp
      /\ q.ses.asked = p.ses.asked /\ q.ses.due = p.ses.due
      /\ \A k \in Kinds : SameKind(p, q, k) \/ q.ses.bumped
  BY <1>3 DEF Leads
<1>5. /\ Fits(u, s) /\ u.reg = q.reg /\ \A k \in Kinds : u.ses.rows[k] = q.ses.rows[k]
      /\ u.ses.bumped = q.ses.bumped /\ \A k \in Kinds : AskedFor(u, k)
  BY <1>1, <1>2, <1>3, <1>4, SyncedRowsIs
<1>6. Becomes(s, u)
  OBVIOUS
<1> HIDE DEF u
<1>7. NoteKept(p, u)
  BY <1>4, <1>5 DEF NoteKept, SameKind
<1>8. Others(registry, u.reg, s)
  BY <1>2, <1>4, <1>5
<1> QED
  BY <1>5, <1>6, <1>7, <1>8, BecomesIs DEF p

\* The rows were changed, and nothing of it is searched for.
LEMMA QuietStep ==
  ASSUME Inv, NEW s \in open, NEW q, NEW K, Leads(Of(s), q, s, K),
         \A k \in Kinds : Effective(q, k) = Effective(Of(s), k),
         Becomes(s, q)
  PROVE  Inv' /\ Noted
<1> DEFINE p == Of(s)
<1>1. s \in Sessions
  BY DEF Inv
<1>2. FiltersConstants /\ Fits(p, s) /\ (\A k \in Kinds : AskedFor(p, k)) /\ p.reg = registry
  BY <1>1, SessionIs
<1>3. Leads(p, q, s, K) /\ \A k \in Kinds : Effective(q, k) = Effective(p, k)
  OBVIOUS
<1> HIDE DEF p
<1>4. /\ Fits(q, s) /\ Others(p.reg, q.reg, s)
      /\ q.ses.asked = p.ses.asked /\ q.ses.due = p.ses.due
      /\ \A k \in Kinds : SameKind(p, q, k) \/ q.ses.bumped
  BY <1>3 DEF Leads
<1>5. \A k \in Kinds : AskedFor(q, k)
  BY <1>2, <1>3, <1>4 DEF AskedFor
<1>6. NoteKept(p, q)
  BY <1>4 DEF NoteKept
<1> QED
  BY <1>2, <1>4, <1>5, <1>6, BecomesIs DEF p

\* A change of the rows that is followed by a sync only if it is one.
LEMMA IfChangedStep ==
  ASSUME Inv, NEW s \in open, NEW q, NEW k \in Kinds, Leads(Of(s), q, s, {k}),
         q.reg = registry, Becomes(s, SyncedIfChanged(q, s, k))
  PROVE  Inv' /\ Noted
<1>1. s \in Sessions /\ FiltersConstants /\ Fits(Of(s), s) /\ Of(s).ses = session[s]
      /\ Of(s).reg = registry
  BY SessionIs DEF Inv
<1>2. CASE q.ses.rows = session[s].rows
  <2>1. SyncedIfChanged(q, s, k) = q
    BY <1>2 DEF SyncedIfChanged
  <2>2. \A kk \in Kinds : SameKind(Of(s), q, kk)
    BY <1>1, <1>2 DEF SameKind
  <2>3. \A kk \in Kinds : Effective(q, kk) = Effective(Of(s), kk)
    BY <1>1, <2>2, SameEffective DEF Leads
  <2> QED
    BY <2>1, <2>3, QuietStep
<1>3. CASE q.ses.rows # session[s].rows
  <2>1. SyncedIfChanged(q, s, k) = SyncedRows(q, {k})
    BY <1>3 DEF SyncedIfChanged
  <2>2. \A kk \in Kinds \ {k} : Effective(q, kk) = Effective(Of(s), kk)
    BY <1>1, EffectiveKept
  <2> QED
    BY <2>1, <2>2, RowsStep
<1> QED
  BY <1>2, <1>3

\* The session with another temporary search.
WithTemp(p, t) == [p EXCEPT !.ses.temp = t]

\* Setting the temporary search leaves registry and rows alone.
LEMMA TempIs ==
  ASSUME FiltersConstants, NEW s \in Sessions, NEW p, Fits(p, s),
         NEW t \in Texts \cup {NoText}
  PROVE  /\ WithTemp(p, t) = [reg |-> p.reg, ses |-> [p.ses EXCEPT !.temp = t]]
         /\ Fits(WithTemp(p, t), s) /\ WithTemp(p, t).reg = p.reg
         /\ \A k \in Kinds : SameKind(p, WithTemp(p, t), k)
         /\ WithTemp(p, t).ses.asked = p.ses.asked /\ WithTemp(p, t).ses.due = p.ses.due
         /\ WithTemp(p, t).ses.bumped = p.ses.bumped
         /\ \A k \in Kinds \ {"filter"} : Effective(WithTemp(p, t), k) = Effective(p, k)
<1> DEFINE ses == [p.ses EXCEPT !.temp = t]
           q == WithTemp(p, t)
<1>1. p \in Pairs /\ p.ses \in SessionStates
  BY PairIs DEF Fits
<1>2. /\ ses \in SessionStates /\ ses.rows = p.ses.rows /\ ses.asked = p.ses.asked
      /\ ses.due = p.ses.due /\ ses.bumped = p.ses.bumped
  BY <1>1 DEF SessionStates
<1>3. q = [p EXCEPT !.ses = ses]
  BY DEF WithTemp
<1>4. q = [reg |-> p.reg, ses |-> ses]
  BY <1>1, <1>3 DEF Pairs
<1> HIDE DEF ses
<1>5. q \in Pairs /\ q.reg = p.reg /\ q.ses = ses
  BY <1>1, <1>2, <1>4 DEF Pairs
<1> HIDE DEF q
<1>6. Fits(q, s)
  BY <1>2, <1>5 DEF Fits, HasRow
<1>7. \A k \in Kinds : SameKind(p, q, k)
  BY <1>2, <1>5 DEF SameKind
<1>8. \A k \in Kinds \ {"filter"} : Effective(q, k) = Effective(p, k)
  BY <1>2, <1>5 DEF Effective, EnabledRows
<1> QED
  BY <1>2, <1>4, <1>5, <1>6, <1>7, <1>8 DEF q, ses

\* The temporary search was changed, and perhaps rows of one kind.
LEMMA TempStep ==
  ASSUME Inv, NEW s \in open, NEW t \in Texts \cup {NoText}, NEW q, NEW K,
         Leads(WithTemp(Of(s), t), q, s, K), NEW L,
         K \subseteq L, "filter" \in L,
         Becomes(s, Synced(q, L))
  PROVE  Inv' /\ Noted
<1> DEFINE p == Of(s)
           v == WithTemp(p, t)
           u == Synced(q, L)
<1>1. s \in Sessions
  BY DEF Inv
<1>2. FiltersConstants /\ Fits(p, s) /\ (\A k \in Kinds : AskedFor(p, k)) /\ p.reg = registry
  BY <1>1, SessionIs
<1>3. Leads(v, q, s, K) /\ Becomes(s, u)
  OBVIOUS
<1> HIDE DEF p
<1>4. /\ Fits(v, s) /\ v.reg = p.reg /\ \A k \in Kinds : SameKind(p, v, k)
      /\ v.ses.asked = p.ses.asked /\ v.ses.due = p.ses.due
      /\ \A k \in Kinds \ {"filter"} : Effective(v, k) = Effective(p, k)
  BY <1>1, <1>2, TempIs
<1> HIDE DEF v, u
<1>5. /\ Fits(q, s) /\ Others(v.reg, q.reg, s)
      /\ q.ses.asked = v.ses.asked /\ q.ses.due = v.ses.due
      /\ \A k \in Kinds : SameKind(v, q, k) \/ q.ses.bumped
  BY <1>3 DEF Leads
<1>6. \A k \in Kinds \ L : AskedFor(q, k)
  <2> SUFFICES ASSUME NEW k \in Kinds \ L PROVE AskedFor(q, k)
    OBVIOUS
  <2>1. Effective(q, k) = Effective(v, k)
    BY <1>1, <1>2, <1>3, <1>4, EffectiveKept
  <2>2. Effective(v, k) = Effective(p, k)
    BY <1>4
  <2> QED
    BY <1>2, <1>4, <1>5, <2>1, <2>2 DEF AskedFor
<1>7. /\ Fits(u, s) /\ u.reg = q.reg /\ \A k \in Kinds : u.ses.rows[k] = q.ses.rows[k]
      /\ u.ses.bumped = q.ses.bumped /\ \A k \in Kinds : AskedFor(u, k)
  BY <1>1, <1>2, <1>5, <1>6, SyncedIs DEF u
<1>8. NoteKept(p, u)
  BY <1>4, <1>5, <1>7 DEF NoteKept, SameKind
<1>9. Others(registry, u.reg, s)
  BY <1>2, <1>4, <1>5, <1>7
<1> QED
  BY <1>3, <1>7, <1>8, <1>9, BecomesIs DEF p

\* Marking a session for saving.
LEMMA MarkLeads ==
  ASSUME NEW s \in Sessions, NEW p, Fits(p, s)
  PROVE  Leads(p, [p EXCEPT !.ses.bumped = TRUE], s, {})
<1> DEFINE ses == [p.ses EXCEPT !.bumped = TRUE]
           q == [p EXCEPT !.ses.bumped = TRUE]
<1>1. p \in Pairs /\ p.ses \in SessionStates
  BY PairIs DEF Fits
<1>2. /\ ses \in SessionStates /\ ses.rows = p.ses.rows /\ ses.asked = p.ses.asked
      /\ ses.due = p.ses.due /\ ses.bumped /\ ses.temp = p.ses.temp
  BY <1>1 DEF SessionStates
<1>3. q = [p EXCEPT !.ses = ses]
  OBVIOUS
<1> HIDE DEF ses
<1>4. q \in Pairs /\ q.reg = p.reg /\ q.ses = ses
  BY <1>1, <1>2, <1>3 DEF Pairs
<1> HIDE DEF q
<1>5. Fits(q, s)
  BY <1>2, <1>4 DEF Fits, HasRow
<1>6. Leads(p, q, s, {})
  BY <1>2, <1>4, <1>5 DEF Leads, Others, SameKind
<1> QED
  BY <1>6 DEF q

-----------------------------------------------------------------------------
(* The search bar, and the rows of the side panel.                          *)

\* apply_temp_search and dropping the temporary search.
LEMMA TempsKeep ==
  ASSUME Inv, NEW s \in open
  PROVE  /\ \A t \in Typed : AppliesTemp(s, t) => Inv' /\ Noted
         /\ DropsTemp(s) => Inv' /\ Noted
<1>1. s \in Sessions /\ FiltersConstants /\ Fits(Of(s), s)
  BY SessionIs DEF Inv
<1>2. Typed \subseteq Texts
  BY <1>1 DEF FiltersConstants
<1>3. ASSUME NEW t \in Texts \cup {NoText},
             Becomes(s, Synced(WithTemp(Of(s), t), {"filter"}))
      PROVE  Inv' /\ Noted
  <2>1. Fits(WithTemp(Of(s), t), s)
    BY <1>1, TempIs
  <2>2. Leads(WithTemp(Of(s), t), WithTemp(Of(s), t), s, {})
    BY <2>1, LeadsNowhere
  <2>3. {} \subseteq {"filter"} /\ "filter" \in {"filter"}
    OBVIOUS
  <2> QED
    BY <1>3, <2>2, <2>3, TempStep
<1>4. ASSUME NEW t \in Typed, AppliesTemp(s, t) PROVE Inv' /\ Noted
  BY <1>2, <1>3, <1>4 DEF AppliesTemp, WithTemp
<1>5. ASSUME DropsTemp(s) PROVE Inv' /\ Noted
  BY <1>3, <1>5 DEF DropsTemp, WithTemp
<1> QED
  BY <1>4, <1>5

\* Pinning the temporary search as a filter or a search value.
LEMMA PinsKeep ==
  ASSUME Inv, NEW s \in open, NEW k \in Kinds, PinsTemp(s, k)
  PROVE  Inv' /\ Noted
<1>1. /\ s \in Sessions /\ FiltersConstants /\ Fits(Of(s), s) /\ Of(s).reg = registry
      /\ Of(s).ses = session[s] /\ session[s] \in SessionStates
  BY SessionIs DEF Inv
<1> DEFINE v == WithTemp(Of(s), NoText)
           t == session[s].temp
<1>2. t \in Texts
  BY <1>1 DEF PinsTemp, SessionStates
<1>3. PICK a \in Added(registry, k, t) :
        LET w == [reg |-> a.reg, ses |-> [session[s] EXCEPT !.temp = NoText]]
        IN  Becomes(s, Synced([WithRow(w, s, k, a.id, TRUE) EXCEPT !.ses.bumped = TRUE],
                              {"filter", k}))
  BY DEF PinsTemp, Pinned
<1> DEFINE w == [reg |-> a.reg, ses |-> [session[s] EXCEPT !.temp = NoText]]
           x == WithRow(w, s, k, a.id, TRUE)
           y == [x EXCEPT !.ses.bumped = TRUE]
<1>4. /\ v = [reg |-> registry, ses |-> [session[s] EXCEPT !.temp = NoText]]
      /\ Fits(v, s) /\ v.reg = registry
  BY <1>1, TempIs
<1>5. [v EXCEPT !.reg = a.reg] = w
  BY <1>4
<1>6. Becomes(s, Synced(y, {"filter", k}))
  BY <1>3
<1>7. a.id \in Defined(a.reg, k)
  BY <1>1, <1>2, AddedIs DEF Fits
<1>8. w.reg = a.reg
  OBVIOUS
<1> HIDE DEF v, w
<1>9. Leads(v, w, s, {})
  BY <1>1, <1>2, <1>4, <1>5, AddLeads
<1>10. Leads(w, x, s, {k})
  <2>1. Fits(w, s)
    BY <1>9 DEF Leads
  <2> QED
    BY <1>1, <1>7, <1>8, <2>1, WithRowLeads
<1> HIDE DEF x
<1>11. Leads(x, y, s, {})
  <2>1. Fits(x, s)
    BY <1>10 DEF Leads
  <2> QED
    BY <1>1, <2>1, MarkLeads
<1> HIDE DEF y
<1>12. Leads(v, y, s, ({} \cup {k}) \cup {})
  BY <1>9, <1>10, <1>11, LeadsOn
<1>13. ({} \cup {k}) \cup {} \subseteq {"filter", k} /\ "filter" \in {"filter", k}
  OBVIOUS
<1> QED
  BY <1>6, <1>12, <1>13, TempStep DEF v

\* The actions of the side panel that touch rows of one kind: toggling,
\* reordering, removing one or all.
LEMMA RowActionsKeep ==
  ASSUME Inv, NEW s \in open, NEW k \in Kinds
  PROVE  /\ \A i \in Ids, e \in BOOLEAN : TogglesEnabled(s, k, i, e) => Inv' /\ Noted
         /\ \A i \in Ids, slot \in 1 .. Len(session[s].rows[k]) + 1 :
              Reorders(s, k, i, slot) => Inv' /\ Noted
         /\ \A i \in Ids : RemovesRow(s, k, i) => Inv' /\ Noted
         /\ RemovesAll(s, k) => Inv' /\ Noted
<1>1. /\ s \in Sessions /\ FiltersConstants /\ Fits(Of(s), s) /\ Of(s).reg = registry
      /\ Of(s).ses = session[s] /\ session[s] \in SessionStates
      /\ Of(s) \in Pairs
  BY SessionIs DEF Inv
<1>2. \A ses : [Of(s) EXCEPT !.ses = ses].reg = registry
  BY <1>1 DEF Pairs
<1>3. ASSUME NEW i \in Ids, NEW e \in BOOLEAN, TogglesEnabled(s, k, i, e)
      PROVE  Inv' /\ Noted
  <2> DEFINE q == [Of(s) EXCEPT !.ses = SetEnabled(Of(s).ses, k, i, e)]
  <2>1. Leads(Of(s), q, s, {k})
    BY <1>1, EnabledLeads
  <2>2. Becomes(s, SyncedIfChanged(q, s, k))
    BY <1>3 DEF TogglesEnabled
  <2> QED
    BY <1>2, <2>1, <2>2, IfChangedStep
<1>4. ASSUME NEW i \in Ids, NEW slot \in 1 .. Len(session[s].rows[k]) + 1,
             Reorders(s, k, i, slot)
      PROVE  Inv' /\ Noted
  <2> DEFINE q == [Of(s) EXCEPT !.ses = MovedTo(Of(s).ses, k, i, slot)]
  <2>1. Leads(Of(s), q, s, {k})
    BY <1>1, MoveLeads
  <2>2. Becomes(s, SyncedIfChanged(q, s, k))
    BY <1>4 DEF Reorders
  <2> QED
    BY <1>2, <2>1, <2>2, IfChangedStep
<1>5. ASSUME NEW i \in Ids, RemovesRow(s, k, i) PROVE Inv' /\ Noted
  <2> DEFINE q == WithoutRow(Of(s), s, k, i)
  <2>1. Leads(Of(s), q, s, {k})
    BY <1>1, WithoutRowIs
  <2>2. Becomes(s, SyncedRows(q, {k}))
    BY <1>5 DEF RemovesRow
  <2> HIDE DEF q
  <2>3. \A kk \in Kinds \ {k} : Effective(q, kk) = Effective(Of(s), kk)
    BY <1>1, <2>1, EffectiveKept
  <2> QED
    BY <2>1, <2>2, <2>3, RowsStep
<1>6. ASSUME RemovesAll(s, k) PROVE Inv' /\ Noted
  <2> DEFINE q == WithoutRows(Of(s), s, k)
  <2>1. Leads(Of(s), q, s, {k})
    BY <1>1, WithoutRowsLead
  <2>2. Becomes(s, SyncedRows(q, {k}))
    BY <1>6 DEF RemovesAll
  <2> HIDE DEF q
  <2>3. \A kk \in Kinds \ {k} : Effective(q, kk) = Effective(Of(s), kk)
    BY <1>1, <2>1, EffectiveKept
  <2> QED
    BY <2>1, <2>2, <2>3, RowsStep
<1> QED
  BY <1>3, <1>4, <1>5, <1>6

-----------------------------------------------------------------------------
(* The library.                                                             *)

\* A row is left out that was not searched for.
LEMMA DisabledLeftOut ==
  ASSUME FiltersConstants, NEW s \in Sessions, NEW p, Fits(p, s), NEW q, Fits(q, s),
         NEW k \in Kinds, NEW i \in Ids, q.ses.temp = p.ses.temp,
         RowLess(p, q, k, i),
         \A j \in Ids \ {i} : q.reg.defs[k][j] = p.reg.defs[k][j],
         ~IsEnabled(p.ses, k, i)
  PROVE  Effective(q, k) = Effective(p, k)
<1> DEFINE rows == p.ses.rows[k]
           A == {n \in DOMAIN rows : rows[n].id # i}
           C == {n \in DOMAIN rows : rows[n].enabled}
           some == Kept(rows, A)
<1>1. rows \in Seq(Rows) /\ Distinct(rows)
  BY PairIs DEF Fits
<1>2. ASSUME NEW n \in C PROVE rows[n].id # i
  <2> SUFFICES ASSUME rows[n].id = i PROVE FALSE
    OBVIOUS
  <2>1. HasRow(p.ses, k, i)
    BY <1>1, RowsAre DEF HasRow
  <2>2. FirstRow(p.ses, k, i) = n
    BY <1>1, <2>1, FirstRowIs DEF Distinct
  <2> QED
    BY <2>1, <2>2 DEF IsEnabled
<1>3. C \in SUBSET A /\ A \in SUBSET DOMAIN rows
  BY <1>2
<1>4. \A n \in DOMAIN some : Place(A, n) \in A /\ some[n] = rows[Place(A, n)]
  <2>1. A \in SUBSET DOMAIN rows
    BY <1>3
  <2> HIDE DEF A
  <2> QED
    BY <1>1, <2>1, KeptAre
<1>5. {n \in DOMAIN some : some[n].enabled} = {n \in DOMAIN some : Place(A, n) \in C}
  BY <1>4
<1>6. Kept(some, {n \in DOMAIN some : Place(A, n) \in C}) = Kept(rows, C)
  BY <1>1, <1>3, KeptTwice
<1>7. EnabledRows(q.ses, k) = EnabledRows(p.ses, k)
  <2>1. EnabledRows(q.ses, k) = Kept(some, {n \in DOMAIN some : some[n].enabled})
    BY DEF EnabledRows, RowsWithout, RowLess
  <2>2. EnabledRows(p.ses, k) = Kept(rows, C)
    BY DEF EnabledRows
  <2> QED
    BY <1>5, <1>6, <2>1, <2>2
<1>8. IdsOf(EnabledRows(p.ses, k)) \subseteq Ids \ {i}
  <2>1. IdsOf(Kept(rows, C)) = {rows[n].id : n \in C}
    BY <1>1, <1>3, KeptRowsAre
  <2>2. \A n \in C : rows[n].id \in Ids \ {i}
    BY <1>1, <1>2, RowsAre
  <2> QED
    BY <2>1, <2>2 DEF EnabledRows
<1> DEFINE e == EnabledRows(p.ses, k)
<1> HIDE DEF e
<1>9. TextOfEach(q.reg, k, e) = TextOfEach(p.reg, k, e)
  <2>1. \A n \in DOMAIN e : e[n].id \in Ids \ {i}
    BY <1>8 DEF IdsOf, e
  <2>2. \A n \in DOMAIN e : q.reg.defs[k][e[n].id] = p.reg.defs[k][e[n].id]
    BY <2>1
  <2> QED
    BY <2>2 DEF TextOfEach
<1> QED
  BY <1>7, <1>9, EffectiveIs DEF e

DefsBut(r, q, k, i) ==
  \A kk \in Kinds, j \in Ids : kk # k \/ j # i => q.defs[kk][j] = r.defs[kk][j]

\* A definition is removed that nobody else uses, and the row with it.
LEMMA DeletedIs ==
  ASSUME FiltersConstants, NEW s \in Sessions, NEW p, Fits(p, s), NEW k \in Kinds,
         NEW i \in Ids, CanRemove(p.reg, k, i, s), NEW u,
         u = WithoutRow([reg |-> Removed(p.reg, k, i), ses |-> p.ses], s, k, i)
  PROVE  /\ Leads(p, u, s, {k})
         /\ DefsBut(p.reg, u.reg, k, i)
         /\ RowLess(p, u, k, i)
<1> DEFINE old == p.ses.rows[k]
           K == {n \in DOMAIN old : old[n].id # i}
           rows == Kept(old, K)
           reg == Removed(p.reg, k, i)
           d == [p.reg.defs EXCEPT ![k][i] = NoText]
           v == [p.reg.usage EXCEPT ![k][i] = {}]
           b == p.ses.bumped \/ HasRow(p.ses, k, i)
           ses == [p.ses EXCEPT !.rows[k] = rows, !.bumped = b]
<1>0. /\ p \in Pairs /\ old \in Seq(Rows) /\ Distinct(old)
      /\ p.ses \in SessionStates /\ Sound(p.reg) /\ p.ses.rows \in [Kinds -> Seq(Rows)]
      /\ p.ses.bumped \in BOOLEAN
      /\ p.reg.defs \in [Kinds -> [Ids -> Texts \cup {NoText}]]
      /\ p.reg.usage \in [Kinds -> [Ids -> SUBSET Sessions]]
      /\ p.reg \in Registries
  BY PairIs DEF Fits, Sound, Registries
<1>1. /\ rows \in Seq(Rows) /\ Distinct(rows) /\ IdsOf(rows) = IdsOf(old) \ {i}
  <2>1. rows \in Seq(Rows) /\ Distinct(rows) /\ IdsOf(rows) = {old[n].id : n \in K}
    BY <1>0, KeptRowsAre
  <2>2. {old[n].id : n \in K} = IdsOf(old) \ {i}
    BY DEF IdsOf
  <2> QED
    BY <2>1, <2>2
<1>2. /\ d \in [Kinds -> [Ids -> Texts \cup {NoText}]] /\ d[k][i] = NoText
      /\ \A kk \in Kinds, j \in Ids : kk # k \/ j # i => d[kk][j] = p.reg.defs[kk][j]
  BY <1>0
<1>3. /\ v \in [Kinds -> [Ids -> SUBSET Sessions]] /\ v[k][i] = {}
      /\ \A kk \in Kinds, j \in Ids : kk # k \/ j # i => v[kk][j] = p.reg.usage[kk][j]
  BY <1>0
<1>4. /\ reg \in Registries /\ reg.defs = d /\ reg.usage = v /\ reg.made = p.reg.made
      /\ reg = [p.reg EXCEPT !.defs = d, !.usage = v]
  <2>1. reg = [p.reg EXCEPT !.defs = d, !.usage = v]
    BY DEF Removed
  <2> HIDE DEF d, v, reg
  <2> QED
    BY <1>0, <1>2, <1>3, <2>1 DEF Registries
<1>5. Unapplied(reg, k, i, s) = reg
  <2>1. Unapplied(reg, k, i, s) = [reg EXCEPT !.usage = [v EXCEPT ![k][i] = v[k][i] \ {s}]]
    BY <1>4 DEF Unapplied
  <2> HIDE DEF v, reg
  <2>2. [v EXCEPT ![k][i] = v[k][i] \ {s}] = v
    BY <1>3
  <2>3. [reg EXCEPT !.usage = v] = reg
    BY <1>4 DEF Registries
  <2> QED
    BY <2>1, <2>2, <2>3
<1> HIDE DEF d, v, reg
<1>6. Sound(reg)
  <2> SUFFICES ASSUME NEW kk \in Kinds, NEW j \in Ids
               PROVE  /\ IsFiniteSet(v[kk][j])
                      /\ j > p.reg.made => d[kk][j] = NoText
                      /\ v[kk][j] # {} => d[kk][j] # NoText
    BY <1>4 DEF Sound
  <2>1. CASE kk = k /\ j = i
    BY <1>2, <1>3, <2>1, FS_EmptySet
  <2>2. CASE kk # k \/ j # i
    BY <1>0, <1>2, <1>3, <2>2 DEF Sound
  <2> QED
    BY <2>1, <2>2
<1>7. /\ s \in p.reg.usage[k][i] <=> HasRow(p.ses, k, i)
      /\ p.reg.usage[k][i] \subseteq {s}
  BY DEF Fits, Uses, CanRemove
<1>8. u = [reg |-> reg, ses |-> ses]
  <2>1. CASE HasRow(p.ses, k, i)
    <3>1. u = [reg |-> Unapplied(reg, k, i, s),
               ses |-> [p.ses EXCEPT !.rows[k] = rows, !.bumped = TRUE]]
      BY <2>1 DEF WithoutRow, HasRow, reg
    <3>2. b = TRUE
      BY <1>0, <2>1
    <3> QED
      BY <1>5, <3>1, <3>2
  <2>2. CASE ~HasRow(p.ses, k, i)
    <3>1. u = [reg |-> reg, ses |-> p.ses]
      BY <2>2 DEF WithoutRow, HasRow, reg
    <3>2. K = DOMAIN old
      BY <2>2 DEF HasRow, IdsOf
    <3>3. rows = old /\ b = p.ses.bumped
      BY <1>0, <2>2, <3>2, AllKept
    <3>4. ses = p.ses
      BY <1>0, <3>3 DEF SessionStates
    <3> QED
      BY <3>1, <3>4
  <2> QED
    BY <2>1, <2>2
<1>9. ses.rows[k] = rows
  BY <1>0 DEF SessionStates
<1>10. b \in BOOLEAN /\ (p.ses.bumped => b)
  BY <1>0
<1>11. b \/ (rows = old /\ \A j \in IdsOf(rows) : reg.defs[k][j] = p.reg.defs[k][j])
  <2> SUFFICES ASSUME ~HasRow(p.ses, k, i)
               PROVE  rows = old /\ \A j \in IdsOf(rows) : reg.defs[k][j] = p.reg.defs[k][j]
    OBVIOUS
  <2>1. K = DOMAIN old
    BY DEF HasRow, IdsOf
  <2>2. rows = old
    BY <1>0, <2>1, AllKept
  <2>3. \A j \in IdsOf(rows) : j \in Ids /\ j # i
    BY <1>1, RowsAre
  <2> QED
    BY <1>2, <1>4, <2>2, <2>3
<1> HIDE DEF rows, b
<1>12. Leads(p, [reg |-> reg, ses |-> [p.ses EXCEPT !.rows[k] = rows, !.bumped = b]], s, {k})
  <2>1. \A kk \in Kinds, j \in Ids : kk # k =>
          reg.defs[kk][j] = p.reg.defs[kk][j] /\ reg.usage[kk][j] = p.reg.usage[kk][j]
    BY <1>2, <1>3, <1>4
  <2>2. \A j \in Ids :
          /\ reg.usage[k][j] \ {s} = p.reg.usage[k][j] \ {s}
          /\ p.reg.usage[k][j] \ {s} # {} => reg.defs[k][j] = p.reg.defs[k][j]
          /\ s \in reg.usage[k][j] <=> j \in IdsOf(rows)
    <3> SUFFICES ASSUME NEW j \in Ids
                 PROVE  /\ v[k][j] \ {s} = p.reg.usage[k][j] \ {s}
                        /\ p.reg.usage[k][j] \ {s} # {} => d[k][j] = p.reg.defs[k][j]
                        /\ s \in v[k][j] <=> j \in IdsOf(rows)
      BY <1>4
    <3>1. CASE j = i
      BY <1>1, <1>3, <1>7, <3>1
    <3>2. CASE j # i
      <4>1. s \in p.reg.usage[k][j] <=> j \in IdsOf(old)
        BY DEF Fits, Uses, HasRow
      <4> QED
        BY <1>1, <1>2, <1>3, <3>2, <4>1
    <3> QED
      BY <3>1, <3>2
  <2> QED
    BY <1>1, <1>6, <1>10, <1>11, <2>1, <2>2, ListLeads
<1>13. Leads(p, u, s, {k})
  BY <1>8, <1>12
<1>14. u.reg = reg /\ u.ses = ses
  BY <1>8
<1> HIDE DEF ses
<1> QED
  BY <1>2, <1>4, <1>9, <1>13, <1>14 DEF rows, RowsWithout, RowLess, DefsBut

\* The library: a definition is used or no longer used by the session, or it
\* is deleted if nobody else has it.
LEMMA LibraryKeeps ==
  ASSUME Inv, NEW s \in open, NEW k \in Kinds, NEW i \in Ids
  PROVE  /\ TogglesInLibrary(s, k, i) => Inv' /\ Noted
         /\ DeletesInLibrary(s, k, i) => Inv' /\ Noted
<1>1. /\ s \in Sessions /\ FiltersConstants /\ Fits(Of(s), s) /\ Of(s).reg = registry
      /\ Of(s).ses = session[s] /\ session[s] \in SessionStates
      /\ Of(s) = [reg |-> registry, ses |-> session[s]]
  BY SessionIs DEF Inv, Of
<1>2. ASSUME NEW q, Leads(Of(s), q, s, {k}), Becomes(s, SyncedRows(q, {k}))
      PROVE  Inv' /\ Noted
  <2>1. \A kk \in Kinds \ {k} : Effective(q, kk) = Effective(Of(s), kk)
    BY <1>1, <1>2, EffectiveKept
  <2> QED
    BY <1>2, <2>1, RowsStep
<1>3. ASSUME NEW q, Leads(Of(s), q, s, {k}), Becomes(s, q), ~IsEnabled(session[s], k, i),
             \A j \in Ids \ {i} : q.reg.defs[k][j] = Of(s).reg.defs[k][j],
             RowLess(Of(s), q, k, i)
      PROVE  Inv' /\ Noted
  <2>1. Fits(q, s) /\ q.ses.temp = Of(s).ses.temp
    BY <1>3 DEF Leads
  <2>2. Effective(q, k) = Effective(Of(s), k)
    BY <1>1, <1>3, <2>1, DisabledLeftOut
  <2>3. \A kk \in Kinds : Effective(q, kk) = Effective(Of(s), kk)
    <3> SUFFICES ASSUME NEW kk \in Kinds, kk # k PROVE Effective(q, kk) = Effective(Of(s), kk)
      BY <2>2
    <3> QED
      BY <1>1, <1>3, EffectiveKept
  <2> QED
    BY <1>3, <2>3, QuietStep
<1>4. ASSUME TogglesInLibrary(s, k, i) PROVE Inv' /\ Noted
  <2> DEFINE less == WithoutRow(Of(s), s, k, i)
             more == WithRow(Of(s), s, k, i, TRUE)
  <2>1. i \in Defined(registry, k)
    BY <1>4 DEF TogglesInLibrary
  <2>2. /\ Leads(Of(s), less, s, {k}) /\ SameDefs(Of(s), less)
        /\ RowLess(Of(s), less, k, i)
    <3>1. Fits(Of(s), s) /\ s \in Sessions /\ FiltersConstants
      BY <1>1
    <3>2. Leads(Of(s), less, s, {k})
      BY <3>1, WithoutRowIs
    <3>3. SameDefs(Of(s), less)
      BY <3>1, WithoutRowIs
    <3>4. RowLess(Of(s), less, k, i)
      BY <3>1, WithoutRowIs
    <3> QED
      BY <3>2, <3>3, <3>4
  <2>3. Leads(Of(s), more, s, {k})
    BY <1>1, <2>1, WithRowLeads
  <2>4. \/ ~IsEnabled(session[s], k, i) /\ Becomes(s, less)
        \/ Becomes(s, SyncedRows(less, {k}))
        \/ Becomes(s, SyncedRows(more, {k}))
    BY <1>4 DEF TogglesInLibrary
  <2> HIDE DEF less, more
  <2> QED
    BY <1>2, <1>3, <2>2, <2>3, <2>4 DEF SameDefs
<1>5. ASSUME DeletesInLibrary(s, k, i) PROVE Inv' /\ Noted
  <2> DEFINE less == WithoutRow([reg |-> Removed(registry, k, i), ses |-> session[s]], s, k, i)
  <2>1. CanRemove(registry, k, i, s)
    BY <1>5 DEF DeletesInLibrary
  <2>2. [Of(s) EXCEPT !.reg = Removed(@, k, i)]
          = [reg |-> Removed(registry, k, i), ses |-> session[s]]
    BY <1>1
  <2>3. \/ ~IsEnabled(session[s], k, i) /\ Becomes(s, less)
        \/ Becomes(s, SyncedRows(less, {k}))
    BY <1>5, <2>2 DEF DeletesInLibrary
  <2>4. less = WithoutRow([reg |-> Removed(Of(s).reg, k, i), ses |-> Of(s).ses], s, k, i)
    BY <1>1
  <2> HIDE DEF less
  <2>5. /\ Leads(Of(s), less, s, {k})
        /\ \A j \in Ids \ {i} : less.reg.defs[k][j] = Of(s).reg.defs[k][j]
        /\ RowLess(Of(s), less, k, i)
    <3>1. CanRemove(Of(s).reg, k, i, s)
      BY <1>1, <2>1
    <3>2. DefsBut(Of(s).reg, less.reg, k, i)
      BY <1>1, <2>4, <3>1, DeletedIs
    <3>3. Leads(Of(s), less, s, {k}) /\ RowLess(Of(s), less, k, i)
      BY <1>1, <2>4, <3>1, DeletedIs
    <3> QED
      BY <3>2, <3>3 DEF DefsBut
  <2> QED
    BY <1>2, <1>3, <2>3, <2>5
<1> QED
  BY <1>4, <1>5

-----------------------------------------------------------------------------
(* Conversions, edits, presets.                                             *)

\* apply_filter never makes the rows fewer.
LEMMA WithRowIsLonger ==
  ASSUME NEW s, NEW p, Fits(p, s), NEW k \in Kinds, NEW i \in Ids, NEW e \in BOOLEAN
  PROVE  Len(WithRow(p, s, k, i, e).ses.rows[k]) >= Len(p.ses.rows[k])
<1> DEFINE old == p.ses.rows[k]
           n == FirstRow(p.ses, k, i)
           set == [old EXCEPT ![n].enabled = e]
           row == [id |-> i, enabled |-> e]
<1>1. /\ p \in Pairs /\ p.ses \in SessionStates /\ p.ses.rows \in [Kinds -> Seq(Rows)]
      /\ old \in Seq(Rows) /\ Len(old) \in Nat
  BY PairIs DEF Fits
<1>2. CASE HasRow(p.ses, k, i)
  <2>1. WithRow(p, s, k, i, e) = [p EXCEPT !.ses = SetEnabled(p.ses, k, i, e)]
    BY <1>2 DEF WithRow
  <2>2. WithRow(p, s, k, i, e).ses = SetEnabled(p.ses, k, i, e)
    BY <1>1, <2>1 DEF Pairs
  <2>3. n \in DOMAIN old
    BY <1>1, <1>2, FirstRowIs
  <2>4. set \in Seq(Rows) /\ Len(set) = Len(old)
    <3>1. old[n] \in Rows
      BY <1>1, <2>3, RowsAre
    <3>2. [old[n] EXCEPT !.enabled = e] \in Rows
      BY <3>1 DEF Rows
    <3> HIDE DEF n
    <3> QED
      BY <1>1, <2>3, <3>2
  <2>5. CASE SetEnabled(p.ses, k, i, e) = p.ses
    BY <1>1, <2>2, <2>5
  <2>6. CASE SetEnabled(p.ses, k, i, e) # p.ses
    <3>1. SetEnabled(p.ses, k, i, e) = [p.ses EXCEPT !.rows[k] = set, !.bumped = TRUE]
      BY <2>6 DEF SetEnabled
    <3> HIDE DEF set
    <3>2. SetEnabled(p.ses, k, i, e).rows[k] = set
      BY <1>1, <3>1 DEF SessionStates
    <3> QED
      BY <1>1, <2>2, <2>4, <3>2
  <2> QED
    BY <2>5, <2>6
<1>3. CASE ~HasRow(p.ses, k, i)
  <2>1. WithRow(p, s, k, i, e).ses = [p.ses EXCEPT !.rows[k] = Append(old, row), !.bumped = TRUE]
    BY <1>3 DEF WithRow
  <2>2. WithRow(p, s, k, i, e).ses.rows[k] = Append(old, row)
    BY <1>1, <2>1 DEF SessionStates
  <2>3. row \in Rows
    BY DEF Rows
  <2>4. Len(Append(old, row)) = Len(old) + 1
    BY <1>1, <2>3
  <2> QED
    BY <1>1, <2>2, <2>4
<1> QED
  BY <1>2, <1>3

\* A filter becomes a search value or the other way round: the other
\* sessions keep the definition they use.
LEMMA ConversionKeeps ==
  ASSUME Inv, NEW s \in open, NEW k \in Kinds, NEW i \in Ids,
         NEW slot \in 1 .. Len(session[s].rows[Other(k)]) + 1, MovesToOther(s, k, i, slot)
  PROVE  Inv' /\ Noted
<1> DEFINE o == Other(k)
           e == IsEnabled(session[s], k, i)
           t == registry.defs[k][i]
           p == Of(s)
<1>1. /\ s \in Sessions /\ FiltersConstants /\ Fits(p, s) /\ p.reg = registry
      /\ p.ses = session[s] /\ session[s] \in SessionStates /\ registry \in Registries
      /\ Sound(registry) /\ p = [reg |-> registry, ses |-> session[s]]
  BY SessionIs DEF Inv, Of
<1>2. PICK b \in Converted(registry, k, i, s) :
        LET left == WithoutRow([reg |-> b.reg, ses |-> session[s]], s, k, i)
            come == WithRow(left, s, Other(k), b.id, IsEnabled(session[s], k, i))
            put  == [come EXCEPT !.ses = MovedTo(come.ses, Other(k), b.id, slot)]
        IN  Becomes(s, SyncedRows(put, Kinds))
  BY DEF MovesToOther
<1>3. Convertible(registry, k, i)
  BY <1>2 DEF Converted
<1>4. PICK a \in Added(registry, o, t) : b = [a EXCEPT !.reg = RemovedIfFree(a.reg, k, i, s)]
  BY <1>2, <1>3 DEF Converted
<1>5. o \in Kinds /\ o # k
  BY KindsAre
<1>6. i \in Ids /\ t \in Texts
  BY <1>1, <1>3 DEF Convertible, Defined, Registries
<1>7. e \in BOOLEAN
  <2>1. HasRow(session[s], k, i)
    BY DEF MovesToOther
  <2>2. session[s].rows[k] \in Seq(Rows)
    BY <1>1, PairIs DEF Fits
  <2>3. session[s].rows[k][FirstRow(session[s], k, i)].enabled \in BOOLEAN
    BY <2>1, <2>2, FirstRowIs, RowsAre
  <2> QED
    BY <2>1, <2>3 DEF IsEnabled
<1>8. /\ a = [reg |-> a.reg, id |-> a.id] /\ a.id \in Ids /\ a.id \in Defined(a.reg, o)
      /\ a.reg.usage = registry.usage
  BY <1>1, <1>5, <1>6, AddedIs
<1>9. b.reg = RemovedIfFree(a.reg, k, i, s) /\ b.id = a.id
  BY <1>4, <1>8
<1> DEFINE q == [p EXCEPT !.reg = a.reg]
           left == WithoutRow([reg |-> b.reg, ses |-> session[s]], s, k, i)
           come == WithRow(left, s, o, a.id, e)
           put  == [come EXCEPT !.ses = MovedTo(come.ses, o, a.id, slot)]
<1>10. Becomes(s, SyncedRows(put, Kinds))
  BY <1>2, <1>9
<1>11. q = [reg |-> a.reg, ses |-> session[s]]
  BY <1>1
<1>12. left = WithoutRow([reg |-> RemovedIfFree(a.reg, k, i, s), ses |-> session[s]], s, k, i)
  BY <1>9
<1>13. Leads(p, q, s, {})
  <2>1. t \in Texts /\ a \in Added(p.reg, o, t)
    BY <1>1, <1>6
  <2> QED
    BY <1>1, <1>5, <2>1, AddLeads
<1> HIDE DEF o, e, t, p, q, left
<1>14. q.reg = a.reg /\ q.ses = session[s] /\ Fits(q, s)
  BY <1>11, <1>13 DEF Leads
<1>15. Leads(q, left, s, {k}) /\ DefsBut(q.reg, left.reg, k, i)
  <2>1. CASE CanRemove(a.reg, k, i, s)
    <3>1. left = WithoutRow([reg |-> Removed(q.reg, k, i), ses |-> q.ses], s, k, i)
      BY <1>12, <1>14, <2>1 DEF RemovedIfFree
    <3> QED
      BY <1>1, <1>14, <2>1, <3>1, DeletedIs
  <2>2. CASE ~CanRemove(a.reg, k, i, s)
    <3>1. left = WithoutRow(q, s, k, i)
      BY <1>11, <1>12, <2>2 DEF RemovedIfFree
    <3>2. Fits(q, s) /\ s \in Sessions /\ FiltersConstants
      BY <1>1, <1>14
    <3>3. Leads(q, WithoutRow(q, s, k, i), s, {k})
      BY <3>2, WithoutRowIs
    <3>4. SameDefs(q, WithoutRow(q, s, k, i))
      BY <3>2, WithoutRowIs
    <3> QED
      BY <3>1, <3>3, <3>4 DEF DefsBut, SameDefs
  <2> QED
    BY <2>1, <2>2
<1>16. Fits(left, s) /\ a.id \in Defined(left.reg, o) /\ left.ses.rows[o] = session[s].rows[o]
  <2>1. left.reg.defs[o][a.id] = q.reg.defs[o][a.id]
    BY <1>5, <1>8, <1>15 DEF DefsBut
  <2>2. a.id \in Defined(left.reg, o)
    BY <1>8, <1>14, <2>1 DEF Defined
  <2>3. SameKind(q, left, o)
    BY <1>5, <1>15 DEF Leads
  <2> QED
    BY <1>14, <1>15, <2>2, <2>3 DEF Leads, SameKind
<1>17. Leads(left, come, s, {o}) /\ Len(come.ses.rows[o]) >= Len(session[s].rows[o])
  BY <1>1, <1>5, <1>7, <1>8, <1>16, WithRowLeads, WithRowIsLonger
<1> HIDE DEF come
<1>18. Leads(come, put, s, {o})
  <2>1. Fits(come, s)
    BY <1>17 DEF Leads
  <2>2. slot \in 1 .. Len(come.ses.rows[o]) + 1
    <3>1. come.ses.rows[o] \in Seq(Rows) /\ session[s].rows[o] \in Seq(Rows)
      BY <1>1, <1>5, <2>1, PairIs DEF Fits
    <3>2. Len(come.ses.rows[o]) \in Nat /\ Len(session[s].rows[o]) \in Nat
      BY <3>1
    <3>3. slot \in 1 .. Len(session[s].rows[o]) + 1
      BY DEF o
    <3> QED
      BY <1>17, <3>2, <3>3
  <2> QED
    BY <1>1, <1>5, <2>1, <2>2, MoveLeads
<1> HIDE DEF put
<1>19. Leads(p, put, s, (({} \cup {k}) \cup {o}) \cup {o})
  BY <1>13, <1>15, <1>17, <1>18, LeadsOn
<1> QED
  BY <1>10, <1>19, RowsStep DEF p

\* The text of a definition is changed that nobody else uses.
LEMMA InPlaceLeads ==
  ASSUME FiltersConstants, NEW s \in Sessions, NEW p, Fits(p, s), NEW k \in Kinds,
         NEW i \in Ids, NEW t \in Texts, CanEdit(p.reg, k, i, s),
         Cardinality(p.reg.usage[k][i]) <= 1
  PROVE  Leads(p, [reg |-> [p.reg EXCEPT !.defs[k][i] = t],
                   ses |-> [p.ses EXCEPT !.bumped = TRUE]], s, {k})
<1> DEFINE old == p.ses.rows[k]
           d == [p.reg.defs EXCEPT ![k][i] = t]
           reg == [p.reg EXCEPT !.defs[k][i] = t]
<1>0. /\ p \in Pairs /\ old \in Seq(Rows) /\ Distinct(old)
      /\ p.ses \in SessionStates /\ Sound(p.reg) /\ p.ses.rows \in [Kinds -> Seq(Rows)]
      /\ p.reg.defs \in [Kinds -> [Ids -> Texts \cup {NoText}]]
      /\ p.reg.usage \in [Kinds -> [Ids -> SUBSET Sessions]]
      /\ p.reg \in Registries
  BY PairIs DEF Fits, Sound, Registries
<1>1. p.reg.usage[k][i] = {s}
  <2> DEFINE U == p.reg.usage[k][i]
  <2>1. s \in U /\ IsFiniteSet(U) /\ Cardinality(U) <= 1
    BY <1>0 DEF CanEdit, Uses, Sound
  <2> HIDE DEF U
  <2>2. Cardinality(U) \in Nat /\ Cardinality(U) # 0
    BY <2>1, FS_CardinalityType, FS_EmptySet
  <2>3. Cardinality(U) = 1
    BY <2>1, <2>2
  <2>4. \E x : U = {x}
    BY <2>1, <2>3, FS_Singleton
  <2>5. U = {s}
    BY <2>1, <2>4
  <2> QED
    BY <2>5 DEF U
<1>2. /\ d \in [Kinds -> [Ids -> Texts \cup {NoText}]] /\ d[k][i] = t
      /\ \A kk \in Kinds, j \in Ids : kk # k \/ j # i => d[kk][j] = p.reg.defs[kk][j]
  BY <1>0
<1>3. /\ reg \in Registries /\ reg.defs = d /\ reg.usage = p.reg.usage /\ reg.made = p.reg.made
  <2>1. reg = [p.reg EXCEPT !.defs = d]
    OBVIOUS
  <2> HIDE DEF d, reg
  <2> QED
    BY <1>0, <1>2, <2>1 DEF Registries
<1> HIDE DEF d, reg
<1>4. t # NoText /\ p.reg.defs[k][i] # NoText
  BY ConstantsAre DEF CanEdit, Defined
<1>5. Sound(reg)
  <2> SUFFICES ASSUME NEW kk \in Kinds, NEW j \in Ids
               PROVE  /\ IsFiniteSet(p.reg.usage[kk][j])
                      /\ j > p.reg.made => d[kk][j] = NoText
                      /\ p.reg.usage[kk][j] # {} => d[kk][j] # NoText
    BY <1>3 DEF Sound
  <2>1. CASE kk = k /\ j = i
    BY <1>0, <1>2, <1>4, <2>1 DEF Sound
  <2>2. CASE kk # k \/ j # i
    BY <1>0, <1>2, <2>2 DEF Sound
  <2> QED
    BY <2>1, <2>2
<1>6. [p.ses EXCEPT !.bumped = TRUE] = [p.ses EXCEPT !.rows[k] = old, !.bumped = TRUE]
  BY <1>0 DEF SessionStates
<1>7. Leads(p, [reg |-> reg, ses |-> [p.ses EXCEPT !.rows[k] = old, !.bumped = TRUE]], s, {k})
  <2>1. \A kk \in Kinds, j \in Ids : kk # k =>
          reg.defs[kk][j] = p.reg.defs[kk][j] /\ reg.usage[kk][j] = p.reg.usage[kk][j]
    BY <1>2, <1>3
  <2>2. \A j \in Ids :
          /\ reg.usage[k][j] \ {s} = p.reg.usage[k][j] \ {s}
          /\ p.reg.usage[k][j] \ {s} # {} => reg.defs[k][j] = p.reg.defs[k][j]
          /\ s \in reg.usage[k][j] <=> j \in IdsOf(old)
    <3> SUFFICES ASSUME NEW j \in Ids
                 PROVE  /\ p.reg.usage[k][j] \ {s} # {} => d[k][j] = p.reg.defs[k][j]
                        /\ s \in p.reg.usage[k][j] <=> j \in IdsOf(old)
      BY <1>3
    <3>1. s \in p.reg.usage[k][j] <=> j \in IdsOf(old)
      BY DEF Fits, Uses, HasRow
    <3> QED
      BY <1>1, <1>2, <3>1
  <2> QED
    BY <1>0, <1>5, <2>1, <2>2, ListLeads
<1> QED
  BY <1>6, <1>7 DEF reg

\* A row gets another definition, one that no other row of the session has.
LEMMA ReboundLeads ==
  ASSUME FiltersConstants, NEW s \in Sessions, NEW p, Fits(p, s), NEW k \in Kinds,
         NEW i \in Ids, HasRow(p.ses, k, i), NEW j \in Defined(p.reg, k), ~HasRow(p.ses, k, j)
  PROVE  Leads(p, [reg |-> Applied(Unapplied(p.reg, k, i, s), k, j, s),
                   ses |-> Rebound(p.ses, k, i, j)], s, {k})
<1> DEFINE old == p.ses.rows[k]
           n == FirstRow(p.ses, k, i)
           rows == [old EXCEPT ![n].id = j]
           use == p.reg.usage
           v == [use EXCEPT ![k][i] = use[k][i] \ {s}]
           u == [v EXCEPT ![k][j] = v[k][j] \cup {s}]
           reg == Applied(Unapplied(p.reg, k, i, s), k, j, s)
<1>0. /\ p \in Pairs /\ old \in Seq(Rows) /\ Distinct(old)
      /\ p.ses \in SessionStates /\ Sound(p.reg) /\ p.ses.rows \in [Kinds -> Seq(Rows)]
      /\ use \in [Kinds -> [Ids -> SUBSET Sessions]]
      /\ p.reg \in Registries
  BY PairIs DEF Fits, Sound, Registries
<1>1. j \in Ids /\ j # i /\ p.reg.defs[k][j] # NoText
  BY DEF Defined
<1>2. n \in DOMAIN old /\ old[n].id = i
  BY <1>0, FirstRowIs
<1> HIDE DEF n
<1>3. /\ rows \in Seq(Rows) /\ DOMAIN rows = DOMAIN old /\ rows[n].id = j
      /\ \A m \in DOMAIN old : m # n => rows[m] = old[m]
  <2>1. \A m \in DOMAIN old : old[m] \in Rows
    BY <1>0, RowsAre
  <2>2. [old[n] EXCEPT !.id = j] \in Rows /\ [old[n] EXCEPT !.id = j].id = j
    BY <1>1, <1>2, <2>1 DEF Rows
  <2> QED
    BY <1>0, <1>2, <2>1, <2>2
<1> HIDE DEF rows
<1>4. \A m \in DOMAIN old : old[m].id # j
  BY DEF HasRow, IdsOf
<1>5. Distinct(rows)
  BY <1>0, <1>3, <1>4 DEF Distinct
<1>6. IdsOf(rows) = (IdsOf(old) \ {i}) \cup {j}
  <2>1. \A m \in DOMAIN old : m # n => old[m].id # i
    BY <1>0, <1>2 DEF Distinct
  <2>2. \A m \in DOMAIN rows : rows[m].id \in (IdsOf(old) \ {i}) \cup {j}
    BY <1>3, <2>1 DEF IdsOf
  <2>3. \A x \in (IdsOf(old) \ {i}) \cup {j} : \E m \in DOMAIN rows : rows[m].id = x
    <3>1. \A x \in IdsOf(old) \ {i} : \E m \in DOMAIN old : old[m].id = x /\ m # n
      BY <1>2 DEF IdsOf
    <3> QED
      BY <1>2, <1>3, <3>1
  <2> QED
    BY <2>2, <2>3 DEF IdsOf
<1>7. /\ v \in [Kinds -> [Ids -> SUBSET Sessions]] /\ v[k][i] = use[k][i] \ {s}
      /\ \A kk \in Kinds, x \in Ids : kk # k \/ x # i => v[kk][x] = use[kk][x]
  BY <1>0
<1> HIDE DEF v
<1>8. /\ u \in [Kinds -> [Ids -> SUBSET Sessions]] /\ u[k][i] = use[k][i] \ {s}
      /\ u[k][j] = use[k][j] \cup {s}
      /\ \A kk \in Kinds, x \in Ids : kk # k \/ (x # i /\ x # j) => u[kk][x] = use[kk][x]
  <2>1. /\ u \in [Kinds -> [Ids -> SUBSET Sessions]] /\ u[k][j] = v[k][j] \cup {s}
        /\ \A kk \in Kinds, x \in Ids : kk # k \/ x # j => u[kk][x] = v[kk][x]
    BY <1>1, <1>7
  <2> HIDE DEF u
  <2> QED
    BY <1>1, <1>7, <2>1
<1>9. reg \in Registries /\ reg.defs = p.reg.defs /\ reg.usage = u /\ reg.made = p.reg.made
  <2>1. Unapplied(p.reg, k, i, s) = [p.reg EXCEPT !.usage = v]
    BY DEF Unapplied, v
  <2>2. /\ [p.reg EXCEPT !.usage = v].usage = v /\ [p.reg EXCEPT !.usage = v] \in Registries
        /\ [p.reg EXCEPT !.usage = v].defs = p.reg.defs
        /\ [p.reg EXCEPT !.usage = v].made = p.reg.made
    BY <1>0, <1>7 DEF Registries
  <2> DEFINE w == [p.reg EXCEPT !.usage = v]
  <2>3. reg = [w EXCEPT !.usage = u]
    BY <2>1, <2>2 DEF Applied
  <2> HIDE DEF u, reg
  <2>4. w \in Registries /\ w.defs = p.reg.defs /\ w.made = p.reg.made
    BY <2>2
  <2> HIDE DEF w
  <2> QED
    BY <1>8, <2>3, <2>4 DEF Registries
<1> HIDE DEF u, reg
<1>10. Sound(reg)
  <2> SUFFICES ASSUME NEW kk \in Kinds, NEW x \in Ids
               PROVE  /\ IsFiniteSet(u[kk][x])
                      /\ x > p.reg.made => p.reg.defs[kk][x] = NoText
                      /\ u[kk][x] # {} => p.reg.defs[kk][x] # NoText
    BY <1>9 DEF Sound
  <2>1. /\ IsFiniteSet(use[kk][x])
        /\ x > p.reg.made => p.reg.defs[kk][x] = NoText
        /\ use[kk][x] # {} => p.reg.defs[kk][x] # NoText
    BY <1>0 DEF Sound
  <2>2. CASE kk = k /\ x = i
    <3>1. use[kk][x] \ {s} \in SUBSET use[kk][x]
      OBVIOUS
    <3>2. IsFiniteSet(use[kk][x] \ {s})
      BY <2>1, <3>1, FS_Subset
    <3> QED
      BY <1>8, <2>1, <2>2, <3>2
  <2>3. CASE kk = k /\ x = j
    <3>1. IsFiniteSet(use[kk][x] \cup {s})
      BY <2>1, FS_AddElement
    <3> QED
      BY <1>1, <1>8, <2>1, <2>3, <3>1
  <2>4. CASE kk # k \/ (x # i /\ x # j)
    BY <1>8, <2>1, <2>4
  <2> QED
    BY <2>2, <2>3, <2>4
<1>11. Rebound(p.ses, k, i, j) = [p.ses EXCEPT !.rows[k] = rows, !.bumped = TRUE]
  BY DEF Rebound, rows, n
<1>12. Leads(p, [reg |-> reg, ses |-> [p.ses EXCEPT !.rows[k] = rows, !.bumped = TRUE]], s, {k})
  <2>1. \A kk \in Kinds, x \in Ids : kk # k =>
          reg.defs[kk][x] = p.reg.defs[kk][x] /\ reg.usage[kk][x] = p.reg.usage[kk][x]
    BY <1>8, <1>9
  <2>2. \A x \in Ids :
          /\ reg.usage[k][x] \ {s} = p.reg.usage[k][x] \ {s}
          /\ p.reg.usage[k][x] \ {s} # {} => reg.defs[k][x] = p.reg.defs[k][x]
          /\ s \in reg.usage[k][x] <=> x \in IdsOf(rows)
    <3> SUFFICES ASSUME NEW x \in Ids
                 PROVE  /\ u[k][x] \ {s} = use[k][x] \ {s}
                        /\ s \in u[k][x] <=> x \in IdsOf(rows)
      BY <1>9
    <3>1. s \in use[k][x] <=> x \in IdsOf(old)
      BY DEF Fits, Uses, HasRow
    <3>2. CASE x = i
      BY <1>1, <1>6, <1>8, <3>2
    <3>3. CASE x = j
      BY <1>6, <1>8, <3>3
    <3>4. CASE x # i /\ x # j
      BY <1>6, <1>8, <3>1, <3>4
    <3> QED
      BY <3>2, <3>3, <3>4
  <2> QED
    BY <1>3, <1>5, <1>10, <2>1, <2>2, ListLeads
<1> QED
  BY <1>11, <1>12 DEF reg

\* Editing a text: a definition that others use is left to them and the row
\* gets one of its own.
LEMMA EditKeeps ==
  ASSUME Inv, EditsMayMeet = FALSE, NEW s \in open, NEW k \in Kinds, NEW i \in Ids,
         NEW t \in Texts, EditsText(s, k, i, t)
  PROVE  Inv' /\ Noted
<1> DEFINE p == Of(s)
<1>1. /\ s \in Sessions /\ FiltersConstants /\ Fits(p, s) /\ p.reg = registry
      /\ p.ses = session[s] /\ session[s] \in SessionStates /\ registry \in Registries
      /\ Sound(registry) /\ p = [reg |-> registry, ses |-> session[s]]
  BY SessionIs DEF Inv, Of
<1>2. CanEdit(registry, k, i, s)
  BY DEF EditsText
<1>3. HasRow(session[s], k, i)
  BY <1>1, <1>2 DEF CanEdit, Fits
<1>4. PICK a \in Edited(registry, k, i, s, t) :
        /\ EditsMayMeet \/ ~Meets(s, k, i, a)
        /\ LET ses == IF a.id = i THEN [session[s] EXCEPT !.bumped = TRUE]
                      ELSE Rebound(session[s], k, i, a.id)
           IN  Becomes(s, SyncedRows([reg |-> a.reg, ses |-> ses], {k}))
  BY DEF EditsText
<1>5. ASSUME NEW q, NEW K, Leads(p, q, s, K), K \subseteq {k}, Becomes(s, SyncedRows(q, {k}))
      PROVE  Inv' /\ Noted
  <2>1. \A kk \in Kinds \ {k} : Effective(q, kk) = Effective(p, kk)
    BY <1>1, <1>5, EffectiveKept
  <2> QED
    BY <1>5, <2>1, RowsStep
<1>6. CASE Cardinality(registry.usage[k][i]) <= 1
  <2> DEFINE q == [reg |-> [p.reg EXCEPT !.defs[k][i] = t], ses |-> [p.ses EXCEPT !.bumped = TRUE]]
  <2>1. a = [reg |-> [registry EXCEPT !.defs[k][i] = t], id |-> i]
    BY <1>4, <1>6 DEF Edited
  <2>2. Becomes(s, SyncedRows(q, {k}))
    BY <1>1, <1>4, <2>1
  <2>3. Leads(p, q, s, {k})
    BY <1>1, <1>2, <1>6, InPlaceLeads
  <2> HIDE DEF p, q
  <2> QED
    BY <1>5, <2>2, <2>3
<1>7. CASE ~(Cardinality(registry.usage[k][i]) <= 1)
  <2>1. PICK b \in Added(registry, k, t) :
          a = IF b.id = i THEN b
              ELSE [b EXCEPT !.reg = Applied(Unapplied(b.reg, k, i, s), k, b.id, s)]
    BY <1>4, <1>7 DEF Edited
  <2>2. /\ b = [reg |-> b.reg, id |-> b.id] /\ b.id \in Ids /\ b.id \in Defined(b.reg, k)
    BY <1>1, AddedIs
  <2> DEFINE q == [p EXCEPT !.reg = b.reg]
  <2>3. q = [reg |-> b.reg, ses |-> session[s]]
    BY <1>1
  <2>4. Leads(p, q, s, {})
    BY <1>1, AddLeads
  <2> HIDE DEF q
  <2>5. Fits(q, s) /\ q.reg = b.reg /\ q.ses = session[s]
    BY <2>3, <2>4 DEF Leads
  <2>6. CASE b.id = i
    <3> DEFINE u == [q EXCEPT !.ses.bumped = TRUE]
    <3>1. u = [reg |-> b.reg, ses |-> [session[s] EXCEPT !.bumped = TRUE]]
      <4> DEFINE ses == [session[s] EXCEPT !.bumped = TRUE]
      <4>1. u = [q EXCEPT !.ses = [q.ses EXCEPT !.bumped = TRUE]]
        OBVIOUS
      <4>2. u = [q EXCEPT !.ses = ses]
        BY <2>5, <4>1
      <4> HIDE DEF ses
      <4>3. [q EXCEPT !.ses = ses] = [reg |-> b.reg, ses |-> ses]
        BY <2>3
      <4> QED
        BY <4>2, <4>3 DEF ses
    <3>2. Becomes(s, SyncedRows(u, {k}))
      BY <1>4, <2>1, <2>6, <3>1
    <3>3. Leads(q, u, s, {})
      BY <1>1, <2>5, MarkLeads
    <3> HIDE DEF u, p
    <3>4. Leads(p, u, s, {} \cup {})
      BY <2>4, <3>3, LeadsOn
    <3> QED
      BY <1>5, <3>2, <3>4
  <2>7. CASE b.id # i
    <3> DEFINE u == [reg |-> Applied(Unapplied(q.reg, k, i, s), k, b.id, s),
                     ses |-> Rebound(q.ses, k, i, b.id)]
    <3>1. a.reg = Applied(Unapplied(b.reg, k, i, s), k, b.id, s) /\ a.id = b.id
      BY <2>1, <2>2, <2>7
    <3>2. ~HasRow(session[s], k, b.id)
      BY <1>4, <2>7, <3>1 DEF Meets
    <3>3. Becomes(s, SyncedRows(u, {k}))
      BY <1>4, <2>5, <2>7, <3>1
    <3>4. Leads(q, u, s, {k})
      BY <1>1, <1>3, <2>2, <2>5, <3>2, ReboundLeads
    <3> HIDE DEF u, p
    <3>5. Leads(p, u, s, {} \cup {k})
      BY <2>4, <3>4, LeadsOn
    <3> QED
      BY <1>5, <3>3, <3>5
  <2> QED
    BY <2>6, <2>7
<1> QED
  BY <1>6, <1>7

-----------------------------------------------------------------------------
(* Presets.                                                                 *)

\* A handler may change less than it is allowed to.
LEMMA LeadsMore ==
  ASSUME NEW s, NEW p, NEW q, NEW K, NEW L, Leads(p, q, s, K), K \subseteq L
  PROVE  Leads(p, q, s, L)
BY DEF Leads

\* One entry of a preset or a saved state.
LEMMA MergedLeads ==
  ASSUME FiltersConstants, NEW s \in Sessions, NEW p, Fits(p, s), NEW k \in Kinds,
         NEW entry \in [text : Texts, enabled : BOOLEAN] \cup {NoEntry},
         NEW u \in Merged(p, s, k, entry)
  PROVE  /\ Leads(p, u, s, IF entry = NoEntry THEN {} ELSE {k})
         /\ Extends(p.reg, u.reg)
<1>1. CASE entry = NoEntry
  <2>1. u = p
    BY <1>1 DEF Merged
  <2> QED
    BY <1>1, <2>1, LeadsNowhere DEF Extends
<1>2. CASE entry # NoEntry
  <2>1. entry.text \in Texts /\ entry.enabled \in BOOLEAN
    BY <1>2
  <2>2. PICK a \in Added(p.reg, k, entry.text) :
          u = WithRow([p EXCEPT !.reg = a.reg], s, k, a.id, entry.enabled)
    BY <1>2 DEF Merged
  <2> DEFINE q == [p EXCEPT !.reg = a.reg]
  <2>3. Extends(p.reg, a.reg) /\ a.id \in Defined(a.reg, k)
    BY <2>1, AddedIs DEF Fits
  <2>4. q.reg = a.reg
    BY DEF Fits, Pairs
  <2>5. Leads(p, q, s, {})
    BY <2>1, AddLeads
  <2>6. u = WithRow(q, s, k, a.id, entry.enabled)
    BY <2>2
  <2> HIDE DEF q
  <2>7. Leads(q, u, s, {k}) /\ u.reg.defs = q.reg.defs
    <3>1. Fits(q, s)
      BY <2>5 DEF Leads
    <3>2. a.id \in Defined(q.reg, k)
      BY <2>3, <2>4
    <3>3. /\ Leads(q, WithRow(q, s, k, a.id, entry.enabled), s, {k})
          /\ WithRow(q, s, k, a.id, entry.enabled).reg.defs = q.reg.defs
      BY <2>1, <3>1, <3>2, WithRowLeads
    <3> QED
      BY <2>6, <3>3
  <2>8. Leads(p, u, s, {} \cup {k})
    BY <2>5, <2>7, LeadsOn
  <2>9. {} \cup {k} = IF entry = NoEntry THEN {} ELSE {k}
    BY <1>2
  <2>10. Extends(p.reg, u.reg)
    BY <2>3, <2>4, <2>7 DEF Extends
  <2> QED
    BY <2>8, <2>9, <2>10
<1> QED
  BY <1>1, <1>2

\* All entries of a preset.
LEMMA PresetLeads ==
  ASSUME FiltersConstants, NEW s \in Sessions, NEW p, Fits(p, s), NEW preset \in Presets,
         NEW u \in WithPreset(p, s, preset)
  PROVE  /\ Leads(p, u, s, {k \in Kinds : preset[k] # NoEntry})
         /\ Extends(p.reg, u.reg)
<1> DEFINE K(k) == IF preset[k] = NoEntry THEN {} ELSE {k}
<1>1. preset \in [Kinds -> [text : Texts, enabled : BOOLEAN] \cup {NoEntry}]
  BY DEF FiltersConstants
<1>2. "filter" \in Kinds /\ "value" \in Kinds
  BY DEF Kinds
<1>3. PICK q \in Merged(p, s, "filter", preset["filter"]) :
        u \in Merged(q, s, "value", preset["value"])
  BY DEF WithPreset
<1>4. Leads(p, q, s, K("filter")) /\ Extends(p.reg, q.reg)
  BY <1>1, <1>2, MergedLeads
<1>5. Leads(q, u, s, K("value")) /\ Extends(q.reg, u.reg)
  BY <1>1, <1>2, <1>3, <1>4, MergedLeads DEF Leads
<1>6. K("filter") \cup K("value") \subseteq {k \in Kinds : preset[k] # NoEntry}
  BY <1>2
<1> HIDE DEF K
<1>7. Leads(p, u, s, K("filter") \cup K("value"))
  BY <1>4, <1>5, LeadsOn
<1>8. Leads(p, u, s, {k \in Kinds : preset[k] # NoEntry})
  BY <1>6, <1>7, LeadsMore
<1>9. ASSUME NEW k \in Kinds, NEW i \in Defined(p.reg, k)
      PROVE  u.reg.defs[k][i] = p.reg.defs[k][i]
  <2>1. q.reg.defs[k][i] = p.reg.defs[k][i]
    BY <1>4 DEF Extends
  <2>2. i \in Defined(q.reg, k)
    BY <2>1 DEF Defined
  <2> QED
    BY <1>5, <2>1, <2>2 DEF Extends
<1> QED
  BY <1>8, <1>9 DEF Extends

\* Rows were added, and the same ones are searched for.
LEMMA SameIdsSearched ==
  ASSUME FiltersConstants, NEW s \in Sessions, NEW p, Fits(p, s), NEW q, Fits(q, s),
         Extends(p.reg, q.reg), q.ses.temp = p.ses.temp, NEW k \in Kinds,
         EnabledIds(q.ses, k) = EnabledIds(p.ses, k)
  PROVE  Effective(q, k) = Effective(p, k)
<1> DEFINE a == EnabledRows(p.ses, k)
           b == EnabledRows(q.ses, k)
<1>1. a \in Seq(Rows) /\ b \in Seq(Rows) /\ IdsOf(a) \subseteq Defined(p.reg, k)
  BY RowsDefined
<1>2. EnabledIds(q.ses, k) = [n \in DOMAIN b |-> b[n].id]
      /\ EnabledIds(p.ses, k) = [n \in DOMAIN a |-> a[n].id]
  BY DEF EnabledIds
<1>3. Effective(q, k) = (IF k = "filter" /\ q.ses.temp # NoText THEN <<q.ses.temp>>
                         ELSE TextOfEach(q.reg, k, b))
      /\ Effective(p, k) = IF k = "filter" /\ p.ses.temp # NoText THEN <<p.ses.temp>>
                           ELSE TextOfEach(p.reg, k, a)
  BY EffectiveIs
<1> HIDE DEF a, b
<1>4. DOMAIN a = DOMAIN b /\ \A n \in DOMAIN a : b[n].id = a[n].id
  <2>1. [n \in DOMAIN b |-> b[n].id] = [n \in DOMAIN a |-> a[n].id]
    BY <1>2
  <2>2. DOMAIN [n \in DOMAIN b |-> b[n].id] = DOMAIN [n \in DOMAIN a |-> a[n].id]
    BY <2>1
  <2>3. DOMAIN a = DOMAIN b
    BY <2>2
  <2>4. ASSUME NEW m \in DOMAIN a PROVE b[m].id = a[m].id
    <3>1. [n \in DOMAIN b |-> b[n].id][m] = [n \in DOMAIN a |-> a[n].id][m]
      BY <2>1
    <3> QED
      BY <2>3, <3>1
  <2> QED
    BY <2>3, <2>4
<1>5. \A n \in DOMAIN a : q.reg.defs[k][a[n].id] = p.reg.defs[k][a[n].id]
  BY <1>1 DEF Extends, IdsOf
<1>6. TextOfEach(q.reg, k, b) = TextOfEach(p.reg, k, a)
  BY <1>4, <1>5 DEF TextOfEach
<1> QED
  BY <1>3, <1>6

\* apply_preset: what has changed is asked for.
LEMMA PresetKeeps ==
  ASSUME Inv, NEW s \in open, NEW preset \in Presets, AppliesPreset(s, preset)
  PROVE  Inv' /\ Noted
<1> DEFINE p == Of(s)
<1>1. s \in Sessions /\ FiltersConstants /\ Fits(p, s) /\ p.ses = session[s]
  BY SessionIs DEF Inv
<1>2. PICK q \in WithPreset(p, s, preset) :
        Becomes(s, SyncedRows(q, {k \in Kinds : EnabledIds(q.ses, k) # EnabledIds(p.ses, k)}))
  BY <1>1 DEF AppliesPreset
<1> DEFINE L == {k \in Kinds : EnabledIds(q.ses, k) # EnabledIds(p.ses, k)}
<1>3. Leads(p, q, s, {k \in Kinds : preset[k] # NoEntry}) /\ Extends(p.reg, q.reg)
  BY <1>1, PresetLeads
<1>4. ASSUME NEW k \in Kinds \ L PROVE Effective(q, k) = Effective(p, k)
  <2>1. Fits(q, s) /\ q.ses.temp = p.ses.temp
    BY <1>3 DEF Leads
  <2>2. EnabledIds(q.ses, k) = EnabledIds(p.ses, k)
    BY <1>4
  <2> HIDE DEF p
  <2> QED
    BY <1>1, <1>3, <2>1, <2>2, SameIdsSearched
<1>5. Becomes(s, SyncedRows(q, L))
  BY <1>2
<1> HIDE DEF L
<1> QED
  BY <1>3, <1>4, <1>5, RowsStep

-----------------------------------------------------------------------------
(* Opening, closing, and the store of recent sessions.                      *)

\* What is beside the rows is changed.
LEMMA BesideIs ==
  ASSUME FiltersConstants, NEW s \in Sessions, NEW p, Fits(p, s),
         NEW ses \in SessionStates, ses.rows = p.ses.rows, ses.temp = p.ses.temp, NEW q,
         q = [reg |-> p.reg, ses |-> ses]
  PROVE  /\ Fits(q, s) /\ \A k \in Kinds : SameKind(p, q, k)
         /\ \A k \in Kinds : Effective(q, k) = Effective(p, k)
<1>1. p \in Pairs
  BY DEF Fits
<1>2. q \in Pairs /\ q.reg = p.reg /\ q.ses = ses
  BY <1>1 DEF Pairs
<1>3. Fits(q, s)
  BY <1>2 DEF Fits, HasRow
<1>4. \A k \in Kinds : SameKind(p, q, k)
  BY <1>2 DEF SameKind
<1>5. \A k \in Kinds : Effective(q, k) = Effective(p, k)
  BY <1>2, <1>3, <1>4, SameEffective
<1> QED
  BY <1>3, <1>4, <1>5

\* A session without rows searches for nothing.
LEMMA NewIsAsked ==
  ASSUME Inv, NEW s \in Sessions, s \notin open, NEW k \in Kinds
  PROVE  AskedFor(Of(s), k) /\ Of(s).ses = NewSession
<1>1. Of(s).ses = NewSession /\ FiltersConstants /\ Fits(Of(s), s)
  BY SessionIs
<1>2. Of(s).ses.rows[k] = << >> /\ Of(s).ses.temp = NoText /\ Of(s).ses.asked[k] = << >>
  BY <1>1 DEF NewSession
<1>3. EnabledRows(Of(s).ses, k) = << >>
  <2>1. {n \in DOMAIN << >> : << >>[n].enabled} = DOMAIN << >>
    OBVIOUS
  <2>2. << >> \in Seq(Rows)
    OBVIOUS
  <2>3. Kept(<< >>, DOMAIN << >>) = << >>
    BY <2>2, AllKept
  <2> QED
    BY <1>2, <2>1, <2>3 DEF EnabledRows
<1>4. Effective(Of(s), k) = << >>
  BY <1>1, <1>2, <1>3, EffectiveIs DEF TextOfEach
<1> QED
  BY <1>1, <1>2, <1>4 DEF AskedFor

\* A session is opened, with the saved state or without.
LEMMA OpenKeeps ==
  ASSUME Inv, NEW s \in Sessions, NEW preset \in Presets, Opens(s, preset)
  PROVE  Inv' /\ Noted
<1> DEFINE p == Of(s)
           D == {k \in Kinds : preset[k] # NoEntry}
<1>1. s \notin open /\ open' = open \cup {s} /\ open \in SUBSET Sessions
  BY DEF Opens, Inv
<1>2. /\ FiltersConstants /\ Fits(p, s) /\ p.reg = registry /\ p.ses = NewSession
      /\ p = [reg |-> registry, ses |-> session[s]]
  BY <1>1, SessionIs DEF Of
<1>3. [p EXCEPT !.ses = NewSession] = p
  BY <1>2
<1>4. PICK u \in WithPreset(p, s, preset) :
        /\ registry' = u.reg
        /\ session' = [session EXCEPT ![s] = [u.ses EXCEPT !.due = D, !.bumped = FALSE]]
  BY <1>3 DEF Opens
<1>5. Leads(p, u, s, D)
  BY <1>2, PresetLeads
<1> DEFINE ses == [u.ses EXCEPT !.due = D, !.bumped = FALSE]
           q == [reg |-> u.reg, ses |-> ses]
<1>6. Fits(u, s) /\ Others(p.reg, u.reg, s) /\ u.ses.asked = p.ses.asked
      /\ u.ses.due = p.ses.due
  BY <1>5 DEF Leads
<1>7. /\ ses \in SessionStates /\ ses.rows = u.ses.rows /\ ses.temp = u.ses.temp
      /\ ses.due = D /\ ses.asked = u.ses.asked
  <2>1. u.ses \in SessionStates /\ D \in SUBSET Kinds
    BY <1>6, PairIs DEF Fits
  <2> HIDE DEF D
  <2> QED
    BY <2>1 DEF SessionStates
<1>8. ASSUME NEW k \in Kinds \ D PROVE Effective(u, k) = Effective(p, k)
  BY <1>2, <1>5, <1>8, EffectiveKept
<1> HIDE DEF ses
<1>9. q.reg = u.reg /\ q.ses = ses
  OBVIOUS
<1>10. Fits(q, s) /\ \A k \in Kinds : Effective(q, k) = Effective(u, k)
  BY <1>2, <1>6, <1>7, BesideIs
<1> HIDE DEF p, q, D
<1>11. ASSUME NEW k \in Kinds PROVE AskedFor(q, k)
  <2>1. CASE k \in D
    BY <1>7, <1>9, <2>1 DEF AskedFor
  <2>2. CASE k \notin D
    <3>1. Effective(q, k) = Effective(p, k)
      BY <1>8, <1>10, <2>2
    <3>2. AskedFor(p, k) /\ p.ses.due = {}
      BY <1>1, <1>2, NewIsAsked DEF p, NewSession
    <3> QED
      BY <1>6, <1>7, <1>9, <3>1, <3>2 DEF AskedFor
  <2> QED
    BY <2>1, <2>2
<1>12. session' = [session EXCEPT ![s] = q.ses] /\ registry' = q.reg
  BY <1>4, <1>9 DEF ses
<1>13. Others(registry, q.reg, s)
  BY <1>2, <1>6, <1>9
<1>14. open' \in SUBSET Sessions /\ open' \ {s} = open \ {s} /\ s \in open'
  BY <1>1
<1> QED
  BY <1>1, <1>10, <1>11, <1>12, <1>13, <1>14, StepKeeps

\* What the host does with a session: its file is there, its state is taken
\* for saving, its tab is closed.
LEMMA HostKeeps ==
  ASSUME Inv, NEW s \in open
  PROVE  /\ FileReady(s) => Inv' /\ Noted
         /\ TakesState(s) => Inv' /\ Noted
         /\ Closes(s) => Inv' /\ Noted
<1> DEFINE p == Of(s)
<1>1. /\ s \in Sessions /\ FiltersConstants /\ Fits(p, s) /\ p.reg = registry
      /\ p.ses = session[s] /\ session[s] \in SessionStates /\ registry \in Registries
      /\ Sound(registry) /\ p = [reg |-> registry, ses |-> session[s]] /\ p \in Pairs
      /\ \A k \in Kinds : AskedFor(p, k)
  BY SessionIs DEF Inv, Of
<1>2. ASSUME FileReady(s) PROVE Inv' /\ Noted
  <2> DEFINE ses == [session[s] EXCEPT !.due = {}]
             q == [reg |-> registry, ses |-> ses]
             u == Synced(q, session[s].due)
  <2>1. [p EXCEPT !.ses.due = {}] = q
    <3>1. [p EXCEPT !.ses.due = {}] = [p EXCEPT !.ses = [p.ses EXCEPT !.due = {}]]
      OBVIOUS
    <3>2. [p EXCEPT !.ses.due = {}] = [p EXCEPT !.ses = ses]
      BY <1>1, <3>1
    <3> HIDE DEF ses
    <3>3. [p EXCEPT !.ses = ses] = q
      BY <1>1
    <3> QED
      BY <3>2, <3>3
  <2>2. Becomes(s, u)
    BY <1>2, <2>1 DEF FileReady
  <2>3. /\ ses \in SessionStates /\ ses.rows = session[s].rows /\ ses.temp = session[s].temp
        /\ ses.due = {} /\ ses.asked = session[s].asked /\ ses.bumped = session[s].bumped
    BY <1>1 DEF SessionStates
  <2> HIDE DEF ses
  <2>4. q.reg = registry /\ q.ses = ses /\ q = [reg |-> p.reg, ses |-> ses]
    BY <1>1
  <2> HIDE DEF p, q
  <2>5. /\ Fits(q, s) /\ \A k \in Kinds : SameKind(p, q, k)
        /\ \A k \in Kinds : Effective(q, k) = Effective(p, k)
    BY <1>1, <2>3, <2>4, BesideIs
  <2>6. ASSUME NEW k \in Kinds, k \notin session[s].due PROVE AskedFor(q, k)
    BY <1>1, <2>3, <2>4, <2>5, <2>6 DEF AskedFor
  <2> HIDE DEF u
  <2>7. /\ Fits(u, s) /\ u.reg = q.reg /\ \A k \in Kinds : u.ses.rows[k] = q.ses.rows[k]
        /\ \A k \in Kinds : AskedFor(u, k)
    BY <1>1, <2>5, <2>6, SyncedIs DEF u
  <2>8. NoteKept(p, u)
    BY <2>5, <2>7 DEF NoteKept, SameKind
  <2>9. Others(registry, u.reg, s)
    BY <2>4, <2>7 DEF Others
  <2> QED
    BY <2>2, <2>7, <2>8, <2>9, BecomesIs DEF p
<1>3. ASSUME TakesState(s) PROVE Inv' /\ Noted
  <2> DEFINE ses == [session[s] EXCEPT !.bumped = FALSE]
             q == [reg |-> registry, ses |-> ses]
  <2>1. [p EXCEPT !.ses.bumped = FALSE] = q
    <3>1. [p EXCEPT !.ses.bumped = FALSE] = [p EXCEPT !.ses = [p.ses EXCEPT !.bumped = FALSE]]
      OBVIOUS
    <3>2. [p EXCEPT !.ses.bumped = FALSE] = [p EXCEPT !.ses = ses]
      BY <1>1, <3>1
    <3> HIDE DEF ses
    <3>3. [p EXCEPT !.ses = ses] = q
      BY <1>1
    <3> QED
      BY <3>2, <3>3
  <2>2. Becomes(s, q)
    BY <1>3, <2>1 DEF TakesState
  <2>3. /\ ses \in SessionStates /\ ses.rows = session[s].rows /\ ses.temp = session[s].temp
        /\ ses.due = session[s].due /\ ses.asked = session[s].asked
    BY <1>1 DEF SessionStates
  <2> HIDE DEF ses
  <2>4. q.reg = registry /\ q.ses = ses /\ q = [reg |-> p.reg, ses |-> ses]
    BY <1>1
  <2> HIDE DEF p, q
  <2>5. /\ Fits(q, s) /\ \A k \in Kinds : SameKind(p, q, k)
        /\ \A k \in Kinds : Effective(q, k) = Effective(p, k)
    BY <1>1, <2>3, <2>4, BesideIs
  <2>6. \A k \in Kinds : AskedFor(q, k)
    BY <1>1, <2>3, <2>4, <2>5 DEF AskedFor
  <2>7. NoteKept(p, q) /\ Others(registry, q.reg, s)
    BY <2>4, <2>5 DEF NoteKept, Others
  <2> QED
    BY <2>2, <2>5, <2>6, <2>7, BecomesIs DEF p
<1>4. ASSUME Closes(s) PROVE Inv' /\ Noted
  <2> DEFINE u == [k \in Kinds |-> [i \in Ids |-> registry.usage[k][i] \ {s}]]
             reg == CleanedUp(registry, s)
             q == [reg |-> reg, ses |-> NewSession]
  <2>1. registry.usage \in [Kinds -> [Ids -> SUBSET Sessions]]
    BY <1>1 DEF Registries
  <2>2. /\ u \in [Kinds -> [Ids -> SUBSET Sessions]]
        /\ \A k \in Kinds, i \in Ids : u[k][i] = registry.usage[k][i] \ {s}
    BY <2>1
  <2>3. reg = [registry EXCEPT !.usage = u]
    BY DEF CleanedUp
  <2> HIDE DEF u, reg
  <2>4. Sound(reg) /\ reg.defs = registry.defs /\ reg.usage = u
    BY <1>1, <2>2, <2>3, FewerUses
  <2>5. NewSession \in SessionStates
    BY DEF NewSession, SessionStates
  <2>6. \A k \in Kinds : NewSession.rows[k] = << >>
    BY DEF NewSession
  <2>7. q \in Pairs /\ q.reg = reg /\ q.ses = NewSession
    BY <2>4, <2>5 DEF Pairs, Sound
  <2> HIDE DEF q
  <2>8. Fits(q, s)
    <3>1. \A k \in Kinds : Distinct(NewSession.rows[k])
      BY <2>6 DEF Distinct
    <3>2. \A k \in Kinds, i \in Ids : ~Uses(reg, k, i, s) /\ ~HasRow(NewSession, k, i)
      BY <2>2, <2>4, <2>6 DEF Uses, HasRow, IdsOf
    <3> QED
      BY <2>4, <2>7, <3>1, <3>2 DEF Fits
  <2>9. Others(registry, q.reg, s)
    BY <2>2, <2>4, <2>7 DEF Others
  <2>10. /\ registry' = q.reg /\ session' = [session EXCEPT ![s] = q.ses]
         /\ open' \in SUBSET Sessions /\ open' \ {s} = open \ {s} /\ s \notin open'
    BY <1>4, <2>7 DEF Closes, reg, Inv
  <2> QED
    BY <1>1, <2>7, <2>8, <2>9, <2>10, StepKeeps
<1> QED
  BY <1>2, <1>3, <1>4

-----------------------------------------------------------------------------
\* Nothing happens.
LEMMA StutterKeeps ==
  ASSUME Inv, UNCHANGED vars
  PROVE  Inv' /\ Noted
<1>1. registry' = registry /\ open' = open /\ session' = session
  BY DEF vars
<1>2. FiltersConstants
  BY DEF Inv
<1>3. \A s \in Sessions : Of(s)' = Of(s)
  BY <1>1 DEF Of
<1>4. AskedIsEffective'
  BY <1>1, <1>3 DEF AskedIsEffective, Inv
<1>5. \A s \in Sessions : Fits(Of(s)', s)
  BY <1>3 DEF Inv
<1>6. FiltersConstants'
  BY <1>2 DEF FiltersConstants, RegistryConstants, Kinds
<1>7. Inv'
  BY <1>1, <1>4, <1>5, <1>6 DEF Inv
<1>8. Noted
  BY <1>1 DEF Noted, Snapshot
<1> QED
  BY <1>7, <1>8

\* Every step keeps the invariant and notes what it changes.
LEMMA NextKeeps ==
  ASSUME Inv, EditsMayMeet = FALSE, [Next]_vars
  PROVE  Inv' /\ Noted
<1>1. CASE UNCHANGED vars
  BY <1>1, StutterKeeps
<1>2. ASSUME NEW s \in open, UserActs(s) PROVE Inv' /\ Noted
  <2>1. ASSUME NEW t \in Typed, AppliesTemp(s, t) PROVE Inv' /\ Noted
    BY <2>1, TempsKeep
  <2>2. ASSUME DropsTemp(s) PROVE Inv' /\ Noted
    BY <2>2, TempsKeep
  <2>3. ASSUME NEW k \in Kinds, PinsTemp(s, k) PROVE Inv' /\ Noted
    BY <2>3, PinsKeep
  <2>4. ASSUME NEW k \in Kinds, RemovesAll(s, k) PROVE Inv' /\ Noted
    BY <2>4, RowActionsKeep
  <2>5. ASSUME NEW k \in Kinds, NEW i \in Ids, NEW t \in Texts, EditsText(s, k, i, t)
        PROVE  Inv' /\ Noted
    BY <2>5, EditKeeps
  <2>6. ASSUME NEW k \in Kinds, NEW i \in Ids, NEW e \in BOOLEAN, TogglesEnabled(s, k, i, e)
        PROVE  Inv' /\ Noted
    BY <2>6, RowActionsKeep
  <2>7. ASSUME NEW k \in Kinds, NEW i \in Ids, RemovesRow(s, k, i) PROVE Inv' /\ Noted
    BY <2>7, RowActionsKeep
  <2>8. ASSUME NEW k \in Kinds, NEW i \in Ids, TogglesInLibrary(s, k, i) PROVE Inv' /\ Noted
    BY <2>8, LibraryKeeps
  <2>9. ASSUME NEW k \in Kinds, NEW i \in Ids, DeletesInLibrary(s, k, i) PROVE Inv' /\ Noted
    BY <2>9, LibraryKeeps
  <2>10. ASSUME NEW k \in Kinds, NEW i \in Ids, NEW slot \in 1 .. Len(session[s].rows[k]) + 1,
                Reorders(s, k, i, slot)
         PROVE  Inv' /\ Noted
    BY <2>10, RowActionsKeep
  <2>11. ASSUME NEW k \in Kinds, NEW i \in Ids,
                NEW slot \in 1 .. Len(session[s].rows[Other(k)]) + 1, MovesToOther(s, k, i, slot)
         PROVE  Inv' /\ Noted
    BY <2>11, ConversionKeeps
  <2>12. ASSUME NEW preset \in Presets, AppliesPreset(s, preset) PROVE Inv' /\ Noted
    BY <2>12, PresetKeeps
  <2> QED
    BY <1>2, <2>1, <2>2, <2>3, <2>4, <2>5, <2>6, <2>7, <2>8, <2>9, <2>10, <2>11, <2>12, Zenon
    DEF UserActs
<1>3. ASSUME NEW s \in open, HostActs(s) PROVE Inv' /\ Noted
  BY <1>3, HostKeeps DEF HostActs
<1>4. ASSUME NEW s \in Sessions, NEW preset \in Presets, Opens(s, preset) PROVE Inv' /\ Noted
  BY <1>4, OpenKeeps
<1> QED
  BY <1>1, <1>2, <1>3, <1>4 DEF Next

\* The invariant holds at the start, when no session is open.
LEMMA InvInit ==
  ASSUME FiltersConstants, Init
  PROVE  Inv
<1>1. registry = EmptyRegistry /\ open = {} /\ session = [s \in Sessions |-> NewSession]
  BY DEF Init
<1>2. NewSession \in SessionStates /\ \A k \in Kinds : NewSession.rows[k] = << >>
  BY DEF NewSession, SessionStates
<1>3. /\ registry \in Registries /\ \A k \in Kinds, i \in Ids : /\ registry.usage[k][i] = {}
                                                              /\ registry.defs[k][i] = NoText
  <2>1. MaxDefs \in Nat
    BY ConstantsAre
  <2> QED
    BY <1>1, <2>1 DEF EmptyRegistry, Registries
<1>4. Sound(registry)
  BY <1>3, FS_EmptySet DEF Sound
<1>5. ASSUME NEW s \in Sessions PROVE Fits(Of(s), s)
  <2>1. Of(s).reg = registry /\ Of(s).ses = NewSession /\ Of(s) \in Pairs
    BY <1>1, <1>2, <1>3 DEF Of, Pairs
  <2>2. \A k \in Kinds : Distinct(NewSession.rows[k])
    BY <1>2 DEF Distinct
  <2>3. \A k \in Kinds, i \in Ids : ~Uses(registry, k, i, s) /\ ~HasRow(NewSession, k, i)
    BY <1>2, <1>3 DEF Uses, HasRow, IdsOf
  <2> QED
    BY <1>4, <2>1, <2>2, <2>3 DEF Fits
<1>6. AskedIsEffective
  BY <1>1 DEF AskedIsEffective
<1> QED
  BY <1>1, <1>2, <1>4, <1>5, <1>6 DEF Inv

\* The invariant holds always.
LEMMA InvHolds ==
  ASSUME EditsMayMeet = FALSE
  PROVE  Spec => []Inv
<1>1. Init => Inv
  BY InvInit, FiltersAssumption
<1>2. Inv /\ [Next]_vars => Inv'
  BY NextKeeps
<1> QED
  BY <1>1, <1>2, PTL DEF Spec

\* The registry of definitions (host/ui/registry/filters.rs) has a session
\* among the users of a definition exactly while a row of the session shows
\* it, and every row shows a definition that is there: no session's removal,
\* conversion or edit takes a definition from another one.
THEOREM UsageIsRowsHolds ==
  ASSUME EditsMayMeet = FALSE
  PROVE  Spec => []UsageIsRows
<1>1. Inv => UsageIsRows
  <2> SUFFICES ASSUME Inv, NEW s \in Sessions, NEW k \in Kinds
               PROVE  /\ \A i \in Ids : Uses(registry, k, i, s) <=> HasRow(session[s], k, i)
                      /\ IdsOf(session[s].rows[k]) \subseteq Defined(registry, k)
    BY DEF UsageIsRows
  <2>1. Fits(Of(s), s) /\ Of(s).reg = registry /\ Of(s).ses = session[s]
    BY SessionIs
  <2>2. IdsOf(session[s].rows[k]) \subseteq Defined(registry, k)
    BY <2>1, RowsDefined
  <2> QED
    BY <2>1, <2>2 DEF Fits
<1> QED
  BY <1>1, InvHolds, PTL

\* What the backend of an open session was asked for last is what its rows
\* and its temporary search show (sync_search of session/ui/shared), for each
\* kind that does not wait to be restored: no handler forgets to ask again.
THEOREM AskedIsEffectiveHolds ==
  ASSUME EditsMayMeet = FALSE
  PROVE  Spec => []AskedIsEffective
<1>1. Inv => AskedIsEffective
  BY DEF Inv
<1> QED
  BY <1>1, InvHolds, PTL

\* Whatever changes what would be saved of an open session raises its
\* revision (session/ui/recent.rs saves on it), whichever session's handler
\* made the change.
THEOREM ChangesAreNotedHolds ==
  ASSUME EditsMayMeet = FALSE
  PROVE  Spec => ChangesAreNoted
<1>1. Inv /\ [Next]_vars => [\A s \in open \cap open' :
                               Snapshot(s)' # Snapshot(s) => session'[s].bumped]_vars
  BY NextKeeps DEF Noted
<1> QED
  BY <1>1, InvHolds, PTL DEF Spec, ChangesAreNoted

-----------------------------------------------------------------------------
(* The files of the application. *)

NothingIsSilent == "silent" \notin Faults /\ "startup" \notin Faults

(* A process that does not run, or is still starting, has nothing under way. *)
IdleInv ==
  phase \notin Alive =>
    /\ tasks = {}
    /\ loader.at = "none"
    /\ explorer = "loading"

(* What a task is going to write is what the user interface holds, or the   *)
(* domain will be saved again; a task that nobody waits for any more has    *)
(* left everything dirty. *)
TaskIsSound(t) ==
  /\ t.id # 0
  /\ t.id = pending \/ (phase = "shutdown" /\ dirty = Domains)
  /\ \A d \in t.todo : t.snap[d] = data[d] \/ d \in dirty
  /\ explorer = "loading" => Favorites \notin t.todo

TasksInv == OneWriter /\ \A t \in tasks : TaskIsSound(t)

(* What was read of the favourites is still what the file holds, and nobody *)
(* scans before they are loaded. *)
LoaderInv ==
  /\ explorer = "loading" => scan = "none"
  /\ loader.at # "none" => explorer = "loading"
  /\ loader.at = "read" => loader.value = Content(disk[Favorites])

(* The same for the list of sessions, before the application runs. *)
SessionsInv ==
  phase = "settings" => Content(disk[Recents]) = data[Recents] \/ Recents \in unread

SavedInv == IdleInv /\ TasksInv /\ LoaderInv /\ SessionsInv /\ NothingForgotten

(* Wherever the imported list is found there was one to import; before the  *)
(* list is loaded the marker is set, and it stays. *)
ImportInv ==
  /\ disk[Recents] = Imported => legacy
  /\ data[Recents] = Imported => legacy
  /\ \A t \in tasks : t.snap[Recents] = Imported => legacy
  /\ phase = "importing" => legacy
  /\ phase = "load" /\ legacy /\ disk[Recents] # Absent => marker
  /\ inUse => marker

-----------------------------------------------------------------------------
(* Types. *)

\* What StorageAssumption says of the constants.
LEMMA StorageFacts ==
  /\ Domains = {Favorites, Recents, Settings}
  /\ Favorites # Recents /\ Favorites # Settings /\ Recents # Settings
  /\ Default \in Values /\ Imported \in Values /\ Values \subseteq Nat
  /\ Absent \notin Values /\ Broken \notin Values /\ Absent # Broken
  /\ AllDefault \in [Domains -> Values]
BY StorageAssumption
   DEF Domains, Favorites, Recents, Settings, Default, Imported, Values, AllDefault

(* What a file that can be read holds is a value. *)
LEMMA ContentType ==
  ASSUME TypeOK, NEW d \in Domains, disk[d] # Broken
  PROVE  Content(disk[d]) \in Values
BY StorageFacts DEF TypeOK, Content

(* Nobody else saves when a task is made: it is the first one. *)
LEMMA NewTaskLemma ==
  ASSUME TypeOK, tasks = {}
  PROVE  /\ NewTask(Savable) \in Tasks
         /\ NewTask(Savable).id = 1
         /\ NewTask(Savable).snap = data
         /\ NewTask(Savable).todo = Savable
         /\ NewTask(Savable).failed = FALSE
<1> DEFINE IsFree(i) == i \in 1 .. Cardinality(tasks) + 1 /\ \A t \in tasks : t.id # i
<1>1. Cardinality(tasks) = 0
  BY FS_EmptySet
<1>2. IsFree(1) /\ \A i : IsFree(i) => i = 1
  BY <1>1
<1>3. (CHOOSE i \in 1 .. Cardinality(tasks) + 1 : \A t \in tasks : t.id # i) = 1
  BY <1>2
<1>4. NewTask(Savable) = [id |-> 1, snap |-> data, todo |-> Savable,
                          open |-> FALSE, failed |-> FALSE]
  BY <1>3 DEF NewTask
<1>5. Savable \subseteq Domains /\ data \in [Domains -> Values]
  BY DEF TypeOK, Savable
<1> QED
  BY <1>4, <1>5 DEF Tasks

(* What a task does to itself keeps its type. *)
LEMMA TaskTypes ==
  ASSUME NEW t \in Tasks, NEW d \in Domains
  PROVE  /\ [t EXCEPT !.open = TRUE] \in Tasks
         /\ Written(t, d) \in Tasks
         /\ [t EXCEPT !.open = FALSE, !.failed = TRUE] \in Tasks
BY DEF Tasks, Written

\* The types, at the start.
LEMMA TypeInit == StorageInit => TypeOK
<1> SUFFICES ASSUME StorageInit PROVE TypeOK
  OBVIOUS
<1>1. legacy \in BOOLEAN /\ marker \in BOOLEAN /\ inUse \in BOOLEAN
  BY DEF StorageInit
<1>2. last \in Imported .. MaxChanges /\ starts \in 0 .. MaxStarts
  BY StorageAssumption DEF StorageInit, Imported
<1> QED
  BY <1>1, <1>2, StorageFacts DEF StorageInit, TypeOK, Loader, NoLoader

\* The types, at every step: of what a task writes they need that nobody else
\* saves.
LEMMA TypeStep == TypeOK /\ SavedInv /\ [StorageNext]_storageVars => TypeOK'
<1> SUFFICES ASSUME TypeOK, SavedInv, [StorageNext]_storageVars PROVE TypeOK'
  OBVIOUS
<1> USE StorageFacts
<1>1. CASE StartsUp
  <2>1. CASE Starts
    BY <2>1, StorageAssumption DEF Starts, TypeOK, uiData, imports, StartUp
  <2>2. CASE RunImportHook \/ WritesImport
    BY <2>2 DEF RunImportHook, WritesImport, Creates, Puts, TypeOK, uiData, imports,
                bounds, StartUp
  <2>7. CASE CreateLegacyMarker
    <3>1. marker' \in BOOLEAN
      BY <2>7, Zenon DEF CreateLegacyMarker, MarksImport, TypeOK
    <3>2. /\ phase' = "load"
          /\ UNCHANGED <<uiData, loader, tasks, disk, legacy, inUse, bounds>>
      BY <2>7 DEF CreateLegacyMarker
    <3> QED
      BY <3>1, <3>2 DEF TypeOK, uiData, bounds, StartUp
  <2>3. CASE LoadSessions
    <3>1. last < MaxChanges => last + 1 \in Values /\ last + 1 \in Imported .. MaxChanges
      BY StorageAssumption DEF TypeOK, Values, Default, Imported
    <3> QED
      BY <2>3, <3>1, ContentType DEF LoadSessions, Loads, TypeOK, StartUp
  <2>4. CASE SavesNormalized
    BY <2>4 DEF SavesNormalized, Creates, Puts, TypeOK, uiData, imports, bounds, StartUp
  <2>5. CASE LoadSettings
    BY <2>5, ContentType
       DEF LoadSettings, Loads, TypeOK, Loader, imports, bounds, Alive
  <2>6. CASE ReadsFavorites
    BY <2>6, ContentType DEF ReadsFavorites, TypeOK, Loader, uiData, imports, bounds
  <2> QED
    BY <1>1, <2>1, <2>2, <2>3, <2>4, <2>5, <2>6, <2>7 DEF StartsUp
<1>2. CASE Edits
  <2>1. ASSUME NEW d \in Domains, Changes(d)
        PROVE  /\ data' \in [Domains -> Values] /\ dirty' \in SUBSET Domains
               /\ unread' \in SUBSET Domains /\ last' \in Imported .. MaxChanges
    <3>1. last + 1 \in Values /\ last + 1 \in Imported .. MaxChanges
      BY <2>1, StorageAssumption DEF Changes, TypeOK, Values, Default, Imported
    <3> QED
      BY <2>1, <3>1 DEF Changes, TypeOK
  <2>2. CASE FinishLoad
    BY <2>2 DEF FinishLoad, TypeOK, Loader, NoLoader, imports, bounds
  <2>3. CASE ChangesList
    BY <2>1, <2>3 DEF ChangesList, TypeOK, imports
  <2>4. CASE RemoveFavoriteFolder
    BY <2>1, <2>4 DEF RemoveFavoriteFolder, TypeOK, imports
  <2>5. CASE PrepareScan
    BY <2>5 DEF PrepareScan, TypeOK, imports, bounds
  <2>6. CASE FinishScan
    BY <2>1, <2>6 DEF FinishScan, TypeOK, imports
  <2> QED
    BY <1>2, <2>2, <2>3, <2>4, <2>5, <2>6 DEF Edits
<1>3. CASE AutoSave \/ Exits \/ WaitUntilSave
  <2>1. pending = 0 /\ phase # "shutdown" => tasks = {}
    BY DEF SavedInv, TasksInv, TaskIsSound
  <2>2. CanSave /\ Sends /\ phase # "shutdown" =>
          tasks' \in SUBSET Tasks /\ pending' \in Nat /\ dirty' \in SUBSET Domains
    <3> SUFFICES ASSUME CanSave, Sends, phase # "shutdown"
                 PROVE  tasks' \in SUBSET Tasks /\ pending' \in Nat /\ dirty' \in SUBSET Domains
      OBVIOUS
    <3>1. NewTask(Savable) \in Tasks /\ NewTask(Savable).id = 1
      BY <2>1, NewTaskLemma DEF CanSave
    <3> QED
      BY <3>1 DEF Sends, TypeOK
  <2>3. SendFails => tasks' \in SUBSET Tasks /\ pending' \in Nat /\ dirty' \in SUBSET Domains
    BY DEF SendFails, TypeOK
  <2>4. ScheduleSave /\ phase # "shutdown" =>
          tasks' \in SUBSET Tasks /\ pending' \in Nat /\ dirty' \in SUBSET Domains
    BY <2>2, <2>3 DEF ScheduleSave, TypeOK
  <2>5. CASE AutoSave
    BY <2>4, <2>5 DEF AutoSave, TypeOK, imports, bounds
  <2>6. CASE Exits
    BY <2>4, <2>6 DEF Exits, TypeOK, imports, bounds, Alive
  <2>7. CASE WaitUntilSave
    BY <2>2, <2>3, <2>7 DEF WaitUntilSave, TypeOK, imports, bounds, Alive
  <2> QED
    BY <1>3, <2>5, <2>6, <2>7
<1>4. CASE PollPendingSave
  BY <1>4 DEF PollPendingSave, HandleSaveResult, AfterFailure, TypeOK, imports, bounds
<1>5. CASE WaitForPendingSave
  BY <1>5 DEF WaitForPendingSave, HandleSaveResult, AfterFailure, TypeOK, imports, bounds, Alive
<1>6. CASE SaveStorage
  <2>1. PICK t \in tasks : \E d \in t.todo : CreatesFile(t, d) \/ WritesFile(t, d)
    BY <1>6 DEF SaveStorage
  <2>7. PICK d \in t.todo : CreatesFile(t, d) \/ WritesFile(t, d)
    BY <2>1
  <2>2. t \in Tasks /\ d \in Domains
    BY <2>7 DEF TypeOK, Tasks
  <2>3. tasks' \in SUBSET Tasks
    <3>1. \A u \in Tasks : TaskBecomes(t, u) => tasks' \in SUBSET Tasks
      BY DEF TaskBecomes, TypeOK
    <3>2. PICK u : TaskBecomes(t, u) /\ u \in {[t EXCEPT !.open = TRUE], Written(t, d),
                                         [t EXCEPT !.open = FALSE, !.failed = TRUE]}
      BY <2>7, Zenon DEF CreatesFile, WritesFile, Fails
    <3>3. u \in Tasks
      BY <3>2, <2>2, TaskTypes, Zenon
    <3> QED
      BY <3>1, <3>2, <3>3, Zenon
  <2>4. disk' \in [Domains -> Values \cup {Absent, Broken}]
    <3>1. t.snap[d] \in Values
      BY <2>2 DEF Tasks
    <3>2. /\ disk \in [Domains -> Values \cup {Absent, Broken}]
          /\ \/ disk' = disk
             \/ disk' = [disk EXCEPT ![d] = Broken]
             \/ disk' = [disk EXCEPT ![d] = t.snap[d]]
      BY <2>7 DEF CreatesFile, WritesFile, Creates, Puts, TypeOK
    <3> QED
      BY <2>2, <3>1, <3>2
  <2> QED
    BY <1>6, <2>3, <2>4 DEF SaveStorage, TypeOK, uiData, imports, bounds
<1>7. CASE Ends \/ Killed
  BY <1>7 DEF Ends, Killed, Dies, TypeOK, Loader, NoLoader, imports, bounds
<1>8. CASE StorageIsRemoved
  BY <1>8 DEF StorageIsRemoved, TypeOK, uiData, imports, bounds
<1>9. CASE UNCHANGED storageVars
  BY <1>9 DEF storageVars, TypeOK, uiData, imports, bounds
<1> QED
  BY <1>1, <1>2, <1>3, <1>4, <1>5, <1>6, <1>7, <1>8, <1>9 DEF StorageNext, Saves, Stops

-----------------------------------------------------------------------------
(* Nothing is forgotten. *)

(* Steps of a process that is not up: nothing is under way. *)
LEMMA IdleStep ==
  ASSUME SavedInv, phase \notin Alive, phase' \notin Alive, phase' # "settings",
         tasks' = tasks, loader' = loader, explorer' = explorer, scan' = scan
  PROVE  SavedInv'
BY DEF SavedInv, IdleInv, TasksInv, OneWriter, LoaderInv, SessionsInv, NothingForgotten

(* Steps that leave the files, the data and the tasks as they are. *)
LEMMA CalmStep ==
  ASSUME SavedInv, phase' = phase,
         UNCHANGED <<data, dirty, explorer, pending, unread, loader, tasks, disk>>,
         scan' = scan \/ explorer = "ready"
  PROVE  SavedInv'
BY DEF SavedInv, IdleInv, TasksInv, TaskIsSound, OneWriter, LoaderInv, SessionsInv,
       NothingForgotten, Known, OnItsWay

(* A change makes its domain dirty. *)
LEMMA ChangeStep ==
  ASSUME TypeOK, SavedInv, phase = "running", phase' = phase,
         NEW d \in Domains, Changes(d), d = Favorites => explorer = "ready",
         UNCHANGED <<explorer, pending, loader, tasks, disk>>,
         scan' = scan \/ explorer = "ready"
  PROVE  SavedInv'
<1>1. /\ \A e \in Domains \ {d} : data'[e] = data[e]
      /\ dirty' = dirty \cup {d} /\ unread' = unread \ {d}
  BY DEF Changes, TypeOK
<1>2. TasksInv'
  <2>1. \A t \in tasks : t.todo \subseteq Domains
    BY DEF TypeOK, Tasks
  <2> QED
    BY <1>1, <2>1 DEF SavedInv, TasksInv, OneWriter, TaskIsSound
<1>3. NothingForgotten'
  <2>1. ASSUME NEW e \in Domains \ {d}, OnItsWay(e)
        PROVE  OnItsWay(e)'
    BY <1>1, <2>1 DEF OnItsWay
  <2> QED
    BY <1>1, <2>1 DEF SavedInv, NothingForgotten, Known
<1> QED
  BY <1>2, <1>3 DEF SavedInv, IdleInv, LoaderInv, SessionsInv, Alive

(* What is sent is on its way, and nothing was before. *)
LEMMA SendStep ==
  ASSUME TypeOK, SavedInv, CanSave, phase \in {"running", "closing"},
         Sends \/ SendFails, phase' \in Alive,
         UNCHANGED <<data, explorer, scan, unread, loader, disk>>
  PROVE  SavedInv'
<1>1. tasks = {}
  BY DEF CanSave, SavedInv, TasksInv, TaskIsSound
<1>2. CASE Sends
  <2>1. PICK u : /\ tasks' = {u} /\ pending' = 1 /\ u.id = 1 /\ u.snap = data
                 /\ u.todo = Savable /\ u.failed = FALSE
    BY <1>1, <1>2, NewTaskLemma DEF Sends
  <2>2. dirty' = dirty \ Savable
    BY <1>2 DEF Sends
  <2>3. TasksInv'
    BY <2>1 DEF TasksInv, OneWriter, TaskIsSound, Savable, Favorites
  <2>4. NothingForgotten'
    BY <1>1, <2>1, <2>2 DEF SavedInv, NothingForgotten, OnItsWay, Known, Alive
  <2> QED
    BY <2>3, <2>4 DEF SavedInv, IdleInv, LoaderInv, SessionsInv, Alive
<1>3. CASE SendFails
  BY <1>1, <1>3 DEF SendFails, SavedInv, IdleInv, TasksInv, OneWriter, LoaderInv,
     SessionsInv, NothingForgotten, Alive
<1> QED
  BY <1>2, <1>3

(* A result is taken: all of the task is written, or everything is dirty. *)
LEMMA ResultStep ==
  ASSUME TypeOK, SavedInv, NEW t \in Awaited, HandleSaveResult(t),
         phase \in Alive, phase' \in Alive,
         UNCHANGED <<data, explorer, scan, unread, loader, disk>>
  PROVE  SavedInv'
<1>1. t \in tasks /\ t.id = pending /\ Finished(t) /\ tasks' = {}
  BY DEF Awaited, HandleSaveResult, SavedInv, TasksInv, OneWriter
<1>2. NothingForgotten'
  <2>1. CASE t.failed
    BY <2>1 DEF HandleSaveResult, AfterFailure, NothingForgotten
  <2>2. CASE ~t.failed
    <3>1. \A d \in Domains : ~OnItsWay(d)
      BY <1>1, <2>2 DEF OnItsWay, Finished, SavedInv, TasksInv, OneWriter
    <3>2. dirty' = dirty
      BY <2>2 DEF HandleSaveResult
    <3> QED
      BY <3>1, <3>2 DEF SavedInv, NothingForgotten, Known
  <2> QED
    BY <2>1, <2>2
<1> QED
  BY <1>1, <1>2 DEF SavedInv, IdleInv, TasksInv, OneWriter, LoaderInv, SessionsInv, Alive

(* The task writes a file: until it has, the file's domain is on its way.  *)
LEMMA WriteStep ==
  ASSUME NothingIsSilent, TypeOK, SavedInv, SaveStorage
  PROVE  /\ SavedInv'
         /\ explorer = "loading" => disk'[Favorites] = disk[Favorites]
<1>1. PICK t \in tasks : \E d \in t.todo : CreatesFile(t, d) \/ WritesFile(t, d)
  BY DEF SaveStorage
<1>2. PICK d \in t.todo : CreatesFile(t, d) \/ WritesFile(t, d)
  BY <1>1
<1>3. /\ t \in Tasks /\ d \in Domains /\ t.snap[d] \in Values
      /\ tasks = {t} /\ TaskIsSound(t)
  BY <1>2 DEF TypeOK, Tasks, SavedInv, TasksInv, OneWriter
<1>4. UNCHANGED <<phase, data, dirty, explorer, scan, pending, unread, loader>>
  BY DEF SaveStorage, uiData
<1>5. phase \in Alive
  BY <1>3 DEF SavedInv, IdleInv
<1>6. \A u : TaskBecomes(t, u) => tasks' = {u}
  BY <1>3 DEF TaskBecomes
<1>7. PICK u : /\ tasks' = {u} /\ u.id = t.id /\ u.snap = t.snap
               /\ \/ disk' = [disk EXCEPT ![d] = Broken]
                     /\ u.todo = t.todo /\ u.failed = t.failed
                  \/ /\ disk' = [disk EXCEPT ![d] = t.snap[d]]
                     /\ u.todo = t.todo \ {d} /\ u.failed = t.failed
                  \/ disk' = disk /\ u.todo = t.todo /\ u.failed
  <2> DEFINE Open == [t EXCEPT !.open = TRUE]
             Failed == [t EXCEPT !.open = FALSE, !.failed = TRUE]
  <2>1. /\ Open.id = t.id /\ Open.snap = t.snap /\ Open.todo = t.todo /\ Open.failed = t.failed
        /\ Failed.id = t.id /\ Failed.snap = t.snap /\ Failed.todo = t.todo /\ Failed.failed
        /\ Written(t, d).id = t.id /\ Written(t, d).snap = t.snap
        /\ Written(t, d).todo = t.todo \ {d} /\ Written(t, d).failed = t.failed
    BY <1>3 DEF Tasks, Written
  <2>2. \/ Creates(d) /\ TaskBecomes(t, Open)
        \/ Puts(d, t.snap[d]) /\ TaskBecomes(t, Written(t, d))
        \/ TaskBecomes(t, Failed) /\ UNCHANGED disk
    BY <1>2, Zenon DEF CreatesFile, WritesFile, Fails, NothingIsSilent
  <2> HIDE DEF Open, Failed
  <2>3. CASE Creates(d) /\ TaskBecomes(t, Open)
    BY <2>1, <2>3, <1>6 DEF Creates
  <2>4. CASE Puts(d, t.snap[d]) /\ TaskBecomes(t, Written(t, d))
    BY <2>1, <2>4, <1>6 DEF Puts
  <2>5. CASE TaskBecomes(t, Failed) /\ UNCHANGED disk
    BY <2>1, <2>5, <1>6
  <2> QED
    BY <2>2, <2>3, <2>4, <2>5
<1>8. explorer = "loading" => disk'[Favorites] = disk[Favorites]
  BY <1>3, <1>7, StorageFacts DEF TaskIsSound, TypeOK
<1>9. TasksInv'
  BY <1>3, <1>4, <1>7 DEF TasksInv, OneWriter, TaskIsSound
<1>10. LoaderInv'
  BY <1>4, <1>8 DEF SavedInv, LoaderInv, Content
<1>11. ASSUME NEW e \in Domains, Known(e)
       PROVE  \/ Content(disk'[e]) = data[e] \/ e \in dirty
              \/ OnItsWay(e)' \/ e \in unread
  <2>1. CASE dirty = Domains
    BY <2>1
  <2>2. CASE t.id = pending /\ u.failed
    BY <2>2, <1>4, <1>7 DEF OnItsWay
  <2>3. CASE t.id = pending /\ e # d
    <3>1. disk'[e] = disk[e]
      BY <2>3, <1>3, <1>7 DEF TypeOK
    <3>2. OnItsWay(e) => OnItsWay(e)'
      BY <2>3, <1>3, <1>4, <1>7 DEF OnItsWay
    <3> QED
      BY <3>1, <3>2, <1>5, <1>11 DEF SavedInv, NothingForgotten
  <2>4. CASE t.id = pending /\ e = d /\ ~u.failed
    <3>1. t.snap[d] = data[d] \/ d \in dirty
      BY <1>2, <1>3 DEF TaskIsSound
    <3>2. CASE u.todo = t.todo
      BY <2>4, <3>1, <3>2, <1>2, <1>4, <1>7 DEF OnItsWay
    <3>3. CASE disk' = [disk EXCEPT ![d] = t.snap[d]]
      BY <2>4, <3>1, <3>3, <1>3, StorageFacts DEF Content, TypeOK
    <3> QED
      BY <3>2, <3>3, <1>7
  <2> QED
    BY <2>1, <2>2, <2>3, <2>4, <1>3 DEF TaskIsSound
<1>12. NothingForgotten'
  BY <1>11, <1>4 DEF NothingForgotten, Known
<1> QED
  BY <1>4, <1>5, <1>8, <1>9, <1>10, <1>12 DEF SavedInv, IdleInv, SessionsInv, Alive

\* Nothing is forgotten at the start.
LEMMA SavedInit == StorageInit => SavedInv
BY DEF StorageInit, SavedInv, IdleInv, TasksInv, OneWriter, LoaderInv, SessionsInv,
       NothingForgotten, NoLoader, Alive

\* No step forgets a change, unless it fails unseen.
LEMMA SavedStep ==
  ASSUME NothingIsSilent, TypeOK, SavedInv, [StorageNext]_storageVars
  PROVE  SavedInv'
<1>1. CASE StartsUp
  <2>1. CASE Starts \/ RunImportHook \/ WritesImport \/ CreateLegacyMarker
    <3>1. /\ phase \notin Alive /\ phase' \notin Alive /\ phase' # "settings"
          /\ tasks' = tasks /\ loader' = loader /\ explorer' = explorer
          /\ scan' = scan
      BY <2>1 DEF Starts, RunImportHook, WritesImport, CreateLegacyMarker, uiData, Alive
    <3> QED
      BY <3>1, IdleStep
  <2>2. CASE LoadSessions
    <3>1. /\ phase' \in {"settings", "normalize"} /\ phase = "load"
          /\ UNCHANGED <<explorer, scan, loader, tasks, disk>>
      BY <2>2 DEF LoadSessions
    <3>2. SessionsInv'
      BY <2>2, StorageFacts DEF LoadSessions, Loads, SessionsInv, TypeOK
    <3> QED
      BY <3>1, <3>2 DEF SavedInv, IdleInv, TasksInv, OneWriter, LoaderInv,
         NothingForgotten, Alive
  <2>3. CASE SavesNormalized
    <3>1. /\ phase' \in {"settings", "normalizing"} /\ phase \in {"normalize", "normalizing"}
          /\ UNCHANGED <<data, explorer, scan, loader, tasks>>
      BY <2>3 DEF SavesNormalized, uiData
    <3>2. SessionsInv'
      BY <2>3, StorageFacts
         DEF SavesNormalized, Puts, SessionsInv, TypeOK, NothingIsSilent, Content, uiData
    <3> QED
      BY <3>1, <3>2 DEF SavedInv, IdleInv, TasksInv, OneWriter, LoaderInv,
         NothingForgotten, Alive
  <2>4. CASE LoadSettings
    <3>1. /\ phase = "settings" /\ phase' = "running" /\ tasks = {} /\ explorer = "loading"
          /\ loader' = [loader EXCEPT !.at = "reading"]
          /\ UNCHANGED <<dirty, explorer, scan, tasks, disk>>
      BY <2>4 DEF LoadSettings, SavedInv, IdleInv, Alive
    <3>2. NothingForgotten'
      BY <2>4, <3>1, StorageFacts DEF LoadSettings, Loads, NothingForgotten, Known,
         SavedInv, SessionsInv, TypeOK
    <3> QED
      BY <3>1, <3>2 DEF SavedInv, IdleInv, TasksInv, OneWriter, LoaderInv, SessionsInv,
         Alive, TypeOK, Loader
  <2>5. CASE ReadsFavorites
    <3>1. LoaderInv'
      BY <2>5 DEF ReadsFavorites, SavedInv, LoaderInv, uiData
    <3> QED
      BY <2>5, <3>1 DEF ReadsFavorites, SavedInv, IdleInv, TasksInv, TaskIsSound, OneWriter,
         SessionsInv, NothingForgotten, Known, OnItsWay, uiData
  <2> QED
    BY <1>1, <2>1, <2>2, <2>3, <2>4, <2>5 DEF StartsUp
<1>2. CASE Edits
  <2>1. CASE FinishLoad
    <3>1. /\ phase = "running" /\ phase' = phase /\ explorer = "loading" /\ explorer' = "ready"
          /\ loader' = NoLoader
          /\ dirty' = dirty \ {Favorites}
          /\ \A d \in Domains \ {Favorites} : data'[d] = data[d]
          /\ data'[Favorites] = loader.value
          /\ unread \subseteq unread'
          /\ UNCHANGED <<pending, tasks, disk>>
      BY <2>1, StorageFacts DEF FinishLoad, SavedInv, LoaderInv, TypeOK
    <3>2. \A t \in tasks : t.todo \subseteq Domains \ {Favorites} /\ t.id = pending /\ t.id # 0
      BY <3>1 DEF TypeOK, Tasks, SavedInv, TasksInv, TaskIsSound
    <3>3. TasksInv'
      BY <3>1, <3>2 DEF SavedInv, TasksInv, TaskIsSound, OneWriter
    <3>4. Content(disk[Favorites]) = data'[Favorites] \/ Favorites \in unread'
      BY <2>1, <3>1 DEF FinishLoad, SavedInv, LoaderInv
    <3>5. ASSUME NEW d \in Domains \ {Favorites}, OnItsWay(d)
          PROVE  OnItsWay(d)'
      BY <3>1, <3>5 DEF OnItsWay
    <3>6. NothingForgotten'
      BY <3>1, <3>4, <3>5 DEF SavedInv, NothingForgotten, Known
    <3> QED
      BY <3>1, <3>3, <3>6 DEF SavedInv, IdleInv, LoaderInv, SessionsInv, NoLoader, Alive
  <2>2. CASE ChangesList
    BY <2>2, ChangeStep, StorageFacts DEF ChangesList
  <2>3. CASE RemoveFavoriteFolder
    BY <2>3, ChangeStep, StorageFacts DEF RemoveFavoriteFolder, Busy, TypeOK
  <2>4. CASE PrepareScan
    BY <2>4, CalmStep DEF PrepareScan, Busy, TypeOK
  <2>5. CASE FinishScan
    <3>1. explorer = "ready"
      BY <2>5 DEF FinishScan, SavedInv, LoaderInv, TypeOK
    <3>2. CASE scan = "add" /\ Changes(Favorites)
      BY <2>5, <3>1, <3>2, ChangeStep, StorageFacts DEF FinishScan
    <3>3. CASE scan = "refresh" /\ UNCHANGED <<data, dirty, unread, last>>
      BY <2>5, <3>1, <3>3, CalmStep DEF FinishScan
    <3> QED
      BY <2>5, <3>2, <3>3 DEF FinishScan
  <2> QED
    BY <1>2, <2>1, <2>2, <2>3, <2>4, <2>5 DEF Edits
<1>3. CASE AutoSave \/ Exits
  <2>1. /\ phase = "running" /\ phase' \in {"running", "closing"}
        /\ UNCHANGED <<data, explorer, scan, unread, loader, disk>>
    BY <1>3 DEF AutoSave, Exits
  <2>2. CASE CanSave /\ (Sends \/ SendFails)
    BY <2>1, <2>2, SendStep DEF Alive
  <2>3. CASE UNCHANGED <<dirty, tasks, pending>>
    BY <2>1, <2>3 DEF SavedInv, IdleInv, TasksInv, TaskIsSound, OneWriter, LoaderInv,
       SessionsInv, NothingForgotten, Known, OnItsWay, Alive
  <2> QED
    BY <1>3, <2>2, <2>3 DEF AutoSave, Exits, ScheduleSave
<1>4. CASE WaitUntilSave
  <2>1. /\ phase = "closing" /\ phase' \in {"waiting", "shutdown"}
        /\ UNCHANGED <<data, explorer, scan, unread, loader, disk>>
    BY <1>4 DEF WaitUntilSave
  <2>2. CASE CanSave /\ (Sends \/ SendFails)
    BY <2>1, <2>2, SendStep DEF Alive
  <2>3. CASE UNCHANGED <<dirty, tasks, pending>>
    BY <2>1, <2>3 DEF SavedInv, IdleInv, TasksInv, TaskIsSound, OneWriter, LoaderInv,
       SessionsInv, NothingForgotten, Known, OnItsWay, Alive
  <2> QED
    BY <1>4, <2>2, <2>3 DEF WaitUntilSave
<1>5. CASE PollPendingSave
  BY <1>5, ResultStep DEF PollPendingSave, Alive
<1>6. CASE WaitForPendingSave
  <2>1. CASE \E t \in Awaited : HandleSaveResult(t)
    BY <1>6, <2>1, ResultStep DEF WaitForPendingSave, Alive
  <2>2. CASE dirty' = AfterFailure /\ pending' = 0 /\ UNCHANGED tasks
    BY <1>6, <2>2 DEF WaitForPendingSave, AfterFailure, SavedInv, IdleInv, TasksInv,
       TaskIsSound, OneWriter, LoaderInv, SessionsInv, NothingForgotten, Alive, TypeOK, Tasks
  <2> QED
    BY <1>6, <2>1, <2>2 DEF WaitForPendingSave
<1>7. CASE SaveStorage
  BY <1>7, WriteStep
<1>8. CASE Ends \/ Killed
  BY <1>8 DEF Ends, Killed, Dies, NoLoader, SavedInv, IdleInv, TasksInv, OneWriter, LoaderInv,
     SessionsInv, NothingForgotten, Alive
<1>9. CASE StorageIsRemoved
  BY <1>9, IdleStep DEF StorageIsRemoved, uiData, Alive
<1>10. CASE UNCHANGED storageVars
  BY <1>10, CalmStep DEF storageVars, uiData
<1> QED
  BY <1>1, <1>2, <1>3, <1>4, <1>5, <1>6, <1>7, <1>8, <1>9, <1>10 DEF StorageNext, Saves, Stops

-----------------------------------------------------------------------------
(* The old list is imported once. *)

\* Nothing has been imported at the first start.
LEMMA ImportInit == StorageInit => ImportInv
BY StorageFacts DEF StorageInit, ImportInv, AllDefault, Default, Imported

\* Every step keeps what is known of the import.
LEMMA ImportStep ==
  ASSUME NothingIsSilent, TypeOK, SavedInv, ImportInv, [StorageNext]_storageVars
  PROVE  ImportInv'
<1> USE StorageFacts
<1>1. CASE Starts
  BY <1>1 DEF Starts, ImportInv, uiData, imports
<1>2. CASE RunImportHook
  BY <1>2 DEF RunImportHook, Importable, Creates, ImportInv, uiData, imports, TypeOK, Imported,
     NothingIsSilent
<1>3. CASE WritesImport
  BY <1>3 DEF WritesImport, Puts, ImportInv, uiData, imports, TypeOK, Default, Imported
<1>4. CASE CreateLegacyMarker
  <2>1. /\ legacy /\ disk[Recents] # Absent => marker'
        /\ marker => marker'
        /\ phase' = "load"
        /\ UNCHANGED <<data, tasks, disk, legacy, inUse>>
    BY <1>4, Zenon DEF CreateLegacyMarker, MarksImport, NothingIsSilent, uiData
  <2> QED
    BY <2>1 DEF ImportInv
<1>5. CASE LoadSessions
  <2>1. /\ phase = "load" /\ phase' \in {"settings", "normalize"}
        /\ inUse' = (inUse \/ disk[Recents] = Imported)
        /\ UNCHANGED <<tasks, disk, legacy, marker>>
    BY <1>5 DEF LoadSessions
  <2>2. data'[Recents] = Imported => legacy
    BY <1>5 DEF LoadSessions, Loads, Content, ImportInv, TypeOK, Imported, Default
  <2> QED
    BY <2>1, <2>2 DEF ImportInv
<1>6. CASE SavesNormalized
  BY <1>6 DEF SavesNormalized, Creates, Puts, ImportInv, uiData, imports, TypeOK, Imported
<1>7. CASE LoadSettings
  BY <1>7 DEF LoadSettings, Loads, ImportInv, imports, TypeOK
<1>8. CASE ReadsFavorites
  BY <1>8 DEF ReadsFavorites, ImportInv, uiData, imports
<1>9. CASE Edits
  <2>1. \/ data'[Recents] = data[Recents]
        \/ data'[Recents] = last + 1
    BY <1>9 DEF Edits, FinishLoad, ChangesList, RemoveFavoriteFolder, PrepareScan, FinishScan,
       Changes, TypeOK
  <2>2. last + 1 # Imported
    BY StorageAssumption DEF TypeOK, Imported
  <2>3. phase = "running" /\ phase' = phase /\ UNCHANGED <<tasks, disk, legacy, marker, inUse>>
    BY <1>9 DEF Edits, FinishLoad, ChangesList, RemoveFavoriteFolder, PrepareScan, FinishScan,
       imports
  <2> QED
    BY <2>1, <2>2, <2>3 DEF ImportInv
<1>10. CASE AutoSave \/ Exits \/ WaitUntilSave \/ PollPendingSave \/ WaitForPendingSave
  <2>1. /\ phase' \in Alive
        /\ UNCHANGED <<data, disk, legacy, marker, inUse>>
    BY <1>10 DEF AutoSave, Exits, WaitUntilSave, PollPendingSave, WaitForPendingSave,
       imports, Alive
  <2>2. ASSUME NEW u \in tasks' PROVE u \in tasks \/ u.snap = data
    <3>1. u \in tasks \/ (Sends /\ u = NewTask(Savable))
      BY <1>10, <2>2, Zenon DEF AutoSave, Exits, WaitUntilSave, PollPendingSave,
         WaitForPendingSave, ScheduleSave, Sends, SendFails, HandleSaveResult
    <3>2. NewTask(Savable).snap = data
      BY DEF NewTask
    <3> QED
      BY <3>1, <3>2
  <2> QED
    BY <2>1, <2>2 DEF ImportInv, Alive
<1>11. CASE SaveStorage
  <2>1. PICK t \in tasks : \E d \in t.todo : CreatesFile(t, d) \/ WritesFile(t, d)
    BY <1>11 DEF SaveStorage
  <2>2. PICK d \in t.todo : CreatesFile(t, d) \/ WritesFile(t, d)
    BY <2>1
  <2>3. t \in Tasks /\ d \in Domains
    BY <2>2 DEF TypeOK, Tasks
  <2>4. PICK u : TaskBecomes(t, u) /\ u \in {[t EXCEPT !.open = TRUE], Written(t, d),
                                         [t EXCEPT !.open = FALSE, !.failed = TRUE]}
    BY <2>2, Zenon DEF CreatesFile, WritesFile, Fails
  <2>5. u.snap = t.snap
    BY <2>3, <2>4 DEF Tasks, Written
  <2>6. \A v \in tasks' : v \in tasks \/ v.snap = t.snap
    BY <2>4, <2>5 DEF TaskBecomes
  <2>7. disk'[Recents] = disk[Recents] \/ disk'[Recents] = Broken
        \/ disk'[Recents] = t.snap[Recents]
    BY <2>2, <2>3 DEF CreatesFile, WritesFile, Creates, Puts, TypeOK
  <2>8. UNCHANGED <<phase, data, legacy, marker, inUse>>
    BY <1>11 DEF SaveStorage, uiData, imports
  <2>9. phase \in Alive
    BY DEF SavedInv, IdleInv
  <2>10. Broken # Imported
    OBVIOUS
  <2> QED
    BY <2>6, <2>7, <2>8, <2>9, <2>10 DEF ImportInv, Alive
<1>12. CASE Ends \/ Killed
  BY <1>12 DEF Ends, Killed, Dies, ImportInv, imports, AllDefault, Default, Imported
<1>13. CASE StorageIsRemoved
  BY <1>13 DEF StorageIsRemoved, ImportInv, uiData, imports, Imported
<1>14. CASE UNCHANGED storageVars
  BY <1>14 DEF storageVars, ImportInv, uiData, imports
<1> QED
  BY <1>1, <1>2, <1>3, <1>4, <1>5, <1>6, <1>7, <1>8, <1>9, <1>10, <1>11, <1>12, <1>13, <1>14
     DEF StorageNext, StartsUp, Saves, Stops

-----------------------------------------------------------------------------
(* The theorems. *)

\* The three parts hold always.
LEMMA InvariantLemma ==
  ASSUME NothingIsSilent
  PROVE  StorageSpec => [](TypeOK /\ SavedInv /\ ImportInv)
<1>1. StorageInit => TypeOK /\ SavedInv /\ ImportInv
  BY TypeInit, SavedInit, ImportInit
<1>2. TypeOK /\ SavedInv /\ ImportInv /\ [StorageNext]_storageVars => (TypeOK /\ SavedInv /\ ImportInv)'
  BY TypeStep, SavedStep, ImportStep
<1> QED
  BY <1>1, <1>2, PTL DEF StorageSpec

(* As long as the application runs, whatever differs from its file is       *)
(* dirty, or is being written, or was reported: no failed, late or refused  *)
(* save of ui/storage and no reading of a file loses a change, if the write *)
(* itself does not hide its error. *)
THEOREM SavedCorrect == ASSUME NothingIsSilent PROVE StorageSpec => []NothingForgotten
<1>1. TypeOK /\ SavedInv /\ ImportInv => NothingForgotten
  BY DEF SavedInv
<1> QED
  BY <1>1, InvariantLemma, PTL

(* Two tasks of the service never write the same file at once, also when a  *)
(* wait at the end was given up. *)
THEOREM OneWriterCorrect == ASSUME NothingIsSilent PROVE StorageSpec => []OneWriter
<1>1. TypeOK /\ SavedInv /\ ImportInv => OneWriter
  BY DEF SavedInv, TasksInv
<1> QED
  BY <1>1, InvariantLemma, PTL

(* The file of the favourite folders is left alone until it has been read,  *)
(* also by a save after a failure, which writes every domain it may. *)
THEOREM LoadedCorrect == ASSUME NothingIsSilent PROVE StorageSpec => LoadedFirst
<1> DEFINE Leaves == phase \in Alive /\ explorer = "loading"
                       => disk'[Favorites] = disk[Favorites]
<1>1. TypeOK /\ SavedInv /\ ImportInv /\ [StorageNext]_storageVars => [Leaves]_storageVars
  <2> SUFFICES ASSUME TypeOK, SavedInv, [StorageNext]_storageVars, phase \in Alive, explorer = "loading"
               PROVE  disk'[Favorites] = disk[Favorites]
    OBVIOUS
  <2>1. CASE SaveStorage
    BY <2>1, WriteStep
  <2>2. CASE StartsUp
    BY <2>2 DEF StartsUp, Starts, RunImportHook, WritesImport, CreateLegacyMarker,
       LoadSessions, SavesNormalized, LoadSettings, ReadsFavorites, Alive
  <2>3. CASE Edits \/ AutoSave \/ PollPendingSave
    BY <2>3 DEF Edits, FinishLoad, ChangesList, RemoveFavoriteFolder, PrepareScan, FinishScan,
       AutoSave, PollPendingSave
  <2>4. CASE Stops
    BY <2>4 DEF Stops, Exits, WaitUntilSave, WaitForPendingSave, Ends, Killed, Dies,
       StorageIsRemoved, Alive
  <2>5. CASE UNCHANGED storageVars
    BY <2>5 DEF storageVars
  <2> QED
    BY <2>1, <2>2, <2>3, <2>4, <2>5 DEF StorageNext, Saves
<1> QED
  BY <1>1, InvariantLemma, PTL DEF StorageSpec, LoadedFirst

(* Once the list of Chipmunk 3 has been loaded it is never imported again,  *)
(* whatever crashes between import and marker and whatever is removed. *)
THEOREM ImportCorrect == ASSUME NothingIsSilent PROVE StorageSpec => ImportsOnce
<1> DEFINE Once == phase = "import" /\ phase' = "importing" => ~inUse
<1>1. TypeOK /\ SavedInv /\ ImportInv /\ [StorageNext]_storageVars => [Once]_storageVars
  <2> SUFFICES ASSUME ImportInv, [StorageNext]_storageVars, phase = "import", phase' = "importing"
               PROVE  ~inUse
    OBVIOUS
  <2>1. RunImportHook
    BY DEF StorageNext, StartsUp, Starts, RunImportHook, WritesImport, CreateLegacyMarker,
       LoadSessions, SavesNormalized, LoadSettings, ReadsFavorites, Edits, FinishLoad,
       ChangesList, RemoveFavoriteFolder, PrepareScan, FinishScan, Saves, AutoSave,
       PollPendingSave, SaveStorage, Stops, Exits, WaitUntilSave, WaitForPendingSave,
       Ends, Killed, Dies, StorageIsRemoved, storageVars, Alive
  <2> QED
    BY <2>1 DEF RunImportHook, Importable, ImportInv
<1> QED
  BY <1>1, InvariantLemma, PTL DEF StorageSpec, ImportsOnce

-----------------------------------------------------------------------------
(* The tables of rows. *)

Lines == [row : Nat, drops : Nat]

Answers ==
  [rows : SUBSET Nat, is : {"none", "lines", "refused"}, lines : Seq(Lines),
   late : BOOLEAN]

UiTypes ==
  [at : {"idle", "prepares", "waits", "draws"}, first : Nat \ {0}, count : Nat,
   waits : Channels \cup {NoChannel}, dropped : BOOLEAN, awake : BOOLEAN,
   sticks : BOOLEAN, inputs : Nat, sent : Nat, cleared : Nat]

CoreTypes == [len : Nat, marks : Nat, drops : Nat]

TablesTypes ==
  /\ kind \in TableKinds
  /\ table = [last |-> table.last, pending |-> table.pending,
              logs |-> table.logs, late |-> table.late]
  /\ table.last \in SUBSET Nat /\ table.pending \in Channels \cup {NoChannel}
  /\ ui \in UiTypes
  /\ channel \in [Channels -> Answers]
  /\ commands \in Seq(Channels \cup {Drop})
  /\ inbox \in Seq(Nat)
  /\ core \in CoreTypes

(* The first visible row is one; while the table waits it has asked for what *)
(* is visible.  *)
FrameInv ==
  /\ ui.count > 0 => ui.first <= ui.count
  /\ ui.waits = NoChannel <=> ui.at # "waits"
  /\ ui.at = "waits" =>
       table.last = Visible /\ ui.waits # table.pending
  /\ ui.cleared <= ui.sent

(* The lines of an answer are the rows that it is for, one after the other,  *)
(* and were read after all drops that the table was cleared for.  Unless it  *)
(* is marked as late, it is for the rows that were asked for last. *)
AnswerIsSound(c) ==
  /\ channel[c].rows # {} /\ IsFiniteSet(channel[c].rows)
  /\ channel[c].late \/ channel[c].rows = table.last
  /\ \A i \in DOMAIN channel[c].lines :
       /\ channel[c].lines[i].row = Min(channel[c].rows) + i - 1
       /\ channel[c].lines[i].drops >= ui.cleared

(* The channels that the table listens to. *)
Heard == {table.pending, ui.waits} \ {NoChannel}

AnswersInv == \A c \in Heard : AnswerIsSound(c)

(* How many drops will have been served when the turn of a command comes.    *)
Stamps(stamp) ==
  /\ stamp[1] = core.drops /\ stamp[Len(commands) + 1] = ui.sent
  /\ \A i \in 1 .. Len(commands) :
       /\ stamp[i + 1] = IF commands[i] = Drop THEN stamp[i] + 1 ELSE stamp[i]
       /\ commands[i] \in Heard => stamp[i] >= ui.cleared

(* A command whose answer is waited for is behind all drops that the table   *)
(* was cleared for. *)
QueueInv == \E stamp \in [1 .. Len(commands) + 1 -> Nat] : Stamps(stamp)

TablesInv ==
  TablesTypes /\ FrameInv /\ AnswersInv /\ QueueInv /\ RowsAreCurrent

-----------------------------------------------------------------------------

\* What TablesAssumption says of the constants.
LEMMA TablesFacts ==
  /\ Page \in Nat /\ Page > 0 /\ Capacity \in Nat /\ Capacity > 0 /\ MaxLen \in Nat
  /\ Marks \subseteq Nat
  /\ Channels = 1 .. Capacity + 2 /\ Drop = 0 /\ NoChannel = 0
  /\ NoChannel \notin Channels
BY TablesAssumption DEF Channels, Drop, NoChannel

\* A channel that is not used.
LEMMA UnusedIs ==
  /\ Unused \in Answers /\ Unused.rows = {} /\ Unused.lines = << >> /\ ~Unused.late
BY DEF Unused, Answers

\* The smallest member of a set of numbers.
LEMMA MinIs ==
  ASSUME NEW S \in SUBSET Nat, S # {}
  PROVE  Min(S) \in S /\ \A x \in S : Min(S) <= x
BY SmallestIsThere DEF Min

\* The visible rows are a finite set of numbers, and the first one is there.
LEMMA VisibleIs ==
  ASSUME TablesTypes
  PROVE  /\ Visible \in SUBSET Nat /\ IsFiniteSet(Visible)
         /\ ui.count > 0 /\ ui.first <= ui.count => Visible # {}
<1>1. ui.first \in Nat /\ ui.count \in Nat /\ Page \in Nat /\ Page > 0
  BY TablesFacts DEF TablesTypes, UiTypes, CoreTypes
<1>2. Visible \in SUBSET (ui.first .. ui.first + Page - 1)
  BY DEF Visible
<1>3. IsFiniteSet(ui.first .. ui.first + Page - 1)
  <2>1. ui.first \in Int /\ ui.first + Page - 1 \in Int
    BY <1>1
  <2> QED
    BY <2>1, FS_Interval
<1>4. IsFiniteSet(Visible)
  BY <1>2, <1>3, FS_Subset
<1>5. ui.first <= ui.count => ui.first \in Visible
  BY <1>1 DEF Visible
<1> QED
  BY <1>1, <1>2, <1>4, <1>5

\* Where a table is after scrolling there are rows.
LEMMA ScrolledIs ==
  ASSUME NEW row \in Nat \ {0}, NEW count \in Nat
  PROVE  /\ Scrolled(row, count) \in Nat \ {0}
         /\ count > 0 => Scrolled(row, count) <= count
BY TablesFacts DEF Scrolled, Smaller

\* The same of a table that follows its end.
LEMMA FollowedIs ==
  ASSUME TablesTypes, NEW count \in Nat
  PROVE  /\ Followed(count) \in Nat \ {0}
         /\ count > 0 => Followed(count) <= count
<1>1. MaxLen \in Nat \ {0} /\ ui.first \in Nat \ {0}
  BY TablesAssumption DEF TablesTypes, UiTypes, CoreTypes
<1>2. /\ Scrolled(MaxLen, count) \in Nat \ {0} /\ Scrolled(ui.first, count) \in Nat \ {0}
      /\ count > 0 => Scrolled(MaxLen, count) <= count /\ Scrolled(ui.first, count) <= count
  BY <1>1, ScrolledIs
<1> QED
  BY <1>2 DEF Followed

\* What the view counts is a number.
LEMMA CountedIs ==
  ASSUME TablesTypes
  PROVE  Counted \in Nat
<1>1. inbox \in Seq(Nat) /\ ui.count \in Nat
  BY DEF TablesTypes, UiTypes, CoreTypes
<1>2. inbox # << >> => inbox[Len(inbox)] \in Nat
  BY <1>1
<1> QED
  BY <1>1, <1>2 DEF Counted, Last

\* When the queue has room there is a channel that nobody uses.
LEMMA FreeIs ==
  ASSUME TablesTypes, FrameInv, ui.at = "prepares", Len(commands) < Capacity
  PROVE  /\ Min(Free) \in Channels /\ ~IsHeard(Min(Free))
         /\ \A i \in 1 .. Len(commands) : commands[i] # Min(Free)
<1> DEFINE Queued == {commands[i] : i \in 1 .. Len(commands)}
<1>0. Len(commands) \in Nat /\ commands \in Seq(Channels \cup {Drop})
  BY DEF TablesTypes, UiTypes, CoreTypes
<1>1. IsFiniteSet(1 .. Len(commands)) /\ Cardinality(1 .. Len(commands)) = Len(commands)
  BY <1>0, FS_Interval
<1>2. IsFiniteSet(Queued) /\ Cardinality(Queued) <= Len(commands)
  <2> DEFINE f == [i \in 1 .. Len(commands) |-> commands[i]]
  <2>1. f \in Surjection(1 .. Len(commands), Queued)
    BY DEF Surjection
  <2> HIDE DEF f
  <2> QED
    BY <1>1, <2>1, FS_Surjection
<1>3. IsFiniteSet(Queued \cup {table.pending})
      /\ Cardinality(Queued \cup {table.pending}) <= Len(commands) + 1
  <2> HIDE DEF Queued
  <2>1. Cardinality(Queued) \in Nat
    BY <1>2, FS_CardinalityType
  <2>2. /\ IsFiniteSet(Queued \cup {table.pending})
        /\ Cardinality(Queued \cup {table.pending}) =
             IF table.pending \in Queued THEN Cardinality(Queued) ELSE Cardinality(Queued) + 1
    BY <1>2, FS_AddElement
  <2> QED
    BY <1>0, <1>2, <2>1, <2>2
<1>4. IsFiniteSet(Channels) /\ Cardinality(Channels) = Capacity + 2
  BY TablesFacts, FS_Interval
<1>5. Channels \ (Queued \cup {table.pending}) # {}
  <2> SUFFICES ASSUME Channels \subseteq Queued \cup {table.pending} PROVE FALSE
    OBVIOUS
  <2>1. Cardinality(Channels) <= Cardinality(Queued \cup {table.pending})
    BY <1>3, FS_Subset
  <2> QED
    BY <1>0, <1>3, <1>4, <2>1, TablesFacts, FS_CardinalityType
<1>6. ui.waits = NoChannel
  BY DEF FrameInv
<1>7. \A c \in Channels \ (Queued \cup {table.pending}) : c \in Free
  BY <1>0, <1>6, TablesFacts DEF Free, IsHeard, Contains
<1>8. Free \in SUBSET Nat /\ Free # {}
  BY <1>5, <1>7, TablesFacts DEF Free
<1>9. Min(Free) \in Free
  BY <1>8, MinIs
<1> QED
  BY <1>0, <1>9 DEF Free, Contains

-----------------------------------------------------------------------------

\* The queue, when no more is waited for than before.
LEMMA QueueKept ==
  ASSUME TablesTypes, QueueInv, commands' = commands, core'.drops = core.drops,
         ui'.sent = ui.sent, ui'.cleared = ui.cleared,
         Heard' \subseteq Heard
  PROVE  QueueInv'
<1>1. PICK stamp \in [1 .. Len(commands) + 1 -> Nat] : Stamps(stamp)
  BY DEF QueueInv
<1>3. Stamps(stamp)'
  BY <1>1 DEF Stamps
<1> QED
  BY <1>1, <1>3 DEF QueueInv

\* The answers, when no more is waited for than before.
LEMMA AnswersKept ==
  ASSUME AnswersInv, table'.last = table.last, ui'.cleared = ui.cleared,
         \A c \in Heard' : c \in Heard /\ channel'[c] = channel[c]
  PROVE  AnswersInv'
BY DEF AnswersInv, AnswerIsSound

\* The rows, when none is replaced.
LEMMA RowsKept ==
  ASSUME RowsAreCurrent, kind' = kind, table'.logs = table.logs,
         table'.late = table.late, ui'.cleared = ui.cleared
  PROVE  RowsAreCurrent'
BY DEF RowsAreCurrent

\* A frame starts where there are rows.
LEMMA FrameKeeps ==
  ASSUME TablesInv, ui.at = "idle", NEW first \in Nat \ {0}, NEW inputs \in Nat,
         Counted > 0 => first <= Counted, Frame(first, inputs), inbox' = << >>,
         UNCHANGED <<kind, table, channel, commands, core>>
  PROVE  TablesInv'
<1>0. TablesTypes /\ FrameInv /\ AnswersInv /\ QueueInv /\ RowsAreCurrent
  BY DEF TablesInv
<1>1. Counted \in Nat
  BY <1>0, CountedIs
<1>2. /\ ui'.at = "prepares" /\ ui'.first = first /\ ui'.count = Counted
      /\ ui'.waits = ui.waits /\ ui'.sent = ui.sent /\ ui'.cleared = ui.cleared
  BY <1>0 DEF Frame, TablesTypes, UiTypes, CoreTypes
<1>3. TablesTypes'
  <2>1. ui' \in UiTypes
    BY <1>0, <1>1 DEF Frame, TablesTypes, UiTypes
  <2>2. inbox' \in Seq(Nat)
    OBVIOUS
  <2> QED
    BY <1>0, <2>1, <2>2 DEF TablesTypes
<1>4. FrameInv'
  BY <1>0, <1>1, <1>2 DEF FrameInv
<1>5. \A c \in Heard' : c \in Heard /\ channel'[c] = channel[c]
  BY <1>2 DEF Heard
<1>6. AnswersInv' /\ QueueInv' /\ RowsAreCurrent'
  BY <1>0, <1>2, <1>5, AnswersKept, QueueKept, RowsKept
<1> QED
  BY <1>3, <1>4, <1>6 DEF TablesInv

\* Frames that follow the rows, or the user.
LEMMA FramesKeep ==
  ASSUME TablesInv, FrameStarts \/ Scrolls
  PROVE  TablesInv'
<1>0. TablesTypes
  BY DEF TablesInv
<1>1. CASE FrameStarts
  <2>1. Followed(Counted) \in Nat \ {0} /\ (Counted > 0 => Followed(Counted) <= Counted)
    BY <1>0, CountedIs, FollowedIs
  <2>2. ui.inputs \in Nat
    BY <1>0 DEF TablesTypes, UiTypes, CoreTypes
  <2> QED
    BY <1>1, <2>1, <2>2, FrameKeeps DEF FrameStarts
<1>2. CASE Scrolls
  <2>1. PICK row \in 1 .. MaxLen : row = Scrolled(row, Counted) /\ Frame(row, ui.inputs + 1)
    BY <1>2 DEF Scrolls
  <2>2. row \in Nat \ {0} /\ ui.inputs + 1 \in Nat
    BY <1>0, TablesFacts DEF TablesTypes, UiTypes, CoreTypes
  <2>3. Counted > 0 => row <= Counted
    BY <1>0, <2>1, <2>2, CountedIs, ScrolledIs
  <2> QED
    BY <1>2, <2>1, <2>2, <2>3, FrameKeeps DEF Scrolls
<1> QED
  BY <1>1, <1>2

\* A drop is sent, or lost: nothing is waited for behind it.
LEMMA DropsKeep ==
  ASSUME TablesInv, DropsSearch
  PROVE  TablesInv'
<1>0. TablesTypes /\ FrameInv /\ AnswersInv /\ QueueInv /\ RowsAreCurrent
  BY DEF TablesInv
<1> DEFINE left == Smaller(Counted, core.marks)
           fits == Len(commands) < Capacity
<1>1. left \in Nat
  BY <1>0, CountedIs DEF Smaller, TablesTypes, UiTypes, CoreTypes
<1>2. Followed(left) \in Nat \ {0} /\ (left > 0 => Followed(left) <= left)
  BY <1>0, <1>1, FollowedIs
<1>3. /\ ui.at = "idle" /\ inbox' = << >>
      /\ ui' = [ui EXCEPT !.at = "prepares", !.awake = ~fits, !.count = left,
                  !.first = Followed(left), !.dropped = TRUE,
                  !.sent = IF fits THEN @ + 1 ELSE @, !.inputs = @ + 1]
      /\ commands' = IF fits THEN Append(commands, Drop) ELSE commands
      /\ kind' = kind /\ table' = table /\ channel' = channel /\ core' = core
  BY DEF DropsSearch
<1> HIDE DEF left, fits
<1>4. /\ ui'.at = "prepares" /\ ui'.first = Followed(left) /\ ui'.count = left
      /\ ui'.waits = ui.waits /\ ui'.cleared = ui.cleared
      /\ ui'.sent = IF fits THEN ui.sent + 1 ELSE ui.sent
  BY <1>0, <1>3 DEF TablesTypes, UiTypes, CoreTypes
<1>5. TablesTypes'
  <2>1. fits \in BOOLEAN
    BY DEF fits
  <2>2. ui' \in UiTypes
    <3>1. ui \in UiTypes
      BY <1>0 DEF TablesTypes
    <3>2. /\ (IF fits THEN ui.sent + 1 ELSE ui.sent) \in Nat /\ ui.inputs + 1 \in Nat
          /\ (~fits) \in BOOLEAN
      BY <2>1, <3>1 DEF UiTypes
    <3>3. ui' = [ui EXCEPT !.at = "prepares", !.awake = ~fits, !.count = left,
                   !.first = Followed(left), !.dropped = TRUE,
                   !.sent = IF fits THEN ui.sent + 1 ELSE ui.sent,
                   !.inputs = ui.inputs + 1]
      BY <1>3
    <3> QED
      BY <1>1, <1>2, <3>1, <3>2, <3>3 DEF UiTypes
  <2>3. inbox' \in Seq(Nat)
    BY <1>3
  <2>4. commands' \in Seq(Channels \cup {Drop})
    BY <1>0, <1>3 DEF TablesTypes
  <2> QED
    BY <1>0, <1>3, <2>2, <2>3, <2>4 DEF TablesTypes
<1>6. ui.sent \in Nat /\ ui.cleared \in Nat
  BY <1>0 DEF TablesTypes, UiTypes, CoreTypes
<1>7. FrameInv'
  BY <1>0, <1>1, <1>2, <1>3, <1>4, <1>6 DEF FrameInv
<1>8. \A c \in Heard' : c \in Heard /\ channel'[c] = channel[c]
  BY <1>3, <1>4 DEF Heard
<1>9. AnswersInv' /\ RowsAreCurrent'
  BY <1>0, <1>3, <1>4, <1>8, AnswersKept, RowsKept
<1>10. QueueInv'
  <2>1. CASE ~fits
    BY <1>0, <1>3, <1>4, <1>8, <2>1, QueueKept
  <2>2. CASE fits
    <3>1. PICK stamp \in [1 .. Len(commands) + 1 -> Nat] : Stamps(stamp)
      BY <1>0 DEF QueueInv
    <3> DEFINE n == Len(commands)
    <3>9. PICK more :
            more = [i \in 1 .. n + 2 |-> IF i = n + 2 THEN ui.sent + 1 ELSE stamp[i]]
      OBVIOUS
    <3>2. n \in Nat /\ Len(commands') = n + 1 /\ commands'[n + 1] = Drop
          /\ \A i \in 1 .. n : commands'[i] = commands[i]
      BY <1>0, <1>3, <2>2 DEF TablesTypes, UiTypes, CoreTypes
    <3>3. more \in [1 .. Len(commands') + 1 -> Nat]
      BY <1>6, <3>1, <3>2, <3>9
    <3>4. more[1] = core.drops /\ more[n + 2] = ui.sent + 1 /\ stamp[n + 1] = ui.sent
      BY <3>1, <3>2, <3>9 DEF Stamps
    <3>10. Drop \notin Heard
      BY TablesFacts DEF Heard
    <3>5. \A i \in 1 .. n + 1 :
            /\ more[i + 1] = IF commands'[i] = Drop THEN more[i] + 1 ELSE more[i]
            /\ commands'[i] \in Heard => more[i] >= ui.cleared
      <4>1. ASSUME NEW i \in 1 .. n
            PROVE  /\ more[i + 1] = IF commands'[i] = Drop THEN more[i] + 1 ELSE more[i]
                   /\ commands'[i] \in Heard => more[i] >= ui.cleared
        <5>1. more[i] = stamp[i] /\ more[i + 1] = stamp[i + 1]
          BY <3>2, <3>9
        <5> QED
          BY <3>1, <3>2, <5>1 DEF Stamps
      <4>2. more[n + 1] = stamp[n + 1]
        BY <3>2, <3>9
      <4>4. more[n + 1 + 1] = more[n + 2]
        BY <3>2
      <4>3. \A i \in 1 .. n + 1 : i \in 1 .. n \/ i = n + 1
        BY <3>2
      <4> QED
        <5>1. /\ more[n + 1 + 1] = IF commands'[n + 1] = Drop THEN more[n + 1] + 1
                                                             ELSE more[n + 1]
              /\ commands'[n + 1] \in Heard => more[n + 1] >= ui.cleared
          BY <3>2, <3>4, <4>2, <4>4, <3>10
        <5> QED
          BY <4>1, <4>3, <5>1
    <3>6. Heard' = Heard
      BY <1>3, <1>4 DEF Heard
    <3>7. ui'.sent = ui.sent + 1 /\ ui'.cleared = ui.cleared /\ core' = core
      BY <1>3, <1>4, <2>2
    <3>8. Stamps(more)'
      BY <3>2, <3>4, <3>5, <3>6, <3>7 DEF Stamps
    <3> QED
      BY <3>3, <3>8 DEF QueueInv
  <2> QED
    BY <2>1, <2>2
<1> QED
  BY <1>5, <1>7, <1>9, <1>10 DEF TablesInv

\* There are no rows: the search table gives up what it waits for.
LEMMA HasNoRowsKeeps ==
  ASSUME TablesInv, HasNoRows
  PROVE  TablesInv'
<1>0. TablesTypes /\ FrameInv /\ AnswersInv /\ QueueInv /\ RowsAreCurrent
  BY DEF TablesInv
<1>1. /\ ui.at = "prepares" /\ ui' = [ui EXCEPT !.at = "draws"]
      /\ kind' = kind /\ commands' = commands /\ inbox' = inbox /\ core' = core
  BY DEF HasNoRows
<1>2. /\ ui'.at = "draws" /\ ui'.first = ui.first /\ ui'.count = ui.count
      /\ ui'.waits = ui.waits /\ ui'.sent = ui.sent /\ ui'.cleared = ui.cleared
  BY <1>0, <1>1 DEF TablesTypes, UiTypes, CoreTypes
<1>3. ui.waits = NoChannel
  BY <1>0, <1>1 DEF FrameInv
<1>4. CASE kind = "search"
  <2>1. /\ table' = [table EXCEPT !.last = {}, !.pending = NoChannel]
        /\ \/ channel' = [channel EXCEPT ![table.pending] = Unused]
           \/ channel' = channel
    BY <1>4 DEF HasNoRows, Released
  <2>2. /\ table'.last = {} /\ table'.pending = NoChannel
        /\ table'.logs = table.logs /\ table'.late = table.late
        /\ table' = [last |-> {}, pending |-> NoChannel, logs |-> table.logs,
                     late |-> table.late]
    BY <1>0, <2>1 DEF TablesTypes, UiTypes, CoreTypes
  <2>3. Unused \in Answers
    BY UnusedIs
  <2>4. TablesTypes'
    <3>1. channel' \in [Channels -> Answers]
      BY <1>0, <2>1, <2>3 DEF TablesTypes
    <3>2. ui' \in UiTypes
      BY <1>0, <1>1 DEF TablesTypes, UiTypes
    <3> QED
      BY <1>0, <1>1, <2>2, <3>1, <3>2 DEF TablesTypes
  <2>5. Heard' = {}
    BY <1>2, <1>3, <2>2, TablesFacts DEF Heard
  <2>6. AnswersInv' /\ QueueInv' /\ RowsAreCurrent'
    BY <1>0, <1>1, <1>2, <2>2, <2>5, QueueKept, RowsKept DEF AnswersInv
  <2>7. FrameInv'
    BY <1>0, <1>2, <1>3 DEF FrameInv
  <2> QED
    BY <2>4, <2>6, <2>7 DEF TablesInv
<1>5. CASE kind # "search"
  <2>1. table' = table /\ channel' = channel
    BY <1>5 DEF HasNoRows
  <2>2. TablesTypes'
    BY <1>0, <1>1, <2>1 DEF TablesTypes, UiTypes, CoreTypes
  <2>3. \A c \in Heard' : c \in Heard /\ channel'[c] = channel[c]
    BY <1>2, <2>1 DEF Heard
  <2>4. AnswersInv' /\ QueueInv' /\ RowsAreCurrent'
    BY <1>0, <1>1, <1>2, <2>1, <2>3, AnswersKept, QueueKept, RowsKept
  <2>5. FrameInv'
    BY <1>0, <1>2, <1>3, <2>1 DEF FrameInv
  <2> QED
    BY <2>2, <2>4, <2>5 DEF TablesInv
<1> QED
  BY <1>4, <1>5

\* An answer that is out is waited for again, or nothing is.
LEMMA WaitsAgainKeeps ==
  ASSUME TablesInv, WaitsAgain
  PROVE  TablesInv'
<1>0. TablesTypes /\ FrameInv /\ AnswersInv /\ QueueInv /\ RowsAreCurrent
  BY DEF TablesInv
<1>1. /\ ui.at = "prepares" /\ table.last = Visible /\ ui.waits = NoChannel
      /\ kind' = kind /\ commands' = commands /\ inbox' = inbox /\ core' = core
      /\ channel' = channel
  BY <1>0 DEF WaitsAgain, AskedForVisible, FrameInv
<1>2. CASE table.pending = NoChannel
  <2>1. ui' = [ui EXCEPT !.at = "draws"] /\ table' = table
    BY <1>2 DEF WaitsAgain
  <2>2. /\ ui'.at = "draws" /\ ui'.first = ui.first /\ ui'.count = ui.count
        /\ ui'.waits = ui.waits /\ ui'.sent = ui.sent /\ ui'.cleared = ui.cleared
    BY <1>0, <2>1 DEF TablesTypes, UiTypes, CoreTypes
  <2>3. TablesTypes'
    BY <1>0, <1>1, <2>1 DEF TablesTypes, UiTypes, CoreTypes
  <2>4. \A c \in Heard' : c \in Heard /\ channel'[c] = channel[c]
    BY <1>1, <2>1, <2>2 DEF Heard
  <2>5. AnswersInv' /\ QueueInv' /\ RowsAreCurrent'
    BY <1>0, <1>1, <2>1, <2>2, <2>4, AnswersKept, QueueKept, RowsKept
  <2>6. FrameInv'
    BY <1>0, <1>1, <2>2 DEF FrameInv
  <2> QED
    BY <2>3, <2>5, <2>6 DEF TablesInv
<1>3. CASE table.pending # NoChannel
  <2>1. /\ ui' = [ui EXCEPT !.at = "waits", !.waits = table.pending]
        /\ table' = [table EXCEPT !.pending = NoChannel]
    BY <1>3 DEF WaitsAgain
  <2>2. /\ ui'.at = "waits" /\ ui'.first = ui.first /\ ui'.count = ui.count
        /\ ui'.waits = table.pending /\ ui'.sent = ui.sent /\ ui'.cleared = ui.cleared
    BY <1>0, <2>1 DEF TablesTypes, UiTypes, CoreTypes
  <2>3. /\ table'.last = table.last /\ table'.pending = NoChannel
        /\ table'.logs = table.logs /\ table'.late = table.late
        /\ table' = [last |-> table.last, pending |-> NoChannel, logs |-> table.logs,
                     late |-> table.late]
    BY <1>0, <2>1 DEF TablesTypes, UiTypes, CoreTypes
  <2>4. TablesTypes'
    BY <1>0, <1>1, <2>1, <2>3 DEF TablesTypes, UiTypes, CoreTypes
  <2>5. \A c \in Heard' : c \in Heard /\ channel'[c] = channel[c]
    BY <1>1, <2>2, <2>3, TablesFacts DEF Heard
  <2>6. AnswersInv' /\ QueueInv' /\ RowsAreCurrent'
    BY <1>0, <1>1, <2>2, <2>3, <2>5, AnswersKept, QueueKept, RowsKept
  <2>7. FrameInv'
    BY <1>0, <1>1, <1>3, <2>2, <2>3 DEF FrameInv, Visible
  <2> QED
    BY <2>4, <2>6, <2>7 DEF TablesInv
<1> QED
  BY <1>2, <1>3

\* Marking the pending answer as late.
LEMMA LateIs ==
  ASSUME TablesTypes
  PROVE  /\ PendingLate \in [Channels -> Answers]
         /\ \A c \in Channels :
              /\ PendingLate[c].rows = channel[c].rows
              /\ PendingLate[c].lines = channel[c].lines
              /\ c = table.pending => PendingLate[c].late
              /\ c # table.pending => PendingLate[c] = channel[c]
<1>1. ASSUME NEW c \in Channels
      PROVE  /\ [channel[c] EXCEPT !.late = TRUE] \in Answers /\ channel[c] \in Answers
             /\ [channel[c] EXCEPT !.late = TRUE].rows = channel[c].rows
             /\ [channel[c] EXCEPT !.late = TRUE].lines = channel[c].lines
             /\ [channel[c] EXCEPT !.late = TRUE].late = TRUE
  BY DEF TablesTypes, UiTypes, CoreTypes, Answers
<1> QED
  BY <1>1 DEF PendingLate

\* Other rows are asked for.
LEMMA AsksKeeps ==
  ASSUME TablesInv, Asks
  PROVE  TablesInv'
<1>0. TablesTypes /\ FrameInv /\ AnswersInv /\ QueueInv /\ RowsAreCurrent
  BY DEF TablesInv
<1> DEFINE c == Min(Free)
<1>1. /\ ui.at = "prepares" /\ ui.waits = NoChannel /\ ui.count > 0
      /\ kind' = kind /\ inbox' = inbox /\ core' = core
      /\ commands' = Append(commands, c)
      /\ ui' = [ui EXCEPT !.at = "waits", !.waits = c]
      /\ channel' = [PendingLate EXCEPT ![c] = [Unused EXCEPT !.rows = Visible]]
      /\ table' = [table EXCEPT !.last = Visible]
  BY <1>0 DEF Asks, FrameInv
<1>2. /\ c \in Channels /\ ~IsHeard(c)
      /\ \A i \in 1 .. Len(commands) : commands[i] # c
  BY <1>0, <1>1, FreeIs DEF Asks
<1> HIDE DEF c
<1>3. /\ ui'.at = "waits" /\ ui'.first = ui.first /\ ui'.count = ui.count
      /\ ui'.waits = c /\ ui'.sent = ui.sent /\ ui'.cleared = ui.cleared
  BY <1>0, <1>1, <1>2 DEF TablesTypes, UiTypes, CoreTypes
<1>4. /\ table'.last = Visible /\ table'.pending = table.pending
      /\ table'.logs = table.logs /\ table'.late = table.late
      /\ table' = [last |-> Visible, pending |-> table.pending, logs |-> table.logs,
                   late |-> table.late]
  BY <1>0, <1>1 DEF TablesTypes, UiTypes, CoreTypes
<1>5. /\ Visible \in SUBSET Nat /\ IsFiniteSet(Visible) /\ Visible # {}
      /\ Visible' = Visible
  BY <1>0, <1>1, <1>3, VisibleIs DEF FrameInv, Visible
<1>6. /\ [Unused EXCEPT !.rows = Visible] \in Answers
      /\ [Unused EXCEPT !.rows = Visible].rows = Visible
      /\ [Unused EXCEPT !.rows = Visible].lines = << >>
  <2>1. \A S \in SUBSET Nat, q \in Answers :
          /\ [q EXCEPT !.rows = S] \in Answers /\ [q EXCEPT !.rows = S].rows = S
          /\ [q EXCEPT !.rows = S].lines = q.lines
    BY DEF Answers
  <2> QED
    BY <1>5, <2>1, UnusedIs
<1>7. TablesTypes'
  <2>1. channel' \in [Channels -> Answers]
    BY <1>0, <1>1, <1>6, LateIs
  <2>2. ui' \in UiTypes
    BY <1>0, <1>1, <1>2 DEF TablesTypes, UiTypes, CoreTypes
  <2>3. commands' \in Seq(Channels \cup {Drop})
    BY <1>0, <1>1, <1>2 DEF TablesTypes, UiTypes, CoreTypes
  <2> QED
    BY <1>0, <1>1, <1>4, <1>5, <2>1, <2>2, <2>3 DEF TablesTypes, UiTypes, CoreTypes
<1>8. FrameInv'
  BY <1>0, <1>2, <1>3, <1>4, <1>5, TablesFacts DEF FrameInv, IsHeard
<1>9. Heard' = Heard \cup {c} /\ c \notin Heard /\ Heard = {table.pending} \ {NoChannel}
  BY <1>1, <1>2, <1>3, <1>4, TablesFacts DEF Heard, IsHeard
<1>10. AnswersInv'
  <2> SUFFICES ASSUME NEW d \in Heard' PROVE AnswerIsSound(d)'
    BY DEF AnswersInv
  <2>1. CASE d = c
    <3>1. channel'[d] = [Unused EXCEPT !.rows = Visible]
      BY <1>0, <1>1, <1>2, <2>1, LateIs
    <3> QED
      BY <1>4, <1>5, <1>6, <3>1 DEF AnswerIsSound
  <2>2. CASE d # c
    <3>1. d = table.pending /\ AnswerIsSound(d)
      BY <1>0, <1>9, <2>2 DEF AnswersInv
    <3>2. channel'[d] = PendingLate[d]
      BY <1>0, <1>1, <2>2, LateIs
    <3>4. d \in Channels
      BY <1>0, <1>9, <2>2 DEF TablesTypes
    <3>3. channel'[d].rows = channel[d].rows /\ channel'[d].lines = channel[d].lines
          /\ channel'[d].late
      BY <1>0, <3>1, <3>2, <3>4, LateIs
    <3> QED
      BY <1>3, <3>1, <3>3 DEF AnswerIsSound
  <2> QED
    BY <2>1, <2>2
<1>11. QueueInv'
  <2>1. PICK stamp \in [1 .. Len(commands) + 1 -> Nat] : Stamps(stamp)
    BY <1>0 DEF QueueInv
  <2> DEFINE n == Len(commands)
  <2>8. PICK more :
          more = [i \in 1 .. n + 2 |-> IF i = n + 2 THEN ui.sent ELSE stamp[i]]
    OBVIOUS
  <2>2. /\ n \in Nat /\ Len(commands') = n + 1 /\ commands'[n + 1] = c /\ c # Drop
        /\ \A i \in 1 .. n : /\ commands'[i] = commands[i]
                             /\ commands[i] \in Channels \cup {Drop}
    BY <1>0, <1>1, <1>2, TablesFacts DEF TablesTypes, UiTypes, CoreTypes
  <2>3. ui.sent \in Nat /\ ui.cleared \in Nat /\ ui.sent >= ui.cleared
    BY <1>0 DEF TablesTypes, UiTypes, CoreTypes, FrameInv
  <2>4. more \in [1 .. Len(commands') + 1 -> Nat]
    BY <2>1, <2>2, <2>3, <2>8
  <2>5. more[1] = core.drops /\ more[n + 2] = ui.sent /\ stamp[n + 1] = ui.sent
    BY <2>1, <2>2, <2>8 DEF Stamps
  <2>6. \A i \in 1 .. n + 1 :
          /\ more[i + 1] = IF commands'[i] = Drop THEN more[i] + 1 ELSE more[i]
          /\ commands'[i] \in Heard' => more[i] >= ui.cleared
    <3>1. ASSUME NEW i \in 1 .. n
          PROVE  /\ more[i + 1] = IF commands'[i] = Drop THEN more[i] + 1 ELSE more[i]
                 /\ commands'[i] \in Heard' => more[i] >= ui.cleared
      <4>1. more[i] = stamp[i] /\ more[i + 1] = stamp[i + 1]
        BY <2>2, <2>8
      <4>2. commands'[i] \in Heard' => commands[i] \in Heard
        BY <1>2, <1>9, <2>2
      <4> QED
        BY <2>1, <2>2, <4>1, <4>2 DEF Stamps
    <3>2. more[n + 1] = stamp[n + 1]
      BY <2>2, <2>8
    <3>4. more[n + 1 + 1] = more[n + 2]
      BY <2>2
    <3>3. \A i \in 1 .. n + 1 : i \in 1 .. n \/ i = n + 1
      BY <2>2
    <3> QED
      BY <2>2, <2>3, <2>5, <3>1, <3>2, <3>3, <3>4
  <2>7. Stamps(more)'
    BY <1>1, <1>3, <2>2, <2>5, <2>6 DEF Stamps
  <2> QED
    BY <2>4, <2>7 DEF QueueInv
<1>12. RowsAreCurrent'
  BY <1>0, <1>1, <1>3, <1>4, RowsKept
<1> QED
  BY <1>7, <1>8, <1>10, <1>11, <1>12 DEF TablesInv

\* The queue has no room to ask for other rows.
LEMMA AskFailsKeeps ==
  ASSUME TablesInv, AskFails
  PROVE  TablesInv'
<1>0. TablesTypes /\ FrameInv /\ AnswersInv /\ QueueInv /\ RowsAreCurrent
  BY DEF TablesInv
<1>1. /\ ui.at = "prepares" /\ ui.waits = NoChannel
      /\ kind' = kind /\ inbox' = inbox /\ core' = core /\ commands' = commands
      /\ ui' = [ui EXCEPT !.at = "draws", !.awake = TRUE]
      /\ channel' = PendingLate
      /\ table' = [table EXCEPT !.last = Visible]
  BY <1>0 DEF AskFails, FrameInv
<1>2. /\ ui'.at = "draws" /\ ui'.first = ui.first /\ ui'.count = ui.count
      /\ ui'.waits = ui.waits /\ ui'.sent = ui.sent /\ ui'.cleared = ui.cleared
  BY <1>0, <1>1 DEF TablesTypes, UiTypes, CoreTypes
<1>3. /\ table'.last = Visible /\ table'.pending = table.pending
      /\ table'.logs = table.logs /\ table'.late = table.late
      /\ table' = [last |-> Visible, pending |-> table.pending, logs |-> table.logs,
                   late |-> table.late]
  BY <1>0, <1>1 DEF TablesTypes, UiTypes, CoreTypes
<1>4. TablesTypes'
  <2>1. channel' \in [Channels -> Answers] /\ Visible \in SUBSET Nat
    BY <1>0, <1>1, LateIs, VisibleIs
  <2> QED
    BY <1>0, <1>1, <1>3, <2>1 DEF TablesTypes, UiTypes, CoreTypes
<1>5. FrameInv'
  BY <1>0, <1>1, <1>2 DEF FrameInv
<1>6. Heard' = Heard /\ Heard = {table.pending} \ {NoChannel}
  BY <1>1, <1>2, <1>3 DEF Heard
<1>7. AnswersInv'
  <2> SUFFICES ASSUME NEW d \in Heard' PROVE AnswerIsSound(d)'
    BY DEF AnswersInv
  <2>1. d = table.pending /\ AnswerIsSound(d)
    BY <1>0, <1>6 DEF AnswersInv
  <2>2. channel'[d].rows = channel[d].rows /\ channel'[d].lines = channel[d].lines
        /\ channel'[d].late
    <3>1. d \in Channels
      BY <1>0, <1>6 DEF TablesTypes
    <3> QED
      BY <1>0, <1>1, <2>1, <3>1, LateIs
  <2> QED
    BY <1>2, <2>1, <2>2 DEF AnswerIsSound
<1>8. QueueInv' /\ RowsAreCurrent'
  BY <1>0, <1>1, <1>2, <1>3, <1>6, QueueKept, RowsKept
<1> QED
  BY <1>4, <1>5, <1>7, <1>8 DEF TablesInv

\* The rows of an answer that is taken for the visible rows.
LEMMA MappedIs ==
  ASSUME TablesInv, ui.at = "waits",
         NEW row \in DOMAIN Mapped(channel[ui.waits].lines)
  PROVE  /\ ~(kind = "search" /\ channel[ui.waits].late) =>
              Mapped(channel[ui.waits].lines)[row].row = row
         /\ Mapped(channel[ui.waits].lines)[row].drops >= ui.cleared
<1> DEFINE lines == channel[ui.waits].lines
           rows == channel[ui.waits].rows
<1>0. TablesTypes /\ FrameInv /\ AnswersInv
  BY DEF TablesInv
<1>1. /\ ui.waits \in Channels /\ table.last = Visible
      /\ AnswerIsSound(ui.waits)
  BY <1>0 DEF FrameInv, TablesTypes, UiTypes, CoreTypes, AnswersInv, Heard
<1>2. /\ lines \in Seq(Lines) /\ rows \in SUBSET Nat /\ rows # {}
      /\ \A i \in DOMAIN lines : lines[i].row = Min(rows) + i - 1 /\ lines[i].drops >= ui.cleared
      /\ channel[ui.waits].late \/ rows = Visible
  BY <1>0, <1>1 DEF AnswerIsSound, TablesTypes, UiTypes, CoreTypes, Answers
<1>3. CASE kind = "main"
  <2>1. /\ DOMAIN Mapped(lines) = {lines[i].row : i \in DOMAIN lines}
        /\ Mapped(lines)[row] = lines[CHOOSE i \in DOMAIN lines : lines[i].row = row]
    BY <1>3 DEF Mapped
  <2>2. \E i \in DOMAIN lines : lines[i].row = row
    BY <2>1
  <2>3. PICK i \in DOMAIN lines : lines[i].row = row /\ Mapped(lines)[row] = lines[i]
    BY <2>1, <2>2
  <2> QED
    BY <1>2, <2>3
<1>4. CASE kind # "main"
  <2>1. /\ row \in Visible /\ row - Min(Visible) < Len(lines)
        /\ Mapped(lines)[row] = lines[row - Min(Visible) + 1]
    BY <1>4 DEF Mapped
  <2>2. Visible \in SUBSET Nat /\ Visible # {}
    BY <1>0, <2>1, VisibleIs
  <2>3. Min(Visible) \in Nat /\ row \in Nat /\ Min(Visible) <= row
    BY <2>1, <2>2, MinIs
  <2>4. row - Min(Visible) + 1 \in DOMAIN lines
    BY <1>2, <2>1, <2>3
  <2>5. Mapped(lines)[row].drops >= ui.cleared
    BY <1>2, <2>1, <2>4
  <2>6. Mapped(lines)[row].row = Min(rows) + (row - Min(Visible) + 1) - 1
    BY <1>2, <2>1, <2>4
  <2>7. rows = Visible => Mapped(lines)[row].row = row
    BY <2>3, <2>6
  <2>8. kind = "search"
    BY <1>0, <1>4, TablesAssumption DEF TablesTypes, UiTypes, CoreTypes
  <2> QED
    BY <1>2, <2>5, <2>7, <2>8
<1> QED
  BY <1>3, <1>4

\* An answer is taken.
LEMMA ReceivesKeeps ==
  ASSUME TablesInv, Receives
  PROVE  TablesInv'
<1>0. TablesTypes /\ FrameInv /\ AnswersInv /\ QueueInv /\ RowsAreCurrent
  BY DEF TablesInv
<1> DEFINE got == channel[ui.waits]
           refused == got.is = "refused"
<1>1. /\ ui.at = "waits"
      /\ kind' = kind /\ commands' = commands /\ inbox' = inbox /\ core' = core
      /\ channel' = [channel EXCEPT ![ui.waits] = Unused]
      /\ table' = IF refused THEN table
                  ELSE [table EXCEPT !.logs = Mapped(got.lines), !.late = got.late]
      /\ ui' = [ui EXCEPT !.at = "draws", !.waits = NoChannel, !.awake = @ \/ refused]
  BY DEF Receives, Released
<1>2. ui.waits \in Channels /\ got \in Answers /\ refused \in BOOLEAN
  BY <1>0, <1>1 DEF TablesTypes, UiTypes, CoreTypes, FrameInv
<1>3. \A row \in DOMAIN Mapped(got.lines) :
        /\ ~(kind = "search" /\ got.late) => Mapped(got.lines)[row].row = row
        /\ Mapped(got.lines)[row].drops >= ui.cleared
  BY <1>1, MappedIs
<1> HIDE DEF got, refused
<1>4. /\ ui'.at = "draws" /\ ui'.first = ui.first /\ ui'.count = ui.count
      /\ ui'.waits = NoChannel /\ ui'.sent = ui.sent /\ ui'.cleared = ui.cleared
  BY <1>0, <1>1 DEF TablesTypes, UiTypes, CoreTypes
<1>5. /\ table'.last = table.last /\ table'.pending = table.pending
      /\ IF refused THEN table'.logs = table.logs /\ table'.late = table.late
         ELSE table'.logs = Mapped(got.lines) /\ table'.late = got.late
      /\ table' = [last |-> table'.last, pending |-> table'.pending,
                   logs |-> table'.logs, late |-> table'.late]
  <2>1. CASE refused
    BY <1>0, <1>1, <2>1 DEF TablesTypes, UiTypes, CoreTypes
  <2>2. CASE ~refused
    <3>1. table' = [table EXCEPT !.logs = Mapped(got.lines), !.late = got.late]
      BY <1>1, <2>2
    <3>2. table = [last |-> table.last, pending |-> table.pending,
                   logs |-> table.logs, late |-> table.late]
      BY <1>0 DEF TablesTypes, UiTypes, CoreTypes
    <3>3. table' = [last |-> table.last, pending |-> table.pending,
                    logs |-> Mapped(got.lines), late |-> got.late]
      BY <3>1, <3>2
    <3> QED
      BY <2>2, <3>3
  <2> QED
    BY <2>1, <2>2
<1>6. TablesTypes'
  <2>1. channel' \in [Channels -> Answers]
    BY <1>0, <1>1, UnusedIs DEF TablesTypes
  <2>2. ui' \in UiTypes
    BY <1>0, <1>1, <1>2 DEF TablesTypes, UiTypes, CoreTypes
  <2> QED
    BY <1>0, <1>1, <1>5, <2>1, <2>2 DEF TablesTypes, UiTypes, CoreTypes
<1>7. FrameInv'
  BY <1>0, <1>4 DEF FrameInv
<1>8. \A c \in Heard' : c \in Heard /\ channel'[c] = channel[c]
  BY <1>0, <1>1, <1>4, <1>5, TablesFacts DEF Heard, FrameInv, TablesTypes, UiTypes, CoreTypes
<1>9. AnswersInv' /\ QueueInv'
  BY <1>0, <1>1, <1>4, <1>5, <1>8, AnswersKept, QueueKept
<1>10. RowsAreCurrent'
  <2>1. CASE refused
    BY <1>0, <1>1, <1>4, <1>5, <2>1, RowsKept
  <2>2. CASE ~refused
    BY <1>1, <1>3, <1>4, <1>5, <2>2 DEF RowsAreCurrent
  <2> QED
    BY <2>1, <2>2
<1> QED
  BY <1>6, <1>7, <1>9, <1>10 DEF TablesInv

\* An answer does not come in time: it is pending from now on.
LEMMA TimesOutKeeps ==
  ASSUME TablesInv, TimesOut
  PROVE  TablesInv'
<1>0. TablesTypes /\ FrameInv /\ AnswersInv /\ QueueInv /\ RowsAreCurrent
  BY DEF TablesInv
<1>1. /\ ui.at = "waits"
      /\ kind' = kind /\ commands' = commands /\ inbox' = inbox /\ core' = core
      /\ table' = [table EXCEPT !.pending = ui.waits]
      /\ ui' = [ui EXCEPT !.at = "draws", !.waits = NoChannel, !.awake = TRUE]
      /\ \/ channel' = channel /\ table.pending = NoChannel
         \/ channel' = [channel EXCEPT ![table.pending] = Unused]
  BY DEF TimesOut, Released
<1>2. ui.waits \in Channels /\ ui.waits # table.pending
  BY <1>0, <1>1 DEF TablesTypes, UiTypes, CoreTypes, FrameInv
<1>3. /\ ui'.at = "draws" /\ ui'.first = ui.first /\ ui'.count = ui.count
      /\ ui'.waits = NoChannel /\ ui'.sent = ui.sent /\ ui'.cleared = ui.cleared
  BY <1>0, <1>1 DEF TablesTypes, UiTypes, CoreTypes
<1>4. /\ table'.last = table.last /\ table'.pending = ui.waits
      /\ table'.logs = table.logs /\ table'.late = table.late
      /\ table' = [last |-> table.last, pending |-> ui.waits, logs |-> table.logs,
                   late |-> table.late]
  BY <1>0, <1>1 DEF TablesTypes, UiTypes, CoreTypes
<1>5. TablesTypes'
  <2>1. channel' \in [Channels -> Answers]
    BY <1>0, <1>1, UnusedIs DEF TablesTypes
  <2> QED
    BY <1>0, <1>1, <1>2, <1>4, <2>1 DEF TablesTypes, UiTypes, CoreTypes
<1>6. FrameInv'
  BY <1>0, <1>3 DEF FrameInv
<1>7. \A c \in Heard' : c \in Heard /\ channel'[c] = channel[c]
  BY <1>0, <1>1, <1>2, <1>3, <1>4, TablesFacts DEF Heard, TablesTypes, UiTypes, CoreTypes
<1>8. AnswersInv' /\ QueueInv' /\ RowsAreCurrent'
  BY <1>0, <1>1, <1>3, <1>4, <1>7, AnswersKept, QueueKept, RowsKept
<1> QED
  BY <1>5, <1>6, <1>8 DEF TablesInv

\* The end of a frame: a table that is cleared has no rows and waits for none,
\* one whose rows are missing asks again.
LEMMA DrawsKeeps ==
  ASSUME TablesInv, Draws
  PROVE  TablesInv'
<1>0. TablesTypes /\ FrameInv /\ AnswersInv /\ QueueInv /\ RowsAreCurrent
  BY DEF TablesInv
<1>1. /\ ui.at = "draws" /\ ui.waits = NoChannel
      /\ kind' = kind /\ commands' = commands /\ inbox' = inbox /\ core' = core
      /\ ui' = [ui EXCEPT !.at = "idle", !.dropped = FALSE,
                          !.cleared = IF ui.dropped THEN ui.sent ELSE @]
      /\ table' = IF ui.dropped THEN Cleared ELSE AfterCells
      /\ \/ channel' = channel
         \/ /\ table'.pending # table.pending
            /\ channel' = [channel EXCEPT ![table.pending] = Unused]
  BY <1>0 DEF Draws, Released, FrameInv
<1>2. /\ ui'.at = "idle" /\ ui'.first = ui.first /\ ui'.count = ui.count
      /\ ui'.waits = NoChannel /\ ui'.sent = ui.sent
      /\ ui'.cleared = IF ui.dropped THEN ui.sent ELSE ui.cleared
  BY <1>0, <1>1 DEF TablesTypes, UiTypes, CoreTypes
<1>3. ui' \in UiTypes
  BY <1>0, <1>1 DEF TablesTypes, UiTypes, CoreTypes
<1>4. channel' \in [Channels -> Answers]
  BY <1>0, <1>1, UnusedIs DEF TablesTypes
<1>5. FrameInv'
  <2>1. ui.sent \in Nat
    BY <1>0 DEF TablesTypes, UiTypes, CoreTypes
  <2> QED
    BY <1>0, <1>2, <2>1 DEF FrameInv
<1>6. CASE ui.dropped
  <2>1. table' = [last |-> {}, pending |-> NoChannel, logs |-> << >>, late |-> FALSE]
    BY <1>1, <1>6 DEF Cleared, NoRows
  <2>2. TablesTypes'
    BY <1>0, <1>1, <1>3, <1>4, <2>1 DEF TablesTypes, UiTypes, CoreTypes
  <2>3. Heard' = {}
    BY <1>2, <2>1, TablesFacts DEF Heard
  <2>4. AnswersInv' /\ RowsAreCurrent'
    BY <2>1, <2>3 DEF AnswersInv, RowsAreCurrent
  <2>5. QueueInv'
    <3>1. PICK stamp \in [1 .. Len(commands) + 1 -> Nat] : Stamps(stamp)
      BY <1>0 DEF QueueInv
    <3>4. Stamps(stamp)'
      BY <1>1, <1>2, <2>3, <3>1 DEF Stamps
    <3> QED
      BY <1>1, <3>1, <3>4 DEF QueueInv
  <2> QED
    BY <1>5, <2>2, <2>4, <2>5 DEF TablesInv
<1>7. CASE ~ui.dropped
  <2>1. /\ \/ table' = table
           \/ table.pending = NoChannel /\ table' = [table EXCEPT !.last = {}]
        /\ ui'.cleared = ui.cleared
    BY <1>1, <1>2, <1>7 DEF AfterCells
  <2>2. /\ table'.pending = table.pending
        /\ table'.last = table.last \/ (table.pending = NoChannel /\ table'.last = {})
        /\ table'.logs = table.logs /\ table'.late = table.late
        /\ table' = [last |-> table'.last, pending |-> table'.pending,
                     logs |-> table'.logs, late |-> table'.late]
    BY <1>0, <2>1 DEF TablesTypes, UiTypes, CoreTypes
  <2>3. TablesTypes'
    BY <1>0, <1>1, <1>3, <1>4, <2>2 DEF TablesTypes, UiTypes, CoreTypes
  <2>4. \A c \in Heard' : c \in Heard /\ channel'[c] = channel[c]
    BY <1>1, <1>2, <2>2, TablesFacts DEF Heard
  <2>5. QueueInv' /\ RowsAreCurrent'
    BY <1>0, <1>1, <1>2, <2>1, <2>2, <2>4, QueueKept, RowsKept
  <2>6. AnswersInv'
    <3>1. CASE table'.last = table.last
      BY <1>0, <2>1, <2>4, <3>1, AnswersKept
    <3>2. CASE table.pending = NoChannel
      BY <1>2, <2>2, <3>2, TablesFacts DEF AnswersInv, Heard
    <3> QED
      BY <2>2, <3>1, <3>2
  <2> QED
    BY <1>5, <2>3, <2>5, <2>6 DEF TablesInv
<1> QED
  BY <1>0, <1>6, <1>7 DEF TablesTypes, UiTypes, CoreTypes

\* The queue, when its first command is taken.
LEMMA QueueMoves ==
  ASSUME TablesTypes, QueueInv, commands # << >>, commands' = Tail(commands),
         core'.drops = IF Head(commands) = Drop THEN core.drops + 1 ELSE core.drops,
         ui'.sent = ui.sent, ui'.cleared = ui.cleared, ui'.waits = ui.waits,
         table' = table
  PROVE  /\ QueueInv'
         /\ Head(commands) \in Heard => core.drops >= ui.cleared
<1>1. PICK stamp \in [1 .. Len(commands) + 1 -> Nat] : Stamps(stamp)
  BY DEF QueueInv
<1> DEFINE n == Len(commands)
<1>8. PICK rest : rest = [i \in 1 .. n |-> stamp[i + 1]]
  OBVIOUS
<1>2. /\ n \in Nat \ {0} /\ Len(commands') = n - 1 /\ Head(commands) = commands[1]
      /\ \A i \in 1 .. n - 1 : commands'[i] = commands[i + 1]
  BY DEF TablesTypes, UiTypes, CoreTypes
<1>3. /\ stamp[1] = core.drops
      /\ stamp[2] = IF commands[1] = Drop THEN stamp[1] + 1 ELSE stamp[1]
      /\ commands[1] \in Heard => stamp[1] >= ui.cleared
      /\ stamp[n + 1] = ui.sent
  BY <1>1, <1>2 DEF Stamps
<1>4. rest \in [1 .. Len(commands') + 1 -> Nat]
  BY <1>1, <1>2, <1>8
<1>5. /\ rest[1] = core'.drops /\ rest[Len(commands') + 1] = ui.sent
  BY <1>2, <1>3, <1>8
<1>6. ASSUME NEW i \in 1 .. n - 1
      PROVE  /\ rest[i + 1] = IF commands'[i] = Drop THEN rest[i] + 1 ELSE rest[i]
             /\ commands'[i] \in Heard => rest[i] >= ui.cleared
  <2>1. rest[i] = stamp[i + 1] /\ rest[i + 1] = stamp[i + 2] /\ i + 1 \in 1 .. n
        /\ i + 1 + 1 = i + 2
    BY <1>2, <1>8
  <2>2. /\ stamp[i + 2] = IF commands[i + 1] = Drop THEN stamp[i + 1] + 1 ELSE stamp[i + 1]
        /\ commands[i + 1] \in Heard => stamp[i + 1] >= ui.cleared
    BY <1>1, <2>1 DEF Stamps
  <2> QED
    BY <1>2, <2>1, <2>2
<1>7. Stamps(rest)'
  <2>1. Heard' = Heard
    BY DEF Heard
  <2> QED
    BY <1>2, <1>5, <1>6, <2>1 DEF Stamps
<1> QED
  BY <1>2, <1>3, <1>4, <1>7 DEF QueueInv

\* The service drops the search, or answers.
LEMMA ServiceKeeps ==
  ASSUME TablesInv, Service
  PROVE  TablesInv'
<1>0. TablesTypes /\ FrameInv /\ AnswersInv /\ QueueInv /\ RowsAreCurrent
  BY DEF TablesInv
<1> DEFINE c == Head(commands)
<1>1. /\ commands # << >> /\ commands' = Tail(commands) /\ kind' = kind /\ table' = table
      /\ c \in Channels \cup {Drop} /\ Tail(commands) \in Seq(Channels \cup {Drop})
  BY <1>0 DEF Service, TablesTypes, UiTypes, CoreTypes
<1>2. CASE c = Drop
  <2>1. /\ core' = [core EXCEPT !.len = core.marks, !.drops = @ + 1]
        /\ inbox' = Append(inbox, core'.len) /\ ui' = [ui EXCEPT !.awake = TRUE]
        /\ channel' = channel
    BY <1>2 DEF Service, ServesDrop, Tells
  <2>2. /\ ui'.at = ui.at /\ ui'.first = ui.first /\ ui'.count = ui.count
        /\ ui'.waits = ui.waits /\ ui'.sent = ui.sent /\ ui'.cleared = ui.cleared
        /\ core'.drops = core.drops + 1
    BY <1>0, <2>1 DEF TablesTypes, UiTypes, CoreTypes
  <2>3. TablesTypes'
    <3>1. core \in CoreTypes /\ inbox \in Seq(Nat) /\ ui \in UiTypes
      BY <1>0 DEF TablesTypes
    <3>5. core.marks \in Nat /\ core.drops + 1 \in Nat
      BY <3>1 DEF CoreTypes
    <3>6. core' = [core EXCEPT !.len = core.marks, !.drops = core.drops + 1]
      BY <2>1
    <3>2. core' \in CoreTypes /\ core'.len \in Nat
      BY <3>1, <3>5, <3>6 DEF CoreTypes
    <3>3. inbox' \in Seq(Nat)
      BY <2>1, <3>1, <3>2
    <3>4. ui' \in UiTypes
      BY <2>1, <3>1 DEF UiTypes
    <3> QED
      BY <1>0, <1>1, <2>1, <3>2, <3>3, <3>4 DEF TablesTypes
  <2>4. FrameInv'
    BY <1>0, <1>1, <2>2 DEF FrameInv, Visible
  <2>5. \A d \in Heard' : d \in Heard /\ channel'[d] = channel[d]
    BY <1>1, <2>1, <2>2 DEF Heard
  <2>6. AnswersInv' /\ RowsAreCurrent'
    BY <1>0, <1>1, <2>2, <2>5, AnswersKept, RowsKept
  <2>7. QueueInv'
    BY <1>0, <1>1, <1>2, <2>2, QueueMoves
  <2> QED
    BY <2>3, <2>4, <2>6, <2>7 DEF TablesInv
<1>3. CASE c # Drop
  <2>1. ServesGrab(c) /\ core' = core /\ inbox' = inbox /\ ui' = ui /\ c \in Channels
    BY <1>1, <1>3 DEF Service, ServesGrab
  <2>2. QueueInv' /\ (c \in Heard => core.drops >= ui.cleared)
    BY <1>0, <1>1, <1>3, <2>1, QueueMoves
  <2>3. FrameInv' /\ RowsAreCurrent'
    BY <1>0, <1>1, <2>1, RowsKept DEF FrameInv, Visible
  <2>4. CASE c \notin Heard
    <3>1. channel' = channel
      BY <2>1, <2>4, TablesFacts DEF ServesGrab, IsHeard, Heard
    <3>2. TablesTypes'
      BY <1>0, <1>1, <2>1, <3>1 DEF TablesTypes, UiTypes, CoreTypes
    <3>3. AnswersInv'
      BY <1>0, <1>1, <2>1, <3>1, AnswersKept DEF Heard
    <3> QED
      BY <2>2, <2>3, <3>2, <3>3 DEF TablesInv
  <2>5. CASE c \in Heard
    <3> DEFINE rows == channel[c].rows
               answer == AnswerTo(rows)
    <3>1. /\ rows \in SUBSET Nat /\ rows # {} /\ IsFiniteSet(rows)
          /\ channel[c] \in Answers /\ AnswerIsSound(c)
      BY <1>0, <2>1, <2>5 DEF TablesTypes, UiTypes, CoreTypes, AnswersInv, AnswerIsSound, Answers
    <3>2. Min(rows) \in Nat
      BY <3>1, MinIs
    <3>3. Cardinality(rows) \in Nat
      BY <3>1, FS_CardinalityType
    <3>4. core.drops \in Nat
      BY <1>0 DEF TablesTypes, UiTypes, CoreTypes
    <3>5. /\ answer.is \in {"lines", "refused"} /\ answer.lines \in Seq(Lines)
          /\ \A i \in DOMAIN answer.lines :
               answer.lines[i].row = Min(rows) + i - 1 /\ answer.lines[i].drops = core.drops
      <4> HIDE DEF rows
      <4>1. CASE Max(rows) > core.len
        BY <4>1 DEF AnswerTo
      <4>2. CASE ~(Max(rows) > core.len)
        <5>1. answer.is = "lines"
              /\ answer.lines = [i \in 1 .. Cardinality(rows) |-> Line(Min(rows) + i - 1)]
          BY <4>2 DEF AnswerTo
        <5>2. \A i \in 1 .. Cardinality(rows) : Line(Min(rows) + i - 1) \in Lines
          BY <3>2, <3>3, <3>4 DEF Line, Lines
        <5>3. answer.lines \in Seq(Lines)
          BY <3>3, <5>1, <5>2
        <5> QED
          BY <5>1, <5>3, <3>3 DEF Line
      <4> QED
        BY <4>1, <4>2
    <3>6. channel' = [channel EXCEPT ![c].is = answer.is, ![c].lines = answer.lines]
      BY <2>1, <2>5 DEF ServesGrab, IsHeard, Heard
    <3> HIDE DEF answer
    <3>7. /\ channel'[c].rows = channel[c].rows /\ channel'[c].late = channel[c].late
          /\ channel'[c].lines = answer.lines /\ channel'[c] \in Answers
          /\ \A d \in Channels \ {c} : channel'[d] = channel[d]
      BY <1>0, <2>1, <3>1, <3>5, <3>6 DEF TablesTypes, UiTypes, CoreTypes, Answers
    <3>8. TablesTypes'
      <4>1. channel' \in [Channels -> Answers]
        BY <1>0, <2>1, <3>6, <3>7 DEF TablesTypes, UiTypes, CoreTypes
      <4> QED
        BY <1>0, <1>1, <2>1, <4>1 DEF TablesTypes, UiTypes, CoreTypes
    <3>9. AnswersInv'
      <4> SUFFICES ASSUME NEW d \in Heard' PROVE AnswerIsSound(d)'
        BY DEF AnswersInv
      <4>1. d \in Heard /\ d \in Channels
        BY <1>0, <1>1, <2>1 DEF Heard, TablesTypes, UiTypes, CoreTypes
      <4>2. CASE d = c
        BY <1>1, <2>1, <2>2, <2>5, <3>1, <3>5, <3>7, <4>2 DEF AnswerIsSound
      <4>3. CASE d # c
        BY <1>0, <1>1, <2>1, <3>7, <4>1, <4>3 DEF AnswerIsSound, AnswersInv
      <4> QED
        BY <4>2, <4>3
    <3> QED
      BY <2>2, <2>3, <3>8, <3>9 DEF TablesInv
  <2> QED
    BY <2>4, <2>5
<1> QED
  BY <1>2, <1>3

\* Rows are read.
LEMMA GrowsKeeps ==
  ASSUME TablesInv, Grows
  PROVE  TablesInv'
<1>0. TablesTypes /\ FrameInv /\ AnswersInv /\ QueueInv /\ RowsAreCurrent
  BY DEF TablesInv
<1>1. /\ core' = [core EXCEPT !.len = @ + 1]
      /\ inbox' = Append(inbox, core'.len) /\ ui' = [ui EXCEPT !.awake = TRUE]
      /\ UNCHANGED <<kind, table, channel, commands>>
  BY DEF Grows, Tells
<1>2. /\ ui'.at = ui.at /\ ui'.first = ui.first /\ ui'.count = ui.count
      /\ ui'.waits = ui.waits /\ ui'.sent = ui.sent /\ ui'.cleared = ui.cleared
      /\ core'.drops = core.drops
  BY <1>0, <1>1 DEF TablesTypes, UiTypes, CoreTypes
<1>3. TablesTypes'
  <2>1. core \in CoreTypes /\ inbox \in Seq(Nat) /\ ui \in UiTypes
    BY <1>0 DEF TablesTypes
  <2>2. core' \in CoreTypes /\ core'.len \in Nat
    BY <1>1, <2>1 DEF CoreTypes
  <2>3. inbox' \in Seq(Nat)
    BY <1>1, <2>1, <2>2
  <2>4. ui' \in UiTypes
    BY <1>1, <2>1 DEF UiTypes
  <2> QED
    BY <1>0, <1>1, <2>2, <2>3, <2>4 DEF TablesTypes
<1>4. FrameInv'
  BY <1>0, <1>1, <1>2 DEF FrameInv, Visible
<1>5. \A c \in Heard' : c \in Heard /\ channel'[c] = channel[c]
  BY <1>1, <1>2 DEF Heard
<1>6. AnswersInv' /\ QueueInv' /\ RowsAreCurrent'
  BY <1>0, <1>1, <1>2, <1>5, AnswersKept, QueueKept, RowsKept
<1> QED
  BY <1>3, <1>4, <1>6 DEF TablesInv

\* The invariant holds at the start.
LEMMA TablesInvInit ==
  ASSUME TablesInit
  PROVE  TablesInv
<1>1. TablesTypes
  <2>1. PICK sticks \in BOOLEAN :
          ui = [at |-> "idle", first |-> 1, count |-> 0, waits |-> NoChannel,
                dropped |-> FALSE, awake |-> TRUE, sticks |-> sticks,
                inputs |-> 0, sent |-> 0, cleared |-> 0]
    BY DEF TablesInit
  <2>2. PICK m \in Marks : core = [len |-> m, marks |-> m, drops |-> 0]
    BY DEF TablesInit
  <2>3. m \in Nat
    BY TablesFacts
  <2>4. channel \in [Channels -> Answers]
    BY DEF TablesInit, Unused, Answers
  <2>5. commands \in Seq(Channels \cup {Drop}) /\ inbox \in Seq(Nat)
    BY <2>2, <2>3 DEF TablesInit
  <2> QED
    BY <2>1, <2>2, <2>3, <2>4, <2>5 DEF TablesInit, TablesTypes, UiTypes, CoreTypes, NoRows
<1>2. /\ ui.at = "idle" /\ ui.count = 0 /\ ui.waits = NoChannel
      /\ ui.sent = 0 /\ ui.cleared = 0 /\ core.drops = 0 /\ commands = << >>
      /\ table.pending = NoChannel /\ table.logs = << >>
  BY DEF TablesInit, NoRows
<1>3. FrameInv /\ AnswersInv /\ RowsAreCurrent
  BY <1>2, TablesFacts DEF FrameInv, AnswersInv, RowsAreCurrent, Heard
<1>4. QueueInv
  <2> DEFINE stamp == [i \in 1 .. 1 |-> 0]
  <2>1. stamp \in [1 .. Len(commands) + 1 -> Nat] /\ Stamps(stamp)
    BY <1>2 DEF Stamps
  <2> QED
    BY <2>1 DEF QueueInv
<1> QED
  BY <1>1, <1>3, <1>4 DEF TablesInv

\* Every step keeps the invariant.
LEMMA TablesInvStep ==
  ASSUME TablesInv, [TablesNext]_tableVars
  PROVE  TablesInv'
<1>1. CASE UNCHANGED tableVars
  <2>0. TablesTypes /\ FrameInv /\ AnswersInv /\ QueueInv /\ RowsAreCurrent
    BY DEF TablesInv
  <2>1. /\ kind' = kind /\ table' = table /\ ui' = ui /\ channel' = channel
        /\ commands' = commands /\ inbox' = inbox /\ core' = core
    BY <1>1 DEF tableVars
  <2>2. TablesTypes'
    BY <2>0, <2>1 DEF TablesTypes
  <2>3. FrameInv'
    BY <2>0, <2>1 DEF FrameInv, Visible
  <2>4. Heard' = Heard
    BY <2>1 DEF Heard
  <2>5. AnswersInv' /\ QueueInv' /\ RowsAreCurrent'
    BY <2>0, <2>1, <2>4, AnswersKept, QueueKept, RowsKept
  <2> QED
    BY <2>2, <2>3, <2>5 DEF TablesInv
<1>2. CASE View
  BY <1>2, FramesKeep, HasNoRowsKeeps, WaitsAgainKeeps, AsksKeeps, AskFailsKeeps,
     ReceivesKeeps, TimesOutKeeps, DrawsKeeps DEF View
<1> QED
  BY <1>1, <1>2, FramesKeep, DropsKeep, ServiceKeeps, GrowsKeeps DEF TablesNext

\* In the tables of the view (session/ui/logs_table, search_table.rs) a row is
\* shown as the row that it was read for, whenever answers come and however
\* the user scrolls on; only the search table may show an answer that was
\* marked late as other rows.  And a table that was cleared shows nothing that
\* was read before the drop, for any size of page, queue and log.
THEOREM TablesAreCurrent == TablesSpec => []RowsAreCurrent
<1>1. TablesInit => TablesInv
  BY TablesInvInit
<1>2. TablesInv /\ [TablesNext]_tableVars => TablesInv'
  BY TablesInvStep
<1>3. TablesInv => RowsAreCurrent
  BY DEF TablesInv
<1> QED
  BY <1>1, <1>2, <1>3, PTL DEF TablesSpec
==============================================================================
