------------------------- MODULE SessionFileProofs -------------------------
(***************************************************************************)
(* Proofs about SessionFile, for every number of sources, writes, flushes  *)
(* and failed updates, of texts that are whole lines (WholeTexts): every   *)
(* range of rows gives the lines with these numbers (EntriesAreRows), each *)
(* row is credited to the source that wrote it (SourcesAreRight), the      *)
(* searcher reports every match once under its row (FoundAreMatches), and  *)
(* what was read is announced (NothingUnannounced).                        *)
(*                                                                         *)
(* A row is named by the number of newlines before the one that ends it.   *)
(* Everything rests on that count: what is known of slots, credits and     *)
(* searches is said with it, and it stays when the file grows.             *)
(***************************************************************************)
EXTENDS SessionFile, FiniteSetTheorems, FunctionTheorems, SequenceTheorems,
        WellFoundedInduction, TLAPS

-----------------------------------------------------------------------------
(* Extremes of sets of positions.                                           *)

\* A set of naturals that is not empty has a smallest member.
LEMMA SmallestIsThere ==
  ASSUME NEW S \in SUBSET Nat, S # {}
  PROVE  \E x \in S : \A y \in S : x <= y
<1> DEFINE R == {p \in Nat \X Nat : p[1] < p[2]}
<1>1. IsWellFoundedOn(R, Nat)
  BY NatLessThanWellFounded, Zenon DEF OpToRel
<1>2. PICK x \in S : \A y \in S : ~(<<y, x>> \in R)
  <2> HIDE DEF R
  <2> QED
    BY <1>1, WFMin, Zenon
<1>3. ASSUME NEW y \in S PROVE x <= y
  <2>1. x \in Nat /\ y \in Nat /\ ~(y < x)
    BY <1>2
  <2> QED
    BY <2>1
<1> QED
  BY <1>3

\* And a largest one, if none is greater than n.
LEMMA LargestIsThere ==
  ASSUME NEW S \in SUBSET Nat, S # {}, NEW n \in Nat, \A x \in S : x <= n
  PROVE  /\ Largest(S) \in S
         /\ \A y \in S : y <= Largest(S)
<1> DEFINE T == {n - x : x \in S}
<1>1. T \in SUBSET Nat /\ T # {}
  <2>1. \A x \in S : x \in Nat /\ x <= n
    OBVIOUS
  <2>2. \A x \in S : n - x \in Nat
    BY <2>1
  <2> QED
    BY <2>2
<1>2. PICK t \in T : \A u \in T : t <= u
  BY <1>1, SmallestIsThere
<1>3. PICK x \in S : t = n - x
  BY <1>2
<1>4. ASSUME NEW y \in S PROVE y <= x
  <2>1. n - y \in T
    OBVIOUS
  <2> QED
    BY <1>2, <1>3, <2>1
<1> QED
  BY <1>4 DEF Largest

\* What is a largest member is the largest member.
LEMMA LargestIs ==
  ASSUME NEW S \in SUBSET Nat, NEW x \in S, \A y \in S : y <= x
  PROVE  Largest(S) = x
<1>1. Largest(S) \in S /\ \A y \in S : y <= Largest(S)
  BY DEF Largest
<1>2. Largest(S) \in Nat /\ x \in Nat /\ x <= Largest(S) /\ Largest(S) <= x
  BY <1>1
<1> QED
  BY <1>2

-----------------------------------------------------------------------------
(* Counting newlines.                                                       *)

Before(f, i) == Cardinality(Newlines(f, 0, i - 1))
EndsLine(f, i) == i \in 0 .. Len(f) - 1 /\ Is(f, i) = "nl"
Begins(f, i) == i = 0 \/ EndsLine(f, i - 1)

\* There are finitely many newlines.
LEMMA NewlinesAreFinite ==
  ASSUME NEW f, NEW a \in Int, NEW b \in Int
  PROVE  /\ IsFiniteSet(Newlines(f, a, b))
         /\ Cardinality(Newlines(f, a, b)) \in Nat
<1>1. Newlines(f, a, b) \in SUBSET (a .. b)
  BY DEF Newlines
<1> QED
  BY <1>1, FS_Interval, FS_Subset, FS_CardinalityType

\* The newlines in a range are those before its end without those before it.
LEMMA NewlinesBetween ==
  ASSUME NEW f, NEW a \in Nat, NEW b \in Nat, a <= b
  PROVE  /\ Before(f, a) \in Nat /\ Before(f, b) \in Nat
         /\ Cardinality(Newlines(f, a, b - 1)) = Before(f, b) - Before(f, a)
         /\ Before(f, a) <= Before(f, b)
<1> DEFINE A == Newlines(f, 0, a - 1)
           B == Newlines(f, a, b - 1)
<1>1. /\ IsFiniteSet(A) /\ Cardinality(A) \in Nat
      /\ IsFiniteSet(B) /\ Cardinality(B) \in Nat
      /\ Cardinality(Newlines(f, 0, b - 1)) \in Nat
  BY NewlinesAreFinite
<1>2. A \cup B = Newlines(f, 0, b - 1) /\ A \cap B = {}
  BY DEF Newlines
<1>3. Cardinality(A \cup B) = Cardinality(A) + Cardinality(B)
  <2> HIDE DEF A, B
  <2>1. Cardinality(A \cup B) = Cardinality(A) + Cardinality(B) - Cardinality({})
    BY <1>1, <1>2, FS_Union
  <2> QED
    BY <1>1, <2>1, FS_EmptySet
<1>4. /\ Before(f, a) = Cardinality(A)
      /\ Before(f, b) = Cardinality(A) + Cardinality(B)
  BY <1>2, <1>3 DEF Before
<1> QED
  BY <1>1, <1>4

\* Nothing is before the first byte, and a newline counts one.
LEMMA BeforeSteps ==
  ASSUME NEW f, NEW i \in Nat
  PROVE  /\ Before(f, 0) = 0
         /\ Before(f, i + 1) = IF Is(f, i) = "nl" THEN Before(f, i) + 1 ELSE Before(f, i)
<1>1. Newlines(f, 0, 0 - 1) = {}
  BY DEF Newlines
<1>2. Newlines(f, 0, (i + 1) - 1)
        = Newlines(f, 0, i - 1) \cup (IF Is(f, i) = "nl" THEN {i} ELSE {})
  BY DEF Newlines
<1>3. i \notin Newlines(f, 0, i - 1)
  BY DEF Newlines
<1>4. IsFiniteSet(Newlines(f, 0, i - 1))
  BY NewlinesAreFinite
<1>5. CASE Is(f, i) = "nl"
  <2>1. Newlines(f, 0, (i + 1) - 1) = Newlines(f, 0, i - 1) \cup {i}
    BY <1>2, <1>5
  <2>2. Cardinality(Newlines(f, 0, i - 1) \cup {i})
          = Cardinality(Newlines(f, 0, i - 1)) + 1
    BY <1>3, <1>4, FS_AddElement
  <2> QED
    BY <1>1, <1>5, <2>1, <2>2, FS_EmptySet DEF Before
<1>6. CASE Is(f, i) # "nl"
  <2>1. Newlines(f, 0, (i + 1) - 1) = Newlines(f, 0, i - 1)
    BY <1>2, <1>6
  <2> QED
    BY <1>1, <1>6, <2>1, FS_EmptySet DEF Before
<1> QED
  BY <1>5, <1>6

\* Newlines have fewer newlines before them than what comes after them.
LEMMA BeforeIsStrict ==
  ASSUME NEW f, NEW e \in Nat, NEW j \in Nat, Is(f, e) = "nl"
  PROVE  /\ e < j => Before(f, e) < Before(f, j)
         /\ Before(f, e) < Before(f, j) => e < j
<1>1. Before(f, e + 1) = Before(f, e) + 1
  BY BeforeSteps
<1>2. e < j => Before(f, e + 1) <= Before(f, j)
  BY NewlinesBetween
<1>3. j <= e => Before(f, j) <= Before(f, e)
  BY NewlinesBetween
<1>4. Before(f, e) \in Nat /\ Before(f, j) \in Nat
  BY NewlinesBetween
<1> QED
  BY <1>1, <1>2, <1>3, <1>4

\* So that a newline is known by the number of newlines before it ...
LEMMA NewlineIsKnown ==
  ASSUME NEW f, NEW d \in Nat, NEW e \in Nat, Is(f, d) = "nl", Is(f, e) = "nl",
         Before(f, d) = Before(f, e)
  PROVE  d = e
<1>1. Before(f, d) \in Nat /\ Before(f, e) \in Nat
  BY NewlinesBetween
<1> QED
  BY <1>1, BeforeIsStrict

\* ... and every number below their count is the number of one.
LEMMA NewlineIsThere ==
  ASSUME NEW f, NEW n \in Nat, NEW k \in 0 .. Before(f, n) - 1
  PROVE  \E e \in Newlines(f, 0, n - 1) : Before(f, e) = k
<1> DEFINE N == Newlines(f, 0, n - 1)
           R == 0 .. Before(f, n) - 1
           g == [e \in N |-> Before(f, e)]
<1>1. Before(f, n) \in Nat /\ IsFiniteSet(N)
  BY NewlinesBetween, NewlinesAreFinite
<1>2. \A e \in N : e \in Nat /\ e < n /\ Is(f, e) = "nl"
  BY DEF Newlines
<1>3. \A e \in N : Before(f, e) \in R
  BY <1>1, <1>2, BeforeIsStrict, NewlinesBetween
<1>4. g \in Injection(N, R)
  <2>1. \A d, e \in N : Before(f, d) = Before(f, e) => d = e
    BY <1>2, NewlineIsKnown
  <2> QED
    BY <1>3, <2>1, Fun_IsInj
<1>5. IsFiniteSet(R) /\ Cardinality(R) = Before(f, n)
  BY <1>1, FS_Interval
<1>6. Cardinality(N) = Cardinality(R)
  BY <1>5 DEF Before
<1>7. g \in Surjection(N, R)
  BY <1>4, <1>5, <1>6, FS_Injection
<1> QED
  BY <1>7 DEF Surjection

-----------------------------------------------------------------------------
(* Lines.                                                                   *)

\* The file is whole lines.
Whole(f) == f # <<>> => Is(f, Len(f) - 1) = "nl"

LineTo(f, e) == [from |-> Start(f, 0, 0, e), to |-> e]
LineOf(f, k) == LineAt(f, 0, Len(f) - 1, k)

\* A line that ends after a has as many lines before it as there are newlines.
LEMMA IndexIs ==
  ASSUME NEW f, NEW a \in Nat, NEW b \in Nat, NEW e \in a .. b
  PROVE  Index(f, a, b, e) = Before(f, e) - Before(f, a)
<1>1. {i \in Ends(f, a, b) : i < e} = Newlines(f, a, e - 1)
  BY DEF Ends, Newlines
<1>2. Cardinality(Newlines(f, a, e - 1)) = Before(f, e) - Before(f, a)
  BY NewlinesBetween
<1> QED
  BY <1>1, <1>2 DEF Index

\* Where a line begins, wherever the reading of it begins.
LEMMA StartIs ==
  ASSUME NEW f, NEW a \in Nat, NEW e \in Nat, a <= e, Begins(f, a), NEW b
  PROVE  /\ Start(f, a, b, e) = Start(f, 0, 0, e)
         /\ Start(f, 0, 0, e) \in a .. e
<1> DEFINE S == {a} \cup {i + 1 : i \in Newlines(f, a, e - 1)}
           T == {0} \cup {i + 1 : i \in Newlines(f, 0, e - 1)}
<1>1. S \in SUBSET Nat /\ S # {} /\ (\A x \in S : x \in a .. e)
  BY DEF Newlines
<1>2. T \in SUBSET Nat /\ (\A x \in T : x < a \/ x \in S)
  BY DEF Newlines
<1>3. S \subseteq T
  BY DEF Newlines, Begins, EndsLine
<1>4. Start(f, a, b, e) = Largest(S) /\ Start(f, 0, 0, e) = Largest(T)
  BY DEF Start
<1> HIDE DEF S, T
<1>5. Largest(S) \in S /\ \A y \in S : y <= Largest(S)
  BY <1>1, LargestIsThere
<1>6. \A y \in T : y <= Largest(S)
  <2>1. Largest(S) \in Nat /\ a <= Largest(S)
    <3>1. Largest(S) \in a .. e
      BY <1>1, <1>5, Zenon
    <3> QED
      BY <3>1
  <2> SUFFICES ASSUME NEW y \in T PROVE y <= Largest(S)
    OBVIOUS
  <2>2. y \in Nat /\ (y < a \/ y <= Largest(S))
    BY <1>2, <1>5
  <2> QED
    BY <2>1, <2>2
<1>7. Largest(T) = Largest(S)
  BY <1>2, <1>3, <1>5, <1>6, LargestIs
<1> QED
  BY <1>1, <1>4, <1>5, <1>7

\* The line with a number among those of whole lines.
LEMMA LineAtIs ==
  ASSUME NEW f, NEW a \in Nat, NEW b \in Nat, Begins(f, a), Is(f, b) = "nl",
         NEW e \in a .. b, Is(f, e) = "nl"
  PROVE  LineAt(f, a, b, Before(f, e) - Before(f, a)) = LineTo(f, e)
<1> DEFINE k == Before(f, e) - Before(f, a)
           n == CHOOSE i \in Ends(f, a, b) : Index(f, a, b, i) = k
<1>1. Ends(f, a, b) = Newlines(f, a, b)
  BY DEF Ends, Newlines
<1>2. e \in Ends(f, a, b) /\ Index(f, a, b, e) = k
  BY <1>1, IndexIs DEF Newlines
<1>3. n \in Ends(f, a, b) /\ Index(f, a, b, n) = k
  BY <1>2
<1>4. n \in a .. b /\ Is(f, n) = "nl"
  BY <1>1, <1>3 DEF Newlines
<1>5. Before(f, n) - Before(f, a) = Before(f, e) - Before(f, a)
  BY <1>3, <1>4, IndexIs
<1>6. Before(f, n) \in Nat /\ Before(f, e) \in Nat /\ Before(f, a) \in Nat
  BY <1>4, NewlinesBetween
<1>7. n = e
  <2> HIDE DEF n
  <2> QED
    BY <1>4, <1>5, <1>6, NewlineIsKnown
<1>8. Start(f, a, b, e) = Start(f, 0, 0, e)
  BY StartIs
<1> QED
  BY <1>7, <1>8 DEF LineAt, LineTo

\* The rows of a file of whole lines.
LEMMA RowIs ==
  ASSUME NEW f, Len(f) \in Nat, Whole(f), NEW e \in Newlines(f, 0, Len(f) - 1)
  PROVE  LineOf(f, Before(f, e)) = LineTo(f, e)
<1>1. e \in 0 .. Len(f) - 1 /\ Is(f, e) = "nl" /\ Before(f, e) \in Nat
  <2>1. e \in 0 .. Len(f) - 1 /\ Is(f, e) = "nl"
    BY DEF Newlines
  <2> QED
    BY <2>1, NewlinesBetween
<1>2. f # <<>> /\ Is(f, Len(f) - 1) = "nl" /\ Begins(f, 0)
  BY <1>1 DEF Whole, Begins
<1>3. Before(f, 0) = 0 /\ Before(f, e) - 0 = Before(f, e)
  BY <1>1, BeforeSteps
<1>4. LineAt(f, 0, Len(f) - 1, Before(f, e) - Before(f, 0)) = LineTo(f, e)
  BY <1>1, <1>2, LineAtIs
<1> QED
  BY <1>3, <1>4 DEF LineOf

-----------------------------------------------------------------------------
(* A file that grows.                                                       *)

Grown(f, g) ==
  /\ Len(f) \in Nat /\ Len(g) \in Nat /\ Len(f) <= Len(g)
  /\ \A i \in 1 .. Len(f) : g[i] = f[i]

\* What was in the file stays as it was.
LEMMA GrownKeeps ==
  ASSUME NEW f, NEW g, Grown(f, g)
  PROVE  /\ \A a \in Nat, b \in Int : b < Len(f) => Newlines(g, a, b) = Newlines(f, a, b)
         /\ \A i \in 0 .. Len(f) : Before(g, i) = Before(f, i)
         /\ \A i \in Nat : EndsLine(f, i) => EndsLine(g, i)
         /\ \A i \in Nat : Begins(f, i) => Begins(g, i)
         /\ \A e \in 0 .. Len(f) : Start(g, 0, 0, e) = Start(f, 0, 0, e)
         /\ \A e \in 0 .. Len(f) - 1 : LineTo(g, e) = LineTo(f, e)
<1>1. \A i \in 0 .. Len(f) - 1 : Is(g, i) = Is(f, i)
  BY DEF Grown, Is
<1>2. ASSUME NEW a \in Nat, NEW b \in Int, b < Len(f)
      PROVE  Newlines(g, a, b) = Newlines(f, a, b)
  BY <1>1, <1>2 DEF Newlines, Grown
<1>3. \A i \in 0 .. Len(f) : Before(g, i) = Before(f, i)
  BY <1>2 DEF Before, Grown
<1>4. \A i \in Nat : EndsLine(f, i) => EndsLine(g, i)
  BY <1>1 DEF EndsLine, Grown
<1>5. \A i \in Nat : Begins(f, i) => Begins(g, i)
  BY <1>1 DEF Begins, EndsLine, Grown
<1>6. \A e \in 0 .. Len(f) : Start(g, 0, 0, e) = Start(f, 0, 0, e)
  <2> SUFFICES ASSUME NEW e \in 0 .. Len(f)
               PROVE  Start(g, 0, 0, e) = Start(f, 0, 0, e)
    OBVIOUS
  <2>1. Newlines(g, 0, e - 1) = Newlines(f, 0, e - 1)
    BY <1>2 DEF Grown
  <2> QED
    BY <2>1 DEF Start
<1> QED
  BY <1>2, <1>3, <1>4, <1>5, <1>6 DEF LineTo, Grown

\* So do its rows, and what matches.
LEMMA RowsStay ==
  ASSUME NEW f, NEW g, Grown(f, g), Whole(f), Whole(g),
         NEW k \in 0 .. Before(f, Len(f)) - 1
  PROVE  /\ LineOf(g, k) = LineOf(f, k)
         /\ LineOf(f, k).to \in 0 .. Len(f) - 1
         /\ Matches(g, LineOf(g, k)) = Matches(f, LineOf(f, k))
<1>1. Len(f) \in Nat /\ Len(g) \in Nat
  BY DEF Grown
<1>2. PICK e \in Newlines(f, 0, Len(f) - 1) : Before(f, e) = k
  BY <1>1, NewlineIsThere
<1>3. e \in 0 .. Len(f) - 1 /\ Is(f, e) = "nl"
  BY DEF Newlines
<1>4. e \in Newlines(g, 0, Len(g) - 1) /\ Before(g, e) = k
  BY <1>1, <1>2, <1>3, GrownKeeps DEF Newlines, Grown, Is
<1>5. LineOf(f, k) = LineTo(f, e) /\ LineOf(g, k) = LineTo(g, e)
  BY <1>1, <1>2, <1>4, RowIs
<1>6. LineTo(g, e) = LineTo(f, e)
  BY <1>3, GrownKeeps
<1>7. LineTo(f, e).to = e /\ LineTo(f, e).from \in 0 .. e
  <2>1. Begins(f, 0)
    BY DEF Begins
  <2>2. Start(f, 0, 0, e) \in 0 .. e
    BY <1>3, <2>1, StartIs
  <2> QED
    BY <2>2 DEF LineTo
<1>8. \A i \in LineTo(f, e).from .. e : Is(g, i) = Is(f, i)
  <2>1. \A i \in LineTo(f, e).from .. e : i \in 0 .. Len(f) - 1
    BY <1>1, <1>3, <1>7
  <2> QED
    BY <1>1, <2>1 DEF Grown, Is
<1> QED
  BY <1>3, <1>5, <1>6, <1>7, <1>8 DEF Matches

-----------------------------------------------------------------------------
(* The slots.                                                               *)

\* The slots are whole lines, know their rows, and hold the first n bytes.
Covers(S, f, n) ==
  /\ n \in 0 .. Len(f)
  /\ Begins(f, n)
  /\ S \subseteq Slot
  /\ \A s \in S :
       /\ s.from <= s.to /\ s.to < n
       /\ Begins(f, s.from) /\ EndsLine(f, s.to)
       /\ s.first = Before(f, s.from) /\ s.last = Before(f, s.to + 1) - 1
  /\ \A i \in 0 .. n - 1 : \E s \in S : i \in s.from .. s.to

\* How far the file was read, and how many rows that are.
LEMMA ReadIs ==
  ASSUME NEW md, NEW f, NEW n, Len(f) \in Nat, Covers(md.slots, f, n)
  PROVE  /\ NextByte(md) = n
         /\ Len1(md) = Before(f, n)
         /\ Before(f, n) \in Nat
         /\ ReadBytes(md) = IF n = 0 THEN 0 ELSE n - 1
<1> DEFINE S == md.slots
<1>1. n \in Nat /\ Before(f, n) \in Nat
  BY NewlinesBetween DEF Covers
<1>2. CASE n = 0
  <2>1. S = {}
    BY <1>2 DEF Covers, Slot
  <2> QED
    BY <1>1, <1>2, <2>1, BeforeSteps DEF NextByte, Len1, ReadBytes
<1>3. CASE n > 0
  <2>1. PICK s \in S : n - 1 \in s.from .. s.to
    BY <1>1, <1>3 DEF Covers
  <2>2. \A t \in S : t.to \in Nat /\ t.to < n
    BY DEF Covers, Slot
  <2>3. s.to = n - 1 /\ \A t \in S : t.to <= s.to
    <3>1. s.to \in Nat /\ s.to < n /\ n - 1 <= s.to
      BY <1>1, <2>1, <2>2
    <3>2. s.to = n - 1
      BY <1>1, <3>1
    <3> QED
      BY <1>1, <2>2, <3>2
  <2>4. LastSlot(md) \in S /\ \A t \in S : t.to <= LastSlot(md).to
    BY <2>3 DEF LastSlot
  <2>5. LastSlot(md).to = n - 1
    BY <1>1, <2>1, <2>2, <2>3, <2>4
  <2>6. LastSlot(md).last = Before(f, n) - 1
    BY <1>1, <2>4, <2>5 DEF Covers
  <2> QED
    BY <1>1, <1>3, <2>1, <2>5, <2>6 DEF NextByte, Len1, ReadBytes
<1> QED
  BY <1>1, <1>2, <1>3

\* Every row that was read is in a slot.
LEMMA RowHasSlot ==
  ASSUME NEW S, NEW f, NEW n, Len(f) \in Nat, Covers(S, f, n),
         NEW k \in 0 .. Before(f, n) - 1
  PROVE  \E s \in S : k \in s.first .. s.last
<1>1. n \in Nat /\ n <= Len(f)
  BY DEF Covers
<1>2. PICK e \in Newlines(f, 0, n - 1) : Before(f, e) = k
  BY <1>1, NewlineIsThere
<1>3. e \in 0 .. n - 1 /\ Is(f, e) = "nl"
  BY <1>1 DEF Newlines
<1>4. PICK s \in S : e \in s.from .. s.to
  BY <1>3 DEF Covers
<1>5. s.from \in Nat /\ s.to \in Nat /\ s.first = Before(f, s.from)
        /\ s.last = Before(f, s.to + 1) - 1
  BY DEF Covers, Slot
<1>6. Before(f, s.from) <= Before(f, e) /\ Before(f, s.from) \in Nat
  BY <1>3, <1>4, <1>5, NewlinesBetween
<1>7. Before(f, e) < Before(f, s.to + 1) /\ Before(f, s.to + 1) \in Nat
  <2>1. s.to + 1 \in Nat /\ e \in Nat /\ e < s.to + 1
    BY <1>3, <1>4, <1>5
  <2>2. Before(f, e) < Before(f, s.to + 1)
    BY <1>3, <2>1, BeforeIsStrict
  <2>3. Before(f, s.to + 1) \in Nat
    BY <2>1, NewlinesBetween
  <2> QED
    BY <2>2, <2>3
<1> QED
  BY <1>2, <1>5, <1>6, <1>7

\* What is read between two slots are the rows asked for.
LEMMA GrabIs ==
  ASSUME NEW n, Len(file) \in Nat, Whole(file), Covers(metadata.slots, file, n),
         NEW lo \in 0 .. Before(file, n) - 1, NEW hi \in 0 .. Before(file, n) - 1,
         lo <= hi
  PROVE  Grabbed(lo, hi) = {[pos |-> k, line |-> Row(k)] : k \in lo .. hi}
<1> DEFINE f == file
           start == CHOOSE s \in metadata.slots : lo \in s.first .. s.last
           end == CHOOSE s \in metadata.slots : hi \in s.first .. s.last
           A == Before(f, start.from)
           total == end.last - start.first + 1
           taken == {k \in 0 .. total - (end.last - hi) - 1 :
                       /\ k < Cardinality(Ends(f, start.from, end.to))
                       /\ k >= lo - start.first}
<1>1. n \in Nat /\ n <= Len(f) /\ Before(f, n) \in Nat /\ Before(f, Len(f)) \in Nat
        /\ Before(f, n) <= Before(f, Len(f))
  BY NewlinesBetween DEF Covers
<1>2. start \in metadata.slots /\ lo \in start.first .. start.last
  BY RowHasSlot
<1>3. end \in metadata.slots /\ hi \in end.first .. end.last
  BY RowHasSlot
<1> HIDE DEF start, end
<1>4. start.from \in Nat /\ Begins(f, start.from) /\ start.first = A /\ A \in Nat
  BY <1>2, NewlinesBetween DEF Covers, Slot
<1>5. end.to \in Nat /\ EndsLine(f, end.to) /\ end.last = Before(f, end.to + 1) - 1
        /\ Before(f, end.to + 1) \in Nat
  BY <1>3, NewlinesBetween DEF Covers, Slot
<1>6. A <= lo /\ hi <= Before(f, end.to + 1) - 1 /\ lo \in Nat /\ hi \in Nat
  BY <1>1, <1>2, <1>3, <1>4, <1>5
<1>7. start.from <= end.to
  <2> SUFFICES ASSUME end.to < start.from PROVE FALSE
    BY <1>4, <1>5
  <2>1. Before(f, end.to + 1) <= A
    BY <1>4, <1>5, NewlinesBetween
  <2> QED
    BY <1>4, <1>5, <1>6, <2>1
<1>8. Is(f, end.to) = "nl"
  BY <1>5 DEF EndsLine
<1>9. Cardinality(Ends(f, start.from, end.to)) = Before(f, end.to + 1) - A
  <2>1. Ends(f, start.from, end.to) = Newlines(f, start.from, (end.to + 1) - 1)
    BY <1>4, <1>5, <1>7, <1>8 DEF Ends, Newlines
  <2>2. end.to + 1 \in Nat /\ start.from <= end.to + 1
    BY <1>4, <1>5, <1>7
  <2>3. Cardinality(Newlines(f, start.from, (end.to + 1) - 1)) = Before(f, end.to + 1) - A
    BY <1>4, <2>2, NewlinesBetween
  <2> QED
    BY <2>1, <2>3
<1>10. taken = lo - A .. hi - A
  <2>1. total - (end.last - hi) - 1 = hi - A
    BY <1>4, <1>5, <1>6
  <2>2. taken = {k \in 0 .. hi - A : k < Before(f, end.to + 1) - A /\ k >= lo - A}
    BY <1>4, <1>9, <2>1
  <2> HIDE DEF A, taken
  <2> QED
    BY <1>4, <1>5, <1>6, <2>2
<1>11. ASSUME NEW k \in lo - A .. hi - A
       PROVE  LineAt(f, start.from, end.to, k) = Row(k + A)
  <2> HIDE DEF A
  <2>1. k + A \in 0 .. Before(f, Len(f)) - 1
    BY <1>1, <1>4, <1>6
  <2>2. PICK e \in Newlines(f, 0, Len(f) - 1) : Before(f, e) = k + A
    BY <2>1, NewlineIsThere
  <2>3. e \in Nat /\ Is(f, e) = "nl"
    BY DEF Newlines
  <2>4. start.from <= e
    <3>1. e < start.from => Before(f, e) < A
      BY <1>4, <2>3, BeforeIsStrict DEF A
    <3> QED
      BY <1>4, <1>6, <2>2, <2>3, <3>1
  <2>5. e <= end.to
    <3>1. Before(f, e) < Before(f, end.to + 1)
      BY <1>4, <1>5, <1>6, <2>2
    <3>2. e < end.to + 1
      BY <1>5, <2>3, <3>1, BeforeIsStrict
    <3> QED
      BY <1>5, <2>3, <3>2
  <2>6. LineAt(f, start.from, end.to, Before(f, e) - Before(f, start.from)) = LineTo(f, e)
    BY <1>4, <1>5, <1>8, <2>3, <2>4, <2>5, LineAtIs
  <2>7. Before(f, e) - Before(f, start.from) = k
    BY <1>4, <1>6, <2>2 DEF A
  <2>8. LineOf(f, k + A) = LineTo(f, e)
    BY <2>2, RowIs
  <2> QED
    BY <2>6, <2>7, <2>8 DEF LineOf, Row
<1>12. Grabbed(lo, hi)
         = {[pos |-> k + start.first, line |-> LineAt(f, start.from, end.to, k)] : k \in taken}
  BY DEF Grabbed, start, end
<1> HIDE DEF taken, A
<1>13. Grabbed(lo, hi) = {[pos |-> k + A, line |-> Row(k + A)] : k \in lo - A .. hi - A}
  BY <1>4, <1>10, <1>11, <1>12
<1>14. \A k \in lo .. hi : k - A \in lo - A .. hi - A /\ (k - A) + A = k
  BY <1>4, <1>6
<1>15. \A k \in lo - A .. hi - A : k + A \in lo .. hi
  BY <1>4, <1>6
<1> QED
  BY <1>13, <1>14, <1>15

\* Slots of a file stay its slots when it grows.
LEMMA CoversGrows ==
  ASSUME NEW S, NEW f, NEW g, NEW n, Grown(f, g), Covers(S, f, n)
  PROVE  Covers(S, g, n)
<1>1. n \in 0 .. Len(g) /\ n \in Nat /\ Begins(g, n)
  BY GrownKeeps DEF Covers, Grown
<1>2. ASSUME NEW s \in S
      PROVE  /\ Begins(g, s.from) /\ EndsLine(g, s.to)
             /\ s.first = Before(g, s.from) /\ s.last = Before(g, s.to + 1) - 1
  <2>1. /\ s.from \in Nat /\ s.to \in Nat /\ s.from <= s.to /\ s.to < n /\ n <= Len(f)
        /\ Begins(f, s.from) /\ EndsLine(f, s.to) /\ n \in Nat
        /\ s.first = Before(f, s.from) /\ s.last = Before(f, s.to + 1) - 1
    BY <1>1 DEF Covers, Slot
  <2>2. s.from \in 0 .. Len(f) /\ s.to + 1 \in 0 .. Len(f)
    BY <2>1 DEF Grown
  <2> QED
    BY <2>1, <2>2, GrownKeeps
<1> QED
  BY <1>1, <1>2 DEF Covers

\* The slots of an update continue those that were there up to the end of the
\* file, whichever newlines they end at.
LEMMA SlotsContinue ==
  ASSUME NEW md, NEW f, NEW n, Len(f) \in Nat, Whole(f), Covers(md.slots, f, n),
         NEW cuts \in Cuts(f, md)
  PROVE  Covers(md.slots \cup SlotsAt(f, md, cuts), f, Len(f))
<1> DEFINE end == Len(f) - 1
           nl == Newlines(f, n, end)
           T(c) == {n} \cup {i + 1 : i \in {x \in cuts : x < c}}
           From(c) == Largest(T(c))
           Line(i) == Len1(md) + Cardinality(Newlines(f, n, i))
           New(c) == [from |-> From(c), to |-> c,
                      first |-> Line(From(c) - 1), last |-> Line(c) - 1]
           rest == Largest({n} \cup {i + 1 : i \in cuts})
<1>1. n \in Nat /\ n <= Len(f) /\ Begins(f, n) /\ end \in Int
  BY DEF Covers
<1>2. NextByte(md) = n /\ Len1(md) = Before(f, n) /\ Before(f, n) \in Nat
  BY ReadIs
<1>3. cuts \in SUBSET nl /\ (nl # {} => Largest(nl) \in cuts)
  BY <1>2 DEF Cuts
<1>4. \A c \in cuts : c \in n .. end /\ Is(f, c) = "nl"
  BY <1>3 DEF Newlines
<1>5. SlotsAt(f, md, cuts)
        = {New(c) : c \in cuts}
            \cup {[from |-> rest, to |-> end, first |-> Line(end), last |-> Line(end)] :
                    x \in {rest} \cap n .. end}
  BY <1>2 DEF SlotsAt
<1>6. CASE n = Len(f)
  <2>1. cuts = {} /\ n .. end = {}
    BY <1>1, <1>4, <1>6
  <2>2. SlotsAt(f, md, cuts) = {}
    BY <1>5, <2>1
  <2> QED
    BY <1>6, <2>2
<1>7. CASE n < Len(f)
  <2>1. end \in Nat /\ n <= end /\ Is(f, end) = "nl"
    BY <1>1, <1>7 DEF Whole
  <2>2. end \in cuts
    <3>1. end \in nl /\ nl \in SUBSET Nat /\ \A x \in nl : x <= end
      BY <1>1, <2>1 DEF Newlines
    <3>2. Largest(nl) = end
      BY <3>1, LargestIs
    <3> QED
      BY <1>3, <3>1, <3>2
  <2>3. rest = end + 1
    <3> DEFINE R == {n} \cup {i + 1 : i \in cuts}
    <3>1. R \in SUBSET Nat /\ end + 1 \in R /\ \A x \in R : x <= end + 1
      BY <1>1, <1>4, <2>1, <2>2
    <3>2. Largest(R) = end + 1
      BY <3>1, LargestIs
    <3> QED
      BY <3>2
  <2>4. SlotsAt(f, md, cuts) = {New(c) : c \in cuts}
    <3> HIDE DEF rest
    <3>1. {rest} \cap n .. end = {}
      BY <1>1, <2>1, <2>3
    <3> QED
      BY <1>5, <3>1 DEF rest
  <2>5. ASSUME NEW c \in cuts
        PROVE  From(c) \in T(c) /\ From(c) \in n .. c
    <3>1. T(c) \in SUBSET Nat /\ T(c) # {} /\ \A x \in T(c) : x \in n .. c
      BY <1>1, <1>4
    <3>2. c \in Nat /\ \A x \in T(c) : x <= c
      BY <1>1, <1>4, <3>1
    <3> HIDE DEF T
    <3>3. Largest(T(c)) \in T(c)
      BY <3>1, <3>2, LargestIsThere
    <3> QED
      BY <3>1, <3>3
  <2>6. ASSUME NEW c \in cuts
        PROVE  /\ New(c) \in Slot
               /\ New(c).from <= New(c).to /\ New(c).to < Len(f)
               /\ Begins(f, New(c).from) /\ EndsLine(f, New(c).to)
               /\ New(c).first = Before(f, New(c).from)
               /\ New(c).last = Before(f, New(c).to + 1) - 1
    <3>1. c \in Nat /\ c <= end /\ n <= c /\ Is(f, c) = "nl" /\ c + 1 \in Nat
      BY <1>1, <1>4, <2>1
    <3>2. From(c) \in Nat /\ n <= From(c) /\ From(c) <= c
      BY <1>1, <2>5, <3>1
    <3>3. EndsLine(f, c)
      BY <2>1, <3>1 DEF EndsLine
    <3>4. Begins(f, From(c))
      <4>1. CASE From(c) = n
        BY <1>1, <4>1
      <4>2. CASE From(c) # n
        <5>1. PICK i \in cuts : From(c) = i + 1
          BY <2>5, <4>2
        <5>2. i \in 0 .. end /\ Is(f, i) = "nl" /\ From(c) - 1 = i
          BY <1>1, <1>4, <5>1
        <5> QED
          BY <2>1, <5>2 DEF Begins, EndsLine
      <4> QED
        BY <4>1, <4>2
    <3> HIDE DEF From
    <3>5. /\ Before(f, From(c)) \in Nat /\ Before(f, n) \in Nat
          /\ Cardinality(Newlines(f, n, From(c) - 1)) = Before(f, From(c)) - Before(f, n)
      BY <1>1, <3>2, NewlinesBetween
    <3>6. /\ Before(f, c + 1) \in Nat
          /\ Cardinality(Newlines(f, n, (c + 1) - 1)) = Before(f, c + 1) - Before(f, n)
      BY <1>1, <3>1, NewlinesBetween
    <3>7. Before(f, c + 1) = Before(f, c) + 1 /\ Before(f, c) \in Nat
      BY <3>1, BeforeSteps, NewlinesBetween
    <3>8. Line(From(c) - 1) = Before(f, From(c)) /\ Line(c) - 1 = Before(f, c + 1) - 1
      <4>1. (c + 1) - 1 = c
        BY <3>1
      <4> QED
        BY <1>2, <3>5, <3>6, <4>1
    <3> QED
      BY <2>1, <3>1, <3>2, <3>3, <3>4, <3>5, <3>7, <3>8 DEF Slot
  <2>7. ASSUME NEW i \in n .. end
        PROVE  \E c \in cuts : i \in From(c) .. c
    <3> DEFINE D == {c \in cuts : i <= c}
    <3>1. D \in SUBSET Nat /\ D # {}
      BY <1>1, <1>4, <2>1, <2>2
    <3>2. PICK c \in D : \A d \in D : c <= d
      <4> HIDE DEF D
      <4> QED
        BY <3>1, SmallestIsThere
    <3>3. From(c) <= i
      <4>1. CASE From(c) = n
        BY <1>1, <4>1
      <4>2. CASE From(c) # n
        <5>1. PICK j \in cuts : j < c /\ From(c) = j + 1
          BY <2>5, <4>2
        <5>2. j \in Nat /\ c \in Nat /\ i \in Nat
          BY <1>1, <1>4, <3>2
        <5>3. ~(i <= j)
          BY <3>2, <5>1, <5>2
        <5> QED
          BY <5>1, <5>2, <5>3
      <4> QED
        BY <4>1, <4>2
    <3>4. From(c) \in n .. c /\ c \in n .. end /\ i <= c
      BY <1>4, <2>5, <3>2
    <3> HIDE DEF From, D
    <3>5. i \in From(c) .. c
      BY <1>1, <2>1, <3>3, <3>4
    <3> QED
      BY <3>2, <3>5 DEF D
  <2>8. Begins(f, Len(f))
    BY <2>1 DEF Begins, EndsLine
  <2> DEFINE S == md.slots \cup {New(c) : c \in cuts}
  <2>9. ASSUME NEW i \in 0 .. Len(f) - 1
        PROVE  \E s \in S : i \in s.from .. s.to
    <3>1. CASE i < n
      <4>1. i \in 0 .. n - 1
        BY <1>1, <3>1
      <4> QED
        BY <4>1 DEF Covers
    <3>2. CASE n <= i
      <4>1. i \in n .. end
        BY <1>1, <3>2
      <4>2. PICK c \in cuts : i \in From(c) .. c
        BY <2>7, <4>1
      <4>3. New(c) \in S /\ New(c).from = From(c) /\ New(c).to = c
        OBVIOUS
      <4> QED
        BY <4>2, <4>3
    <3>3. i < n \/ n <= i
      BY <1>1
    <3> HIDE DEF S
    <3> QED
      BY <3>1, <3>2, <3>3
  <2>10. ASSUME NEW s \in S
         PROVE  /\ s \in Slot /\ s.from <= s.to /\ s.to < Len(f)
                /\ Begins(f, s.from) /\ EndsLine(f, s.to)
                /\ s.first = Before(f, s.from) /\ s.last = Before(f, s.to + 1) - 1
    <3>1. CASE s \in md.slots
      BY <1>1, <3>1 DEF Covers, Slot
    <3>2. CASE s \notin md.slots
      <4>1. PICK c \in cuts : s = New(c)
        BY <3>2
      <4> HIDE DEF New
      <4> QED
        BY <2>6, <4>1
    <3> QED
      BY <3>1, <3>2
  <2> HIDE DEF New
  <2> QED
    BY <1>1, <2>4, <2>8, <2>9, <2>10 DEF Covers
<1> QED
  BY <1>1, <1>6, <1>7

\* What an update does: it reads the file to its end.
LEMMA UpdateIs ==
  ASSUME NEW md, NEW f, NEW n, Len(f) \in Nat, Whole(f), Covers(md.slots, f, n),
         NEW rs, NEW w, NEW u \in Updates(f, md, rs, w)
  PROVE  /\ u.metadata.known = TRUE
         /\ Covers(u.metadata.slots, f, Len(f))
         /\ u.ranges = RangesWith(rs, Len1(md) .. Before(f, Len(f)) - 1, w)
<1>1. PICK c \in Cuts(f, md) :
        u = [metadata |-> [known |-> TRUE, slots |-> md.slots \cup SlotsAt(f, md, c)],
             ranges |-> RangesWith(rs, Processed(f, md), w)]
  BY DEF Updates
<1>2. n \in Nat /\ n <= Len(f) /\ NextByte(md) = n /\ Len1(md) = Before(f, n)
  BY ReadIs DEF Covers
<1>3. /\ Cardinality(Newlines(f, n, Len(f) - 1)) = Before(f, Len(f)) - Before(f, n)
      /\ Before(f, n) \in Nat /\ Before(f, Len(f)) \in Nat
  BY <1>2, NewlinesBetween
<1>4. Processed(f, md) = Len1(md) .. Before(f, Len(f)) - 1
  BY <1>2, <1>3 DEF Processed
<1> QED
  BY <1>1, <1>4, SlotsContinue

-----------------------------------------------------------------------------
(* Who wrote a row.                                                         *)

Kind == {"m", "x", "nl"}
Writers == Sources \cup {Observed}
Byte == [is : Kind, of : Writers]

\* A file that whole lines are written to.
LEMMA Appends ==
  ASSUME NEW f \in Seq(Byte), NEW t \in Seq(Byte), Whole(f), Whole(t)
  PROVE  /\ f \o t \in Seq(Byte) /\ Whole(f \o t) /\ Grown(f, f \o t)
         /\ Len(f \o t) = Len(f) + Len(t)
         /\ \A i \in Len(f) + 1 .. Len(f \o t) : (f \o t)[i] = t[i - Len(f)]
         /\ t # <<>> => Before(f, Len(f)) < Before(f \o t, Len(f \o t))
         /\ t = <<>> => f \o t = f
<1> DEFINE g == f \o t
<1>1. /\ g \in Seq(Byte) /\ Len(f) \in Nat /\ Len(t) \in Nat /\ Len(g) = Len(f) + Len(t)
      /\ \A i \in 1 .. Len(f) : g[i] = f[i]
      /\ \A i \in Len(f) + 1 .. Len(g) : g[i] = t[i - Len(f)]
  OBVIOUS
<1>2. Grown(f, g)
  BY <1>1 DEF Grown
<1>3. CASE t = <<>>
  BY <1>1, <1>2, <1>3
<1>4. CASE t # <<>>
  <2>1. Len(t) > 0
    BY <1>4
  <2> HIDE DEF g
  <2>2. Is(g, Len(g) - 1) = "nl"
    BY <1>1, <1>4, <2>1 DEF Whole, Is
  <2>3. Before(g, Len(f)) = Before(f, Len(f)) /\ Before(f, Len(f)) \in Nat
    BY <1>1, <1>2, GrownKeeps, NewlinesBetween
  <2>4. Len(g) - 1 \in Nat /\ Len(f) <= Len(g) - 1 /\ (Len(g) - 1) + 1 = Len(g)
    BY <1>1, <2>1
  <2>5. Before(g, Len(f)) <= Before(g, Len(g) - 1) /\ Before(g, Len(g) - 1) \in Nat
    BY <1>1, <2>4, NewlinesBetween
  <2>6. Before(g, Len(g)) = Before(g, Len(g) - 1) + 1
    BY <2>2, <2>4, BeforeSteps
  <2>7. Before(f, Len(f)) < Before(g, Len(g))
    BY <2>3, <2>5, <2>6
  <2> QED
    BY <1>1, <1>2, <1>4, <2>2, <2>7 DEF Whole, g
<1> QED
  BY <1>3, <1>4

Author(f, k) == f[LineOf(f, k).to + 1].of

\* Rows keep their authors, and new rows are in what is new.
LEMMA AuthorsStay ==
  ASSUME NEW f, NEW g, Grown(f, g), Whole(f), Whole(g)
  PROVE  /\ \A k \in 0 .. Before(f, Len(f)) - 1 : Author(g, k) = Author(f, k)
         /\ \A k \in Before(f, Len(f)) .. Before(g, Len(g)) - 1 :
              LineOf(g, k).to \in Len(f) .. Len(g) - 1
<1>1. Len(f) \in Nat /\ Len(g) \in Nat /\ Len(f) <= Len(g)
  BY DEF Grown
<1>2. ASSUME NEW k \in 0 .. Before(f, Len(f)) - 1
      PROVE  Author(g, k) = Author(f, k)
  <2>1. LineOf(g, k) = LineOf(f, k) /\ LineOf(f, k).to \in 0 .. Len(f) - 1
    BY RowsStay
  <2> QED
    BY <1>1, <2>1 DEF Author, Grown
<1>3. ASSUME NEW k \in Before(f, Len(f)) .. Before(g, Len(g)) - 1
      PROVE  LineOf(g, k).to \in Len(f) .. Len(g) - 1
  <2>1. Before(f, Len(f)) \in Nat /\ Before(g, Len(g)) \in Nat
          /\ Before(g, Len(f)) = Before(f, Len(f))
    BY <1>1, NewlinesBetween, GrownKeeps
  <2>2. k \in 0 .. Before(g, Len(g)) - 1
    BY <2>1
  <2>3. PICK e \in Newlines(g, 0, Len(g) - 1) : Before(g, e) = k
    BY <1>1, <2>2, NewlineIsThere
  <2>4. LineOf(g, k) = LineTo(g, e)
    BY <1>1, <2>3, RowIs
  <2>5. e \in 0 .. Len(g) - 1 /\ Is(g, e) = "nl"
    BY DEF Newlines
  <2>6. Len(f) <= e
    <3>1. e < Len(f) => Before(g, e) < Before(g, Len(f))
      BY <1>1, <2>5, BeforeIsStrict
    <3> QED
      BY <1>1, <2>1, <2>3, <2>5, <3>1
  <2> QED
    BY <1>1, <2>4, <2>5, <2>6 DEF LineTo
<1> QED
  BY <1>2, <1>3

Credit == [from : Nat, to : Nat, source : Writers \cup {NoSource}]

\* The first range that has the row is its author's.
IsCredited(rs, k, w) ==
  \E i \in 1 .. Len(rs) :
    /\ k \in rs[i].from .. rs[i].to
    /\ \A j \in 1 .. i - 1 : k \notin rs[j].from .. rs[j].to
    /\ rs[i].source = w

\* m rows have been credited; those behind them are w's.
Credits(rs, f, m, w) ==
  /\ rs \in Seq(Credit)
  /\ m \in 0 .. Before(f, Len(f))
  /\ \A i \in 1 .. Len(rs) : rs[i].to < m
  /\ \A k \in 0 .. m - 1 : IsCredited(rs, k, Author(f, k))
  /\ \A k \in m .. Before(f, Len(f)) - 1 : Author(f, k) = w

\* They are still when what the same writer has written is appended, or when all
\* rows that were there have been credited.
LEMMA CreditsGrow ==
  ASSUME NEW rs, NEW f \in Seq(Byte), NEW t \in Seq(Byte), Whole(f), Whole(t),
         NEW m, NEW v, NEW w, Credits(rs, f, m, v),
         v = w \/ m = Before(f, Len(f)),
         \A i \in 1 .. Len(t) : t[i].of = w
  PROVE  Credits(rs, f \o t, m, w)
<1> DEFINE g == f \o t
<1>1. /\ g \in Seq(Byte) /\ Whole(g) /\ Grown(f, g) /\ Len(g) = Len(f) + Len(t)
      /\ \A i \in Len(f) + 1 .. Len(g) : g[i] = t[i - Len(f)]
  BY Appends
<1> HIDE DEF g
<1>2. Len(f) \in Nat /\ Len(t) \in Nat
  OBVIOUS
<1>3. /\ Before(f, Len(f)) \in Nat /\ Before(g, Len(g)) \in Nat
      /\ Before(f, Len(f)) <= Before(g, Len(g))
  <2>1. Before(g, Len(f)) = Before(f, Len(f))
    BY <1>1, <1>2, GrownKeeps
  <2>2. Len(f) \in Nat /\ Len(g) \in Nat /\ Len(f) <= Len(g)
    BY <1>1, <1>2
  <2> QED
    BY <2>1, <2>2, NewlinesBetween
<1>4. m \in Nat /\ m <= Before(f, Len(f))
  BY <1>3 DEF Credits
<1>5. ASSUME NEW k \in 0 .. m - 1
      PROVE  IsCredited(rs, k, Author(g, k))
  <2>1. k \in 0 .. Before(f, Len(f)) - 1
    BY <1>3, <1>4
  <2>2. Author(g, k) = Author(f, k)
    BY <1>1, <2>1, AuthorsStay
  <2> QED
    BY <2>2 DEF Credits
<1>6. ASSUME NEW k \in m .. Before(g, Len(g)) - 1
      PROVE  Author(g, k) = w
  <2>1. CASE k < Before(f, Len(f))
    <3>1. k \in 0 .. Before(f, Len(f)) - 1 /\ k \in m .. Before(f, Len(f)) - 1
      BY <1>3, <1>4, <2>1
    <3>2. Author(g, k) = Author(f, k)
      BY <1>1, <3>1, AuthorsStay
    <3>3. v = w
      BY <1>3, <3>1
    <3> QED
      BY <3>1, <3>2, <3>3 DEF Credits
  <2>2. CASE Before(f, Len(f)) <= k
    <3>1. k \in Before(f, Len(f)) .. Before(g, Len(g)) - 1
      BY <1>3, <1>4, <2>2
    <3>2. LineOf(g, k).to \in Len(f) .. Len(g) - 1
      BY <1>1, <3>1, AuthorsStay
    <3> DEFINE p == LineOf(g, k).to
    <3>3. p + 1 \in Len(f) + 1 .. Len(g) /\ (p + 1) - Len(f) \in 1 .. Len(t)
      <4>1. p \in Len(f) .. Len(g) - 1
        BY <3>2
      <4> HIDE DEF p
      <4> QED
        BY <1>1, <1>2, <4>1
    <3>4. g[p + 1].of = w
      BY <1>1, <3>3
    <3> QED
      BY <3>4 DEF Author
  <2> QED
    BY <1>3, <1>4, <2>1, <2>2
<1>7. m \in 0 .. Before(g, Len(g))
  BY <1>3, <1>4
<1> QED
  BY <1>5, <1>6, <1>7 DEF Credits, g

\* An update credits all rows, from one that was credited or is the next.
LEMMA CreditsAll ==
  ASSUME NEW rs, NEW f, Len(f) \in Nat, NEW m, NEW w \in Writers \cup {NoSource},
         Credits(rs, f, m, w), NEW c \in 0 .. m, NEW v
  PROVE  Credits(RangesWith(rs, c .. Before(f, Len(f)) - 1, w), f, Before(f, Len(f)), v)
<1> DEFINE n == Before(f, Len(f))
           rows == c .. n - 1
           r == [from |-> CHOOSE i \in rows : \A j \in rows : i <= j,
                 to |-> Largest(rows), source |-> w]
<1>1. n \in Nat /\ m \in Nat /\ c \in Nat /\ c <= m /\ m <= n
  BY NewlinesBetween DEF Credits
<1> HIDE DEF n
<1>2. CASE rows = {}
  <2>1. m = n
    BY <1>1, <1>2
  <2>2. RangesWith(rs, rows, w) = rs
    BY <1>2 DEF RangesWith
  <2> QED
    BY <1>1, <2>1, <2>2 DEF Credits, n
<1>3. CASE rows # {}
  <2>1. c <= n - 1
    BY <1>1, <1>3
  <2>2. Largest(rows) = n - 1
    <3>1. rows \in SUBSET Nat /\ n - 1 \in rows /\ \A y \in rows : y <= n - 1
      BY <1>1, <2>1
    <3> QED
      BY <3>1, LargestIs
  <2>3. (CHOOSE i \in rows : \A j \in rows : i <= j) = c
    <3>1. c \in rows /\ \A j \in rows : c <= j
      BY <1>1, <2>1
    <3> DEFINE d == CHOOSE i \in rows : \A j \in rows : i <= j
    <3>2. d \in rows /\ \A j \in rows : d <= j
      BY <3>1
    <3> HIDE DEF d
    <3>3. d \in Nat /\ d <= c /\ c <= d
      BY <1>1, <3>1, <3>2
    <3>4. d = c
      BY <1>1, <3>3
    <3> QED
      BY <3>4 DEF d
  <2>4. r = [from |-> c, to |-> n - 1, source |-> w] /\ r \in Credit
    <3>1. r = [from |-> c, to |-> n - 1, source |-> w]
      <4> HIDE DEF rows
      <4> QED
        BY <2>2, <2>3, Zenon
    <3> HIDE DEF r
    <3> QED
      BY <1>1, <2>1, <3>1 DEF Credit
  <2> DEFINE q == Append(rs, r)
  <2>5. RangesWith(rs, rows, w) = q
    BY <1>3 DEF RangesWith
  <2> HIDE DEF r, rows
  <2>6. /\ q \in Seq(Credit) /\ Len(rs) \in Nat /\ Len(q) = Len(rs) + 1
        /\ \A i \in 1 .. Len(rs) : q[i] = rs[i]
        /\ q[Len(rs) + 1] = r
    BY <2>4 DEF Credits
  <2> HIDE DEF q
  <2>7. \A i \in 1 .. Len(q) : q[i].to < n
    <3> SUFFICES ASSUME NEW i \in 1 .. Len(q) PROVE q[i].to < n
      OBVIOUS
    <3>1. CASE i <= Len(rs)
      <4>1. q[i] = rs[i] /\ rs[i].to < m /\ rs[i] \in Credit
        BY <2>6, <3>1 DEF Credits
      <4>2. rs[i].to \in Nat
        BY <4>1 DEF Credit
      <4> QED
        BY <1>1, <4>1, <4>2
    <3>2. CASE i = Len(rs) + 1
      BY <1>1, <2>4, <2>6, <3>2
    <3> QED
      BY <2>6, <3>1, <3>2
  <2>8. ASSUME NEW k \in 0 .. n - 1
        PROVE  IsCredited(q, k, Author(f, k))
    <3>1. CASE k < m
      <4>1. IsCredited(rs, k, Author(f, k))
        BY <1>1, <3>1 DEF Credits
      <4>2. PICK i \in 1 .. Len(rs) :
              /\ k \in rs[i].from .. rs[i].to
              /\ \A j \in 1 .. i - 1 : k \notin rs[j].from .. rs[j].to
              /\ rs[i].source = Author(f, k)
        BY <4>1 DEF IsCredited
      <4>3. q[i] = rs[i] /\ (\A j \in 1 .. i - 1 : q[j] = rs[j]) /\ i \in 1 .. Len(q)
        BY <2>6
      <4> QED
        BY <4>2, <4>3 DEF IsCredited
    <3>2. CASE m <= k
      <4>1. Author(f, k) = w
        BY <1>1, <3>2 DEF Credits, n
      <4>2. \A j \in 1 .. Len(rs) : k \notin rs[j].from .. rs[j].to
        <5> SUFFICES ASSUME NEW j \in 1 .. Len(rs) PROVE k \notin rs[j].from .. rs[j].to
          OBVIOUS
        <5>1. rs[j] \in Credit /\ rs[j].to < m
          BY <2>6 DEF Credits
        <5>2. rs[j].from \in Nat /\ rs[j].to \in Nat
          BY <5>1 DEF Credit
        <5> QED
          BY <1>1, <3>2, <5>1, <5>2
      <4>3. k \in r.from .. r.to /\ r.source = w
        BY <1>1, <2>4, <3>2
      <4>4. Len(rs) + 1 \in 1 .. Len(q) /\ (Len(rs) + 1) - 1 = Len(rs)
        BY <2>6
      <4>5. \A j \in 1 .. Len(rs) : k \notin q[j].from .. q[j].to
        BY <2>6, <4>2
      <4> QED
        BY <2>6, <4>1, <4>3, <4>4, <4>5 DEF IsCredited
    <3> QED
      BY <1>1, <3>1, <3>2
  <2> QED
    BY <1>1, <2>5, <2>6, <2>7, <2>8 DEF Credits, n, rows
<1> QED
  BY <1>2, <1>3 DEF n

\* What the client is told of a row that is credited.
LEMMA SourceIs ==
  ASSUME NEW k, NEW w, IsCredited(ranges, k, w), Len(ranges) \in Nat
  PROVE  SourceOf(k) = w
<1> DEFINE known == {i \in 1 .. Len(ranges) : k \in ranges[i].from .. ranges[i].to}
           c == CHOOSE i \in known : \A j \in known : i <= j
<1>1. PICK i \in 1 .. Len(ranges) :
        /\ k \in ranges[i].from .. ranges[i].to
        /\ \A j \in 1 .. i - 1 : k \notin ranges[j].from .. ranges[j].to
        /\ ranges[i].source = w
  BY DEF IsCredited
<1>2. i \in known /\ known # {} /\ \A j \in known : j \in 1 .. Len(ranges) /\ j \notin 1 .. i - 1
  BY <1>1
<1>3. SourceOf(k) = ranges[c].source
  BY <1>2 DEF SourceOf
<1> HIDE DEF known
<1>4. \A j \in known : i <= j
  BY <1>2
<1>5. c \in known /\ \A j \in known : c <= j
  BY <1>2, <1>4
<1> HIDE DEF c
<1>6. c = i
  BY <1>2, <1>4, <1>5
<1> QED
  BY <1>1, <1>3, <1>6

-----------------------------------------------------------------------------
(* The searcher.                                                            *)

\* rows and bytes are what a file of whole lines was read to.
IsRead(f, rows, n) ==
  \/ rows = 0 /\ n = 0
  \/ EndsLine(f, n) /\ rows = Before(f, n + 1)

Holder == [at : {"none", "inuse", "free"}, bytes : Nat, lines : Nat, found : SUBSET Nat]

\* The holder has found what matches up to where it has come.
HasFound(f, h) ==
  /\ h \in Holder
  /\ h.bytes \in 0 .. Len(f) /\ Begins(f, h.bytes)
  /\ h.lines = Before(f, h.bytes)
  /\ h.found = {k \in 0 .. h.lines - 1 : Matches(f, LineOf(f, k))}

\* A line without its newline.
LEMMA OpenLine ==
  ASSUME NEW f, NEW n \in Nat, n > 0, Is(f, n - 1) # "nl"
  PROVE  /\ Before(f, n - 1) = Before(f, n)
         /\ \A a \in 0 .. n - 1 : \A b, c : Start(f, a, b, n - 1) = Start(f, a, c, n)
<1>1. ASSUME NEW a \in 0 .. n - 1
      PROVE  Newlines(f, a, n - 1) = Newlines(f, a, (n - 1) - 1)
  BY DEF Newlines
<1> QED
  BY <1>1 DEF Before, Start

\* A search from behind a newline to before another finds the matching rows that
\* end between the two, under their numbers.
LEMMA FoundIs ==
  ASSUME NEW h \in Holder, Len(file) \in Nat, Whole(file),
         Begins(file, h.bytes), h.lines = Before(file, h.bytes),
         NEW n \in Nat, EndsLine(file, n), h.bytes < n
  PROVE  Found(h, h.bytes, n - 1)
           = {k \in h.lines .. Before(file, n + 1) - 1 : Matches(file, LineOf(file, k))}
<1> DEFINE f == file
           a == h.bytes
           b == n - 1
           A == Before(f, a)
           Piece(e) == [from |-> Start(f, a, b, e), to |-> e]
<1>1. a \in Nat /\ a <= b /\ b \in Nat /\ A \in Nat /\ h.lines = A /\ b + 1 = n
  BY NewlinesBetween DEF Holder
<1>2. n \in 0 .. Len(f) - 1 /\ Is(f, n) = "nl" /\ Begins(f, 0)
  BY DEF EndsLine, Begins
<1>3. /\ Before(f, n) \in Nat /\ Before(f, n + 1) = Before(f, n) + 1
      /\ A <= Before(f, n)
  <2>1. Before(f, n + 1) = Before(f, n) + 1
    BY <1>2, BeforeSteps
  <2>2. a \in Nat /\ a <= n
    BY <1>1
  <2>3. Before(f, n) \in Nat /\ Before(f, a) <= Before(f, n)
    BY <2>2, NewlinesBetween
  <2> QED
    BY <2>1, <2>3
<1>4. Found(h, a, b) = {A + Index(f, a, b, e) : e \in {x \in Ends(f, a, b) : Matches(f, Piece(x))}}
  BY <1>1 DEF Found
<1>5. ASSUME NEW e \in a .. b
      PROVE  /\ A + Index(f, a, b, e) = Before(f, e)
             /\ Piece(e) = LineTo(f, e)
             /\ LineTo(f, e).from \in a .. e
             /\ Before(f, e) \in Nat /\ A <= Before(f, e)
  <2>1. e \in Nat /\ a <= e
    BY <1>1
  <2>2. Index(f, a, b, e) = Before(f, e) - A
    BY <1>1, IndexIs
  <2>3. Before(f, e) \in Nat /\ A <= Before(f, e)
    BY <1>1, <2>1, NewlinesBetween
  <2>4. Start(f, a, b, e) = Start(f, 0, 0, e) /\ Start(f, 0, 0, e) \in a .. e
    BY <1>1, <2>1, StartIs
  <2> HIDE DEF A
  <2> QED
    BY <1>1, <2>2, <2>3, <2>4 DEF LineTo
<1>6. ASSUME NEW e \in a .. n, Is(f, e) = "nl"
      PROVE  /\ LineOf(f, Before(f, e)) = LineTo(f, e)
             /\ Before(f, e) \in A .. Before(f, n + 1) - 1
  <2>1. e \in Nat /\ a <= e /\ e <= n /\ e \in Newlines(f, 0, Len(f) - 1)
    BY <1>1, <1>2, <1>6 DEF Newlines
  <2>2. LineOf(f, Before(f, e)) = LineTo(f, e)
    BY <2>1, RowIs
  <2>3. Before(f, e) \in Nat /\ A <= Before(f, e) /\ Before(f, e) <= Before(f, n)
    BY <1>1, <2>1, NewlinesBetween
  <2> QED
    BY <1>1, <1>3, <2>2, <2>3
\* The last line is searched without its newline, which matches nothing.
<1>7. ASSUME Is(f, b) # "nl"
      PROVE  /\ Before(f, b) = Before(f, n)
             /\ Matches(f, LineTo(f, b)) <=> Matches(f, LineTo(f, n))
  <2>1. Before(f, b) = Before(f, n) /\ Start(f, 0, 0, b) = Start(f, 0, 0, n)
    <3>1. n > 0 /\ 0 \in 0 .. n - 1 /\ Is(f, n - 1) # "nl"
      BY <1>1, <1>7
    <3>2. /\ Before(f, n - 1) = Before(f, n)
          /\ \A i \in 0 .. n - 1 : \A x, y : Start(f, i, x, n - 1) = Start(f, i, y, n)
      BY <3>1, OpenLine
    <3> QED
      BY <3>1, <3>2
  <2>2. Start(f, 0, 0, n) \in 0 .. n
    BY <1>2, StartIs
  <2>3. \A i \in Start(f, 0, 0, n) .. n : Is(f, i) = "m" => i \in Start(f, 0, 0, n) .. b
    BY <1>1, <1>2, <2>2
  <2>4. \A i \in Start(f, 0, 0, n) .. b : i \in Start(f, 0, 0, n) .. n
    BY <1>1, <2>2
  <2> QED
    BY <2>1, <2>3, <2>4 DEF Matches, LineTo
<1>8. ASSUME Is(f, b) = "nl"
      PROVE  ~Matches(f, LineTo(f, n))
  <2>1. Begins(f, n)
    BY <1>1, <1>2, <1>8 DEF Begins, EndsLine
  <2>2. Start(f, 0, 0, n) \in n .. n
    BY <2>1, StartIs
  <2>3. LineTo(f, n).from = n /\ LineTo(f, n).to = n
    BY <2>2 DEF LineTo
  <2> QED
    BY <1>2, <2>3 DEF Matches
<1> DEFINE Good == {k \in A .. Before(f, n + 1) - 1 : Matches(f, LineOf(f, k))}
<1>9. ASSUME NEW e \in Ends(f, a, b), Matches(f, Piece(e))
      PROVE  A + Index(f, a, b, e) \in Good
  <2>1. e \in a .. b /\ e \in a .. n /\ (Is(f, e) = "nl" \/ e = b)
    BY <1>1, <1>9 DEF Ends, Newlines
  <2>2. A + Index(f, a, b, e) = Before(f, e) /\ Matches(f, LineTo(f, e))
    BY <1>5, <1>9, <2>1
  <2>3. CASE Is(f, e) = "nl"
    <3>1. LineOf(f, Before(f, e)) = LineTo(f, e) /\ Before(f, e) \in A .. Before(f, n + 1) - 1
      BY <1>6, <2>1, <2>3
    <3> HIDE DEF A
    <3> QED
      BY <2>2, <3>1
  <2>4. CASE Is(f, e) # "nl"
    <3>1. e = b /\ Before(f, e) = Before(f, n) /\ Matches(f, LineTo(f, n))
      BY <1>7, <2>1, <2>2, <2>4
    <3>2. LineOf(f, Before(f, n)) = LineTo(f, n) /\ Before(f, n) \in A .. Before(f, n + 1) - 1
      BY <1>1, <1>2, <1>6
    <3> HIDE DEF A
    <3> QED
      BY <2>2, <3>1, <3>2
  <2> QED
    BY <2>3, <2>4
<1>10. ASSUME NEW k \in Good
       PROVE  \E e \in Ends(f, a, b) : Matches(f, Piece(e)) /\ k = A + Index(f, a, b, e)
  <2>1. k \in 0 .. Before(f, n + 1) - 1 /\ A <= k
    BY <1>1, <1>3
  <2>2. PICK e \in Newlines(f, 0, (n + 1) - 1) : Before(f, e) = k
    BY <1>1, <2>1, NewlineIsThere
  <2>3. e \in Nat /\ e <= n /\ Is(f, e) = "nl"
    BY <1>1 DEF Newlines
  <2>4. a <= e
    <3>1. e < a => Before(f, e) < A
      BY <1>1, <2>3, BeforeIsStrict
    <3> QED
      BY <1>1, <2>1, <2>2, <2>3, <3>1
  <2>5. Matches(f, LineTo(f, e))
    BY <1>6, <2>2, <2>3, <2>4
  <2>6. CASE e <= b
    <3>1. e \in a .. b /\ e \in Ends(f, a, b)
      BY <1>1, <2>3, <2>4, <2>6 DEF Ends, Newlines
    <3> QED
      BY <1>5, <2>2, <2>5, <3>1
  <2>7. CASE e = n
    <3>1. Is(f, b) # "nl"
      BY <1>8, <2>5, <2>7
    <3>2. Before(f, b) = k /\ Matches(f, LineTo(f, b))
      BY <1>7, <2>2, <2>5, <2>7, <3>1
    <3>3. b \in a .. b /\ b \in Ends(f, a, b)
      BY <1>1 DEF Ends
    <3> QED
      BY <1>5, <3>2, <3>3
  <2> QED
    BY <1>1, <2>3, <2>6, <2>7
<1>11. Found(h, a, b) = Good
  <2> HIDE DEF Good, A, Piece
  <2> QED
    BY <1>4, <1>9, <1>10
<1> QED
  BY <1>1, <1>11

\* A search takes the holder on, whatever it is told was read.
LEMMA SearchIs ==
  ASSUME NEW h, Len(file) \in Nat, Whole(file), HasFound(file, h),
         NEW rows, NEW n \in Nat, IsRead(file, rows, n)
  PROVE  HasFound(file, SearchedTo(h, rows, n))
<1>1. h \in Holder /\ h.bytes \in Nat /\ h.lines \in Nat /\ h.found \in SUBSET Nat
  BY DEF HasFound, Holder
<1>2. CASE n = 0 \/ n <= h.bytes
  BY <1>2 DEF SearchedTo
<1>3. CASE n # 0 /\ h.bytes < n
  <2>1. EndsLine(file, n) /\ rows = Before(file, n + 1)
    BY <1>3 DEF IsRead
  <2> DEFINE F == {k \in h.lines .. Before(file, n + 1) - 1 : Matches(file, LineOf(file, k))}
             g == [h EXCEPT !.found = @ \cup F, !.lines = rows, !.bytes = n + 1]
  <2>2. Found(h, h.bytes, n - 1) = F
    BY <1>1, <1>3, <2>1, FoundIs DEF HasFound
  <2>3. SearchedTo(h, rows, n) = g
    <3>1. ~(n = 0 \/ n <= h.bytes)
      BY <1>1, <1>3
    <3> HIDE DEF F
    <3> QED
      BY <2>2, <3>1, Zenon DEF SearchedTo, PositionAfter
  <2>4. n + 1 \in 0 .. Len(file) /\ Begins(file, n + 1)
    BY <2>1 DEF EndsLine, Begins
  <2>5. rows \in Nat /\ h.lines <= rows
    BY <1>1, <1>3, <2>1, NewlinesBetween DEF HasFound
  <2>6. /\ g \in Holder /\ g.bytes = n + 1 /\ g.lines = rows
        /\ g.found = h.found \cup F
    <3>1. F \in SUBSET Nat
      BY <1>1
    <3> HIDE DEF F
    <3>2. h.found \cup F \in SUBSET Nat /\ n + 1 \in Nat
      <4>1. h.found \cup F \in SUBSET Nat
        BY <1>1, <3>1, Zenon
      <4> QED
        BY <4>1
    <3>3. \A x \in SUBSET Nat, y \in Nat, z \in Nat :
            LET q == [h EXCEPT !.found = x, !.lines = y, !.bytes = z]
            IN  q \in Holder /\ q.bytes = z /\ q.lines = y /\ q.found = x
      BY <1>1 DEF Holder
    <3>4. g = [h EXCEPT !.found = h.found \cup F, !.lines = rows, !.bytes = n + 1]
      BY Zenon
    <3> QED
      BY <2>5, <3>2, <3>3, <3>4
  <2>7. h.found \cup F = {k \in 0 .. rows - 1 : Matches(file, LineOf(file, k))}
    BY <1>1, <2>1, <2>5 DEF HasFound
  <2> HIDE DEF g, F
  <2> QED
    BY <2>1, <2>3, <2>4, <2>6, <2>7 DEF HasFound
<1> QED
  BY <1>1, <1>2, <1>3

\* What was found and what was read stays so when the file grows.
LEMMA SearchGrows ==
  ASSUME NEW f, NEW g, Grown(f, g), Whole(f), Whole(g)
  PROVE  /\ \A h : HasFound(f, h) => HasFound(g, h)
         /\ \A rows : \A n \in Nat : IsRead(f, rows, n) => IsRead(g, rows, n)
<1>1. Len(f) \in Nat /\ Len(g) \in Nat /\ Len(f) <= Len(g)
  BY DEF Grown
<1>2. ASSUME NEW h, HasFound(f, h) PROVE HasFound(g, h)
  <2>1. h.bytes \in 0 .. Len(f) /\ h.bytes \in 0 .. Len(g) /\ Begins(g, h.bytes)
    BY <1>1, <1>2, GrownKeeps DEF HasFound
  <2>2. Before(g, h.bytes) = Before(f, h.bytes)
          /\ Before(f, h.bytes) <= Before(f, Len(f))
          /\ Before(f, h.bytes) \in Nat /\ Before(f, Len(f)) \in Nat
    <3>1. Before(g, h.bytes) = Before(f, h.bytes)
      BY <2>1, GrownKeeps
    <3>2. h.bytes \in Nat /\ h.bytes <= Len(f)
      BY <2>1
    <3> QED
      BY <1>1, <3>1, <3>2, NewlinesBetween
  <2>3. \A k \in 0 .. h.lines - 1 : Matches(g, LineOf(g, k)) = Matches(f, LineOf(f, k))
    BY <1>2, <2>2, RowsStay DEF HasFound
  <2> QED
    BY <1>2, <2>1, <2>2, <2>3 DEF HasFound
<1>3. ASSUME NEW rows, NEW n \in Nat, IsRead(f, rows, n) PROVE IsRead(g, rows, n)
  <2>1. CASE rows = 0 /\ n = 0
    BY <2>1 DEF IsRead
  <2>2. CASE EndsLine(f, n) /\ rows = Before(f, n + 1)
    <3>1. n + 1 \in 0 .. Len(f) /\ EndsLine(g, n)
      BY <1>1, <2>2, GrownKeeps DEF EndsLine
    <3> QED
      BY <2>2, <3>1, GrownKeeps DEF IsRead
  <2> QED
    BY <1>3, <2>1, <2>2 DEF IsRead
<1> QED
  BY <1>2, <1>3

-----------------------------------------------------------------------------
(* The invariant.                                                           *)

\* Every text is one line or several.
WholeTexts ==
  \A t \in Texts : t \in Seq(Kind) /\ t # <<>> /\ t[Len(t)] = "nl"

FileInv ==
  /\ origin \in {"generated", "linked"}
  /\ file \in Seq(Byte) /\ Whole(file)
  /\ buffer \in Seq(Byte) /\ Whole(buffer)
  /\ recent \in Sources \cup {NoSource}
  /\ recent = NoSource /\ origin = "generated" => file = <<>> /\ buffer = <<>>
  /\ origin = "linked" => buffer = <<>>

\* A file was read in whole slots, from its beginning; nothing is left of it when
\* a read has failed.
IsSlotted(md, f) ==
  /\ md.known \in BOOLEAN
  /\ md.known \/ md.slots = {}
  /\ Covers(md.slots, f, NextByte(md))

SlotsInv == IsSlotted(metadata, file)

\* The writer of what is in the file and not credited, and of the buffer.
LastWriter == IF origin = "linked" THEN Observed ELSE recent

SourcesInv ==
  /\ \E m \in Nat : Len1(metadata) <= m /\ Credits(ranges, file, m, LastWriter)
  /\ \A i \in 1 .. Len(buffer) : buffer[i].of = LastWriter

Request == [is : {"update", "return"}, rows : Nat, bytes : Nat]

\* What a search is told of was read, now or before.
SearchInv ==
  /\ asked \in [asked : BOOLEAN, rows : Nat, bytes : Nat]
  /\ IsRead(file, asked.rows, asked.bytes)
  /\ queue \in Seq(Request)
  /\ \A i \in 1 .. Len(queue) : IsRead(file, queue[i].rows, queue[i].bytes)
  /\ HasFound(file, holder)

AnnounceInv ==
  /\ metadata.known => announced = Len1(metadata) \/ buffer # <<>>
  /\ file = <<>> => announced = 0

Inv == FileInv /\ SlotsInv /\ SourcesInv /\ SearchInv /\ AnnounceInv

\* An empty file has no rows, and one of whole lines has some.
LEMMA EmptyHasNoRows ==
  /\ Before(<<>>, 0) = 0
  /\ \A f \in Seq(Byte) : Whole(f) /\ f # <<>> => Before(f, Len(f)) > 0
<1>1. Before(<<>>, 0) = 0
  BY BeforeSteps
<1>2. ASSUME NEW f \in Seq(Byte), Whole(f), f # <<>>
      PROVE  Before(f, Len(f)) > 0
  <2>1. Len(f) - 1 \in Nat /\ (Len(f) - 1) + 1 = Len(f)
    BY <1>2
  <2>2. Before(f, Len(f)) = Before(f, Len(f) - 1) + 1 /\ Before(f, Len(f) - 1) \in Nat
    BY <1>2, <2>1, BeforeSteps, NewlinesBetween DEF Whole
  <2> QED
    BY <2>2
<1> QED
  BY <1>1, <1>2

\* What is written at once.
LEMMA BytesAre ==
  ASSUME WholeTexts, NEW s \in Writers, NEW t \in Texts
  PROVE  /\ Bytes(s, t) \in Seq(Byte) /\ Bytes(s, t) # <<>> /\ Whole(Bytes(s, t))
         /\ \A i \in 1 .. Len(Bytes(s, t)) : Bytes(s, t)[i].of = s
<1>1. t \in Seq(Kind) /\ t # <<>> /\ t[Len(t)] = "nl" /\ Len(t) \in Nat /\ Len(t) > 0
  BY DEF WholeTexts
<1>2. \A i \in 1 .. Len(t) : t[i] \in Kind
  BY <1>1
<1> DEFINE q == Bytes(s, t)
<1>3. \A i \in 1 .. Len(t) : [is |-> t[i], of |-> s] \in Byte
  BY <1>2 DEF Byte
<1>4. /\ q \in Seq(Byte) /\ Len(q) = Len(t)
      /\ \A i \in 1 .. Len(t) : q[i].is = t[i] /\ q[i].of = s
  BY <1>1, <1>3 DEF Bytes
<1> HIDE DEF q
<1>5. q # <<>>
  BY <1>1, <1>4
<1>6. Is(q, Len(q) - 1) = "nl"
  <2>1. Len(t) \in 1 .. Len(t) /\ (Len(q) - 1) + 1 = Len(t)
    BY <1>1, <1>4
  <2>2. q[Len(t)].is = "nl"
    BY <1>1, <1>4, <2>1
  <2> QED
    BY <2>1, <2>2 DEF Is
<1>7. \A i \in 1 .. Len(q) : q[i].of = s
  BY <1>4
<1> QED
  BY <1>4, <1>5, <1>6, <1>7 DEF Whole, q

\* The length that searchers are told is one that was read.
LEMMA LengthIsRead ==
  ASSUME NEW md, NEW f, Len(f) \in Nat, IsSlotted(md, f)
  PROVE  /\ Len1(md) \in Nat /\ ReadBytes(md) \in Nat
         /\ IsRead(f, Len1(md), ReadBytes(md))
         /\ Len1(md) <= Before(f, Len(f)) /\ Before(f, Len(f)) \in Nat
<1> DEFINE n == NextByte(md)
<1>1. Covers(md.slots, f, n)
  BY DEF IsSlotted
<1> HIDE DEF n
<1>2. n \in Nat /\ n <= Len(f) /\ Begins(f, n)
  BY <1>1 DEF Covers
<1>3. Len1(md) = Before(f, n) /\ ReadBytes(md) = IF n = 0 THEN 0 ELSE n - 1
  BY <1>1, ReadIs
<1>4. Before(f, n) \in Nat /\ Before(f, n) <= Before(f, Len(f)) /\ Before(f, Len(f)) \in Nat
  BY <1>2, NewlinesBetween
<1>5. CASE n = 0
  BY <1>3, <1>4, <1>5, BeforeSteps DEF IsRead
<1>6. CASE n > 0
  <2>1. EndsLine(f, n - 1) /\ (n - 1) + 1 = n
    BY <1>2, <1>6 DEF Begins
  <2> QED
    BY <1>2, <1>3, <1>4, <1>6, <2>1 DEF IsRead
<1> QED
  BY <1>2, <1>5, <1>6

\* A read of a file that has grown: all of its rows are known and credited.
LEMMA ReadingIs ==
  ASSUME NEW md, NEW f, NEW g, Grown(f, g), Whole(g), IsSlotted(md, f),
         NEW rs, NEW m \in Nat, NEW w, w \in Writers \cup {NoSource},
         Credits(rs, g, m, w), Len1(md) <= m, NEW u \in Updates(g, md, rs, w)
  PROVE  /\ IsSlotted(u.metadata, g) /\ u.metadata.known
         /\ Len1(u.metadata) = Before(g, Len(g))
         /\ \A v : Credits(u.ranges, g, Before(g, Len(g)), v)
<1>1. Len(g) \in Nat
  BY DEF Grown
<1>2. PICK read : Covers(md.slots, g, read)
  BY CoversGrows DEF IsSlotted
<1>3. /\ u.metadata.known = TRUE
      /\ Covers(u.metadata.slots, g, Len(g))
      /\ u.ranges = RangesWith(rs, Len1(md) .. Before(g, Len(g)) - 1, w)
  BY <1>1, <1>2, UpdateIs
<1>4. NextByte(u.metadata) = Len(g) /\ Len1(u.metadata) = Before(g, Len(g))
  BY <1>1, <1>3, ReadIs
<1>5. Len1(md) \in Nat
  BY <1>1, <1>2, ReadIs
<1>6. Len1(md) \in 0 .. m
  BY <1>5
<1>7. \A v : Credits(u.ranges, g, Before(g, Len(g)), v)
  BY <1>1, <1>3, <1>6, CreditsAll
<1> QED
  BY <1>3, <1>4, <1>7 DEF IsSlotted

\* Slots stay slots when the file grows, and there are none without metadata.
LEMMA SlottedStays ==
  ASSUME NEW md, NEW f, NEW g, Grown(f, g), IsSlotted(md, f)
  PROVE  IsSlotted(md, g)
BY CoversGrows DEF IsSlotted

LEMMA NothingIsSlotted ==
  ASSUME NEW f, Len(f) \in Nat
  PROVE  IsSlotted(NoMetadata, f) /\ Len1(NoMetadata) = 0
BY DEF IsSlotted, NoMetadata, NextByte, Len1, Covers, Begins

\* The one who writes first is the last writer of an empty file.
LEMMA CreditsOfEmpty ==
  ASSUME NEW rs, NEW m, NEW v, NEW w, Credits(rs, <<>>, m, v)
  PROVE  Credits(rs, <<>>, m, w)
<1>1. Before(<<>>, Len(<<>>)) = 0
  BY EmptyHasNoRows
<1>2. m = 0
  BY <1>1 DEF Credits
<1> QED
  BY <1>1, <1>2 DEF Credits

-----------------------------------------------------------------------------
(* Writes and reads of the session file.                                    *)

DataInv == FileInv /\ SlotsInv /\ SourcesInv /\ AnnounceInv

\* What a searcher sees of them: the file grows, and perhaps it is told.
Effect ==
  /\ Grown(file, file')
  /\ queue' = queue \/ queue' = Append(queue, UpdateOf(metadata'))

\* What would be on disk after a flush.
LEMMA FlushedIs ==
  ASSUME FileInv, SlotsInv, SourcesInv, NEW g, g = file \o buffer
  PROVE  /\ g \in Seq(Byte) /\ Whole(g) /\ Grown(file, g) /\ Len(g) \in Nat
         /\ IsSlotted(metadata, g)
         /\ \E m \in Nat : Len1(metadata) <= m /\ Credits(ranges, g, m, LastWriter)
         /\ Len1(metadata) \in Nat /\ Before(g, Len(g)) \in Nat
         /\ Len1(metadata) <= Before(g, Len(g))
         /\ buffer # <<>> => Len1(metadata) < Before(g, Len(g))
         /\ buffer = <<>> => g = file
<1>1. /\ g \in Seq(Byte) /\ Whole(g) /\ Grown(file, g)
      /\ buffer # <<>> => Before(file, Len(file)) < Before(g, Len(g))
      /\ buffer = <<>> => g = file
  BY Appends DEF FileInv
<1>2. Len(file) \in Nat /\ Len(g) \in Nat
  BY <1>1 DEF Grown
<1>3. IsSlotted(metadata, file) /\ IsSlotted(metadata, g)
  BY <1>1, SlottedStays DEF SlotsInv
<1>4. /\ Len1(metadata) \in Nat /\ Len1(metadata) <= Before(file, Len(file))
      /\ Len1(metadata) <= Before(g, Len(g))
      /\ Before(g, Len(g)) \in Nat /\ Before(file, Len(file)) \in Nat
  BY <1>2, <1>3, LengthIsRead
<1>5. PICK m \in Nat : Len1(metadata) <= m /\ Credits(ranges, file, m, LastWriter)
  BY DEF SourcesInv
<1>6. Credits(ranges, g, m, LastWriter)
  <2>1. Credits(ranges, file \o buffer, m, LastWriter)
    BY <1>5, CreditsGrow DEF FileInv, SourcesInv
  <2> QED
    BY <2>1
<1> QED
  BY <1>1, <1>2, <1>3, <1>4, <1>5, <1>6

\* A text on top of that, by the last writer or the first.
LEMMA WrittenIs ==
  ASSUME WholeTexts, FileInv, SlotsInv, SourcesInv, origin = "generated",
         NEW s \in Sources, IsSourceSame(s), NEW t \in Texts,
         NEW g, g = file \o buffer \o Bytes(s, t)
  PROVE  /\ g \in Seq(Byte) /\ Whole(g) /\ Grown(file, g) /\ g # <<>>
         /\ \E m \in Nat : Len1(metadata) <= m /\ Credits(ranges, g, m, s)
         /\ Len1(metadata) \in Nat /\ Len1(metadata) < Before(g, Len(g))
<1> DEFINE e == file \o buffer
           x == Bytes(s, t)
<1>1. /\ x \in Seq(Byte) /\ x # <<>> /\ Whole(x)
      /\ \A i \in 1 .. Len(x) : x[i].of = s
  BY BytesAre DEF Writers
<1> HIDE DEF e, x
<1>2. /\ e \in Seq(Byte) /\ Whole(e) /\ Grown(file, e) /\ Len(e) \in Nat
      /\ Len1(metadata) \in Nat /\ Before(e, Len(e)) \in Nat
      /\ Len1(metadata) <= Before(e, Len(e))
      /\ \E m \in Nat : Len1(metadata) <= m /\ Credits(ranges, e, m, LastWriter)
  BY FlushedIs DEF e
<1>3. /\ g = e \o x
      /\ g \in Seq(Byte) /\ Whole(g) /\ Grown(e, g) /\ Len(g) \in Nat
      /\ Before(e, Len(e)) < Before(g, Len(g)) /\ Len(g) = Len(e) + Len(x)
  BY <1>1, <1>2, Appends DEF e, x, Grown
<1>4. PICK m \in Nat : Len1(metadata) <= m /\ Credits(ranges, e, m, LastWriter)
  BY <1>2
<1>5. Credits(ranges, e, m, s)
  <2>1. CASE recent = s
    BY <1>4, <2>1 DEF LastWriter
  <2>2. CASE recent = NoSource
    <3>1. file = <<>> /\ buffer = <<>>
      BY <2>2 DEF FileInv
    <3>2. e = <<>>
      BY <3>1 DEF e
    <3> QED
      BY <1>4, <3>2, CreditsOfEmpty
  <2> QED
    BY <2>1, <2>2 DEF IsSourceSame
<1>6. Credits(ranges, g, m, s)
  BY <1>1, <1>2, <1>3, <1>5, CreditsGrow
<1>7. Grown(file, g)
  BY <1>2, <1>3 DEF Grown
<1>8. Before(g, Len(g)) \in Nat /\ g # <<>>
  <2>1. Len(x) \in Nat /\ Len(x) > 0
    BY <1>1
  <2> QED
    BY <1>2, <1>3, <2>1, NewlinesBetween
<1> QED
  BY <1>2, <1>3, <1>4, <1>6, <1>7, <1>8

\* What comes out of a read, and out of a failed one.
LEMMA ReadsWell ==
  ASSUME NEW f, NEW g, Grown(f, g), Whole(g), IsSlotted(metadata, f), NEW m \in Nat,
         NEW w, w \in Writers \cup {NoSource}, Credits(ranges, g, m, w),
         Len1(metadata) <= m, Reads(g, w)
  PROVE  /\ IsSlotted(metadata', g) /\ metadata'.known
         /\ Len1(metadata') = Before(g, Len(g)) /\ Before(g, Len(g)) \in Nat
         /\ \A v : Credits(ranges', g, Before(g, Len(g)), v)
<1>1. PICK u \in Updates(g, metadata, ranges, w) :
        metadata' = u.metadata /\ ranges' = u.ranges
  BY DEF Reads
<1>2. /\ IsSlotted(u.metadata, g) /\ u.metadata.known
      /\ Len1(u.metadata) = Before(g, Len(g))
      /\ \A v : Credits(u.ranges, g, Before(g, Len(g)), v)
  BY ReadingIs
<1>3. Before(g, Len(g)) \in Nat
  BY NewlinesBetween DEF Grown
<1> QED
  BY <1>1, <1>2, <1>3

LEMMA ReadsFail ==
  ASSUME NEW g, Len(g) \in Nat, NEW rs, ReadFails(rs)
  PROVE  /\ IsSlotted(metadata', g) /\ ~metadata'.known
         /\ Len1(metadata') = 0 /\ ranges' = rs
<1>1. metadata' = NoMetadata /\ ranges' = rs
  BY DEF ReadFails
<1> QED
  BY <1>1, NothingIsSlotted DEF NoMetadata

\* A text is kept in the buffer.
LEMMA WriteKeepsStep ==
  ASSUME WholeTexts, DataInv, origin = "generated", NEW s \in Sources, NEW t \in Texts,
         WriteKeeps(s, t), recent' = s, origin' = origin
  PROVE  DataInv' /\ Effect
<1> DEFINE x == Bytes(s, t)
<1>1. /\ x \in Seq(Byte) /\ x # <<>> /\ Whole(x)
      /\ \A i \in 1 .. Len(x) : x[i].of = s
  BY BytesAre DEF Writers
<1>2. /\ buffer' = buffer \o x /\ IsSourceSame(s) /\ queue' = queue /\ announced' = announced
      /\ file' = file /\ metadata' = metadata /\ ranges' = ranges
  BY DEF WriteKeeps, Quiet
<1> HIDE DEF x
<1>3. /\ file \in Seq(Byte) /\ buffer \in Seq(Byte) /\ Whole(file) /\ Whole(buffer)
      /\ recent = NoSource => file = <<>> /\ buffer = <<>>
  BY DEF DataInv, FileInv
<1>4. /\ buffer \o x \in Seq(Byte) /\ Whole(buffer \o x)
      /\ Len(buffer \o x) = Len(buffer) + Len(x)
      /\ \A i \in 1 .. Len(buffer) : (buffer \o x)[i] = buffer[i]
      /\ \A i \in Len(buffer) + 1 .. Len(buffer \o x) : (buffer \o x)[i] = x[i - Len(buffer)]
  BY <1>1, <1>3, Appends
<1>5. buffer \o x # <<>>
  BY <1>1, <1>3, <1>4
<1>6. FileInv'
  BY <1>2, <1>3, <1>4, SessionFileAssumption DEF DataInv, FileInv
<1>7. SlotsInv'
  BY <1>2 DEF DataInv, SlotsInv
<1>8. SourcesInv'
  <2>1. PICK m \in Nat : Len1(metadata) <= m /\ Credits(ranges, file, m, LastWriter)
    BY DEF DataInv, SourcesInv
  <2>2. LastWriter = recent /\ LastWriter' = s
    BY DEF LastWriter
  <2>3. Credits(ranges, file, m, s)
    BY <1>2, <1>3, <2>1, <2>2, CreditsOfEmpty DEF IsSourceSame
  <2>4. \A i \in 1 .. Len(buffer) : buffer[i].of = s
    BY <1>2, <1>3, <2>2 DEF IsSourceSame, DataInv, SourcesInv
  <2>5. ASSUME NEW i \in 1 .. Len(buffer \o x) PROVE (buffer \o x)[i].of = s
    <3>1. CASE i <= Len(buffer)
      BY <1>3, <1>4, <2>4, <3>1
    <3>2. CASE i > Len(buffer)
      <4>1. i \in Len(buffer) + 1 .. Len(buffer \o x) /\ i - Len(buffer) \in 1 .. Len(x)
        BY <1>1, <1>3, <1>4, <3>2
      <4> QED
        BY <1>1, <1>4, <4>1
    <3> QED
      BY <1>3, <3>1, <3>2
  <2> QED
    BY <1>2, <2>1, <2>2, <2>3, <2>5 DEF SourcesInv
<1>9. AnnounceInv'
  BY <1>2, <1>5 DEF DataInv, AnnounceInv
<1> QED
  BY <1>2, <1>3, <1>6, <1>7, <1>8, <1>9 DEF DataInv, Effect, Grown

\* A text is written, with what waits in the buffer, and read or not.
LEMMA WriteFlushesStep ==
  ASSUME WholeTexts, DataInv, origin = "generated", NEW s \in Sources, NEW t \in Texts,
         WriteFlushes(s, t), recent' = s, origin' = origin
  PROVE  DataInv' /\ Effect
<1> DEFINE g == file \o buffer \o Bytes(s, t)
<1>1. file' = g /\ buffer' = <<>> /\ IsSourceSame(s)
  BY DEF WriteFlushes
<1>2. /\ g \in Seq(Byte) /\ Whole(g) /\ Grown(file, g) /\ g # <<>>
      /\ \E m \in Nat : Len1(metadata) <= m /\ Credits(ranges, g, m, s)
      /\ Len1(metadata) \in Nat /\ Len1(metadata) < Before(g, Len(g))
  BY <1>1, WrittenIs DEF DataInv
<1> HIDE DEF g
<1>3. PICK m \in Nat : Len1(metadata) <= m /\ Credits(ranges, g, m, s)
  BY <1>2
<1>4. FileInv'
  BY <1>1, <1>2, SessionFileAssumption DEF DataInv, FileInv, Whole
<1>5. LastWriter' = s
  BY DEF LastWriter
<1>6. CASE Reads(g, s) /\ Announces(metadata)
  <2>1. /\ IsSlotted(metadata', g) /\ metadata'.known
        /\ Len1(metadata') = Before(g, Len(g)) /\ Before(g, Len(g)) \in Nat
        /\ \A v : Credits(ranges', g, Before(g, Len(g)), v)
    BY <1>2, <1>3, <1>6, ReadsWell DEF DataInv, SlotsInv, Writers
  <2>2. Len1(metadata') # Len1(metadata)
    BY <1>2, <2>1
  <2>3. announced' = Len1(metadata') /\ queue' = Append(queue, UpdateOf(metadata'))
    BY <1>6, <2>2 DEF Announces
  <2>4. SlotsInv' /\ SourcesInv' /\ AnnounceInv'
    BY <1>1, <1>2, <1>5, <2>1, <2>3 DEF SlotsInv, SourcesInv, AnnounceInv
  <2> QED
    BY <1>1, <1>2, <1>4, <2>3, <2>4 DEF DataInv, Effect
<1>7. CASE ReadFails(ranges) /\ Quiet
  <2>1. Len(g) \in Nat
    BY <1>2
  <2>2. /\ IsSlotted(metadata', g) /\ ~metadata'.known
        /\ Len1(metadata') = 0 /\ ranges' = ranges
    BY <1>7, <2>1, ReadsFail
  <2>3. SlotsInv' /\ SourcesInv' /\ AnnounceInv'
    BY <1>1, <1>2, <1>3, <1>5, <2>2 DEF SlotsInv, SourcesInv, AnnounceInv
  <2> QED
    BY <1>1, <1>2, <1>4, <1>7, <2>3 DEF DataInv, Effect, Quiet
<1> QED
  BY <1>1, <1>6, <1>7 DEF WriteFlushes

\* What another source has written is flushed and read, and the text kept.
LEMMA SwitchKeepsStep ==
  ASSUME WholeTexts, DataInv, origin = "generated", NEW s \in Sources, NEW t \in Texts,
         SwitchKeeps(s, t), recent' = s, origin' = origin
  PROVE  DataInv' /\ Effect
<1> DEFINE g == file \o buffer
           x == Bytes(s, t)
<1>1. /\ x \in Seq(Byte) /\ x # <<>> /\ Whole(x)
      /\ \A i \in 1 .. Len(x) : x[i].of = s
  BY BytesAre DEF Writers
<1>2. /\ file' = g /\ buffer' = x /\ Reads(g, recent)
      /\ queue' = queue /\ announced' = announced
  BY DEF SwitchKeeps, Quiet
<1>3. /\ g \in Seq(Byte) /\ Whole(g) /\ Grown(file, g) /\ Len(g) \in Nat
      /\ \E m \in Nat : Len1(metadata) <= m /\ Credits(ranges, g, m, LastWriter)
  BY FlushedIs DEF DataInv
<1>4. LastWriter = recent /\ LastWriter' = s /\ recent \in Writers \cup {NoSource}
  BY DEF LastWriter, DataInv, FileInv, Writers
<1>5. g = <<>> => file = <<>>
  BY <1>3 DEF Grown, DataInv, FileInv
<1> HIDE DEF g, x
<1>6. /\ IsSlotted(metadata', g) /\ metadata'.known
      /\ Len1(metadata') = Before(g, Len(g)) /\ Before(g, Len(g)) \in Nat
      /\ \A v : Credits(ranges', g, Before(g, Len(g)), v)
  <2>1. PICK m \in Nat : Len1(metadata) <= m /\ Credits(ranges, g, m, recent)
    BY <1>3, <1>4
  <2> QED
    BY <1>2, <1>3, <1>4, <2>1, ReadsWell DEF DataInv, SlotsInv
<1>7. FileInv'
  BY <1>1, <1>2, <1>3, SessionFileAssumption DEF DataInv, FileInv
<1>8. SlotsInv' /\ SourcesInv' /\ AnnounceInv'
  BY <1>1, <1>2, <1>4, <1>5, <1>6
     DEF DataInv, SlotsInv, SourcesInv, AnnounceInv
<1> QED
  BY <1>2, <1>3, <1>7, <1>8 DEF DataInv, Effect

\* What another source has written is flushed and read, then the text is written
\* and read, or that fails.
LEMMA SwitchFlushesStep ==
  ASSUME WholeTexts, DataInv, origin = "generated", NEW s \in Sources, NEW t \in Texts,
         SwitchFlushes(s, t), recent' = s, origin' = origin
  PROVE  DataInv' /\ Effect
<1> DEFINE e == file \o buffer
           x == Bytes(s, t)
           g == e \o x
<1>1. /\ x \in Seq(Byte) /\ x # <<>> /\ Whole(x)
      /\ \A i \in 1 .. Len(x) : x[i].of = s
  BY BytesAre DEF Writers
<1>2. file' = g /\ buffer' = <<>>
  BY DEF SwitchFlushes
<1>3. /\ e \in Seq(Byte) /\ Whole(e) /\ Grown(file, e) /\ Len(e) \in Nat
      /\ IsSlotted(metadata, e)
      /\ \E m \in Nat : Len1(metadata) <= m /\ Credits(ranges, e, m, LastWriter)
  BY FlushedIs DEF DataInv
<1>4. LastWriter = recent /\ LastWriter' = s /\ recent \in Writers \cup {NoSource}
  BY DEF LastWriter, DataInv, FileInv, Writers
<1> HIDE DEF x
<1>5. PICK u \in Updates(e, metadata, ranges, recent) :
        \/ /\ \E v \in Updates(g, u.metadata, u.ranges, s) :
                metadata' = v.metadata /\ ranges' = v.ranges
           /\ Announces(u.metadata)
        \/ ReadFails(u.ranges) /\ Quiet
  BY <1>2 DEF SwitchFlushes
<1> HIDE DEF e
<1>6. /\ IsSlotted(u.metadata, e) /\ u.metadata.known
      /\ Len1(u.metadata) = Before(e, Len(e))
      /\ Credits(u.ranges, e, Before(e, Len(e)), recent)
  <2>1. PICK m \in Nat : Len1(metadata) <= m /\ Credits(ranges, e, m, recent)
    BY <1>3, <1>4
  <2>2. Grown(e, e)
    BY <1>3 DEF Grown
  <2> QED
    BY <1>3, <1>4, <2>1, <2>2, ReadingIs
<1>7. /\ g \in Seq(Byte) /\ Whole(g) /\ Grown(e, g) /\ Len(g) = Len(e) + Len(x)
      /\ Before(e, Len(e)) < Before(g, Len(g))
  BY <1>1, <1>3, Appends
<1>8. Credits(u.ranges, g, Before(e, Len(e)), s)
  BY <1>1, <1>3, <1>6, CreditsGrow
<1>9. g # <<>>
  BY <1>1, <1>3, <1>7
<1> HIDE DEF g
<1>10. /\ Before(e, Len(e)) \in Nat /\ Before(g, Len(g)) \in Nat /\ Len(g) \in Nat
       /\ Grown(file, g)
  <2>1. Len(e) \in Nat /\ Len(g) \in Nat
    BY <1>3, <1>7 DEF Grown
  <2>2. Before(e, Len(e)) \in Nat /\ Before(g, Len(g)) \in Nat
    BY <2>1, NewlinesBetween
  <2>3. Grown(file, g)
    BY <1>3, <1>7 DEF Grown
  <2> QED
    BY <2>1, <2>2, <2>3
<1>11. FileInv'
  BY <1>2, <1>7, <1>9, SessionFileAssumption DEF DataInv, FileInv, Whole
<1>12. CASE /\ \E v \in Updates(g, u.metadata, u.ranges, s) :
                 metadata' = v.metadata /\ ranges' = v.ranges
            /\ Announces(u.metadata)
  <2>1. PICK v \in Updates(g, u.metadata, u.ranges, s) :
          metadata' = v.metadata /\ ranges' = v.ranges
    BY <1>12
  <2>2. /\ IsSlotted(v.metadata, g) /\ v.metadata.known
        /\ Len1(v.metadata) = Before(g, Len(g))
        /\ \A w : Credits(v.ranges, g, Before(g, Len(g)), w)
    <3>1. Len1(u.metadata) <= Before(e, Len(e))
      BY <1>6, <1>10
    <3>2. s \in Writers \cup {NoSource}
      BY DEF Writers
    <3> QED
      BY <1>6, <1>7, <1>8, <1>10, <3>1, <3>2, ReadingIs
  <2>3. announced' = Len1(metadata') /\ queue' = Append(queue, UpdateOf(metadata'))
    BY <1>6, <1>7, <1>10, <1>12, <2>1, <2>2 DEF Announces
  <2>4. SlotsInv' /\ SourcesInv' /\ AnnounceInv'
    BY <1>2, <1>4, <1>9, <1>10, <2>1, <2>2, <2>3 DEF SlotsInv, SourcesInv, AnnounceInv
  <2> QED
    BY <1>2, <1>10, <1>11, <2>3, <2>4 DEF DataInv, Effect
<1>13. CASE ReadFails(u.ranges) /\ Quiet
  <2>1. /\ IsSlotted(metadata', g) /\ ~metadata'.known
        /\ Len1(metadata') = 0 /\ ranges' = u.ranges
    BY <1>10, <1>13, ReadsFail
  <2>2. SlotsInv' /\ SourcesInv' /\ AnnounceInv'
    BY <1>2, <1>4, <1>8, <1>9, <1>10, <2>1 DEF SlotsInv, SourcesInv, AnnounceInv
  <2> QED
    BY <1>2, <1>10, <1>11, <1>13, <2>2 DEF DataInv, Effect, Quiet
<1> QED
  BY <1>5, <1>12, <1>13

\* The buffer is flushed, and the read fails.
LEMMA FlushFails ==
  ASSUME DataInv, file' = file \o buffer, buffer' = <<>>, ReadFails(ranges), Quiet,
         recent' = recent, origin' = origin
  PROVE  DataInv' /\ Effect
<1> DEFINE g == file \o buffer
<1>1. /\ g \in Seq(Byte) /\ Whole(g) /\ Grown(file, g) /\ Len(g) \in Nat
      /\ \E m \in Nat : Len1(metadata) <= m /\ Credits(ranges, g, m, LastWriter)
      /\ Len1(metadata) \in Nat
  BY FlushedIs DEF DataInv
<1>2. LastWriter' = LastWriter
  BY DEF LastWriter
<1>3. g = <<>> => file = <<>>
  BY <1>1 DEF Grown, DataInv, FileInv
<1>4. file = <<>> /\ buffer = <<>> => g = <<>>
  OBVIOUS
<1> HIDE DEF g
<1>5. file' = g
  BY DEF g
<1>6. /\ IsSlotted(metadata', g) /\ ~metadata'.known
      /\ Len1(metadata') = 0 /\ ranges' = ranges
  BY <1>1, ReadsFail
<1>7. FileInv'
  BY <1>1, <1>4, <1>5 DEF DataInv, FileInv, Whole
<1>8. SlotsInv' /\ SourcesInv' /\ AnnounceInv'
  BY <1>1, <1>2, <1>3, <1>5, <1>6
     DEF DataInv, SlotsInv, SourcesInv, AnnounceInv, Quiet
<1> QED
  BY <1>1, <1>5, <1>7, <1>8 DEF DataInv, Effect, Quiet

\* It is read, and what is new is announced.
LEMMA FlushReads ==
  ASSUME DataInv, file' = file \o buffer, buffer' = <<>>,
         Reads(file', LastWriter), Announces(metadata),
         recent' = recent, origin' = origin
  PROVE  DataInv' /\ Effect
<1> DEFINE g == file \o buffer
<1>1. /\ g \in Seq(Byte) /\ Whole(g) /\ Grown(file, g) /\ Len(g) \in Nat
      /\ \E m \in Nat : Len1(metadata) <= m /\ Credits(ranges, g, m, LastWriter)
      /\ Len1(metadata) \in Nat /\ Before(g, Len(g)) \in Nat
      /\ Len1(metadata) <= Before(g, Len(g))
      /\ buffer # <<>> => Len1(metadata) < Before(g, Len(g))
  BY FlushedIs DEF DataInv
<1>2. LastWriter' = LastWriter /\ LastWriter \in Writers \cup {NoSource}
  BY DEF LastWriter, DataInv, FileInv, Writers
<1>3. g = <<>> => file = <<>>
  BY <1>1 DEF Grown, DataInv, FileInv
<1>4. file = <<>> /\ buffer = <<>> => g = <<>>
  OBVIOUS
<1> HIDE DEF g
<1>5. file' = g /\ Reads(g, LastWriter)
  BY DEF g
<1>6. /\ IsSlotted(metadata', g) /\ metadata'.known
      /\ Len1(metadata') = Before(g, Len(g))
      /\ \A v : Credits(ranges', g, Before(g, Len(g)), v)
  <2>1. PICK m \in Nat : Len1(metadata) <= m /\ Credits(ranges, g, m, LastWriter)
    BY <1>1
  <2> QED
    BY <1>1, <1>2, <1>5, <2>1, ReadsWell DEF DataInv, SlotsInv
<1>7. FileInv'
  BY <1>1, <1>4, <1>5 DEF DataInv, FileInv, Whole
<1>8. SlotsInv' /\ SourcesInv'
  BY <1>1, <1>5, <1>6 DEF SlotsInv, SourcesInv
\* Nothing new is there to be announced only if all was announced.
<1>9. announced' = Len1(metadata')
  <2>1. CASE Len1(metadata') # Len1(metadata)
    BY <2>1 DEF Announces
  <2>2. CASE Len1(metadata') = Len1(metadata)
    <3>1. buffer = <<>> /\ announced' = announced
      BY <1>1, <1>6, <2>2 DEF Announces
    <3>2. CASE metadata.known
      BY <2>2, <3>1, <3>2 DEF DataInv, AnnounceInv
    <3>3. CASE ~metadata.known
      <4>1. Len1(metadata) = 0
        BY <3>3 DEF DataInv, SlotsInv, IsSlotted, Len1
      <4>2. g = <<>>
        <5>1. Before(g, Len(g)) = 0
          BY <1>6, <2>2, <4>1
        <5>2. g # <<>> => Before(g, Len(g)) > 0
          BY <1>1, EmptyHasNoRows
        <5> QED
          BY <5>1, <5>2
      <4> QED
        BY <1>3, <2>2, <3>1, <4>1, <4>2 DEF DataInv, AnnounceInv
    <3> QED
      BY <3>2, <3>3
  <2> QED
    BY <2>1, <2>2
<1>10. g = <<>> => Len1(metadata') = 0
  BY <1>6, EmptyHasNoRows
<1>11. AnnounceInv'
  BY <1>5, <1>9, <1>10 DEF AnnounceInv
<1> QED
  BY <1>1, <1>5, <1>7, <1>8, <1>11 DEF DataInv, Effect, Announces

\* The linked file grows.
LEMMA FileGrowsStep ==
  ASSUME WholeTexts, DataInv, NEW t \in Texts, FileGrows(t)
  PROVE  DataInv' /\ Effect
<1> DEFINE x == Bytes(Observed, t)
           g == file \o x
<1>1. /\ x \in Seq(Byte) /\ x # <<>> /\ Whole(x)
      /\ \A i \in 1 .. Len(x) : x[i].of = Observed
  BY BytesAre DEF Writers
<1>2. /\ origin = "linked" /\ file' = g
      /\ UNCHANGED <<origin, buffer, recent, metadata, ranges, announced, queue>>
  BY DEF FileGrows
<1> HIDE DEF x
<1>3. file \in Seq(Byte) /\ Whole(file) /\ buffer = <<>> /\ LastWriter = Observed
  BY <1>2 DEF DataInv, FileInv, LastWriter
<1>4. /\ g \in Seq(Byte) /\ Whole(g) /\ Grown(file, g) /\ Len(g) = Len(file) + Len(x)
  BY <1>1, <1>3, Appends
<1>5. g # <<>>
  BY <1>1, <1>3, <1>4
<1>6. \E m \in Nat : Len1(metadata) <= m /\ Credits(ranges, g, m, Observed)
  <2>1. PICK m \in Nat : Len1(metadata) <= m /\ Credits(ranges, file, m, Observed)
    BY <1>3 DEF DataInv, SourcesInv
  <2> QED
    BY <1>1, <1>3, <2>1, CreditsGrow
<1> HIDE DEF g
<1>7. FileInv'
  BY <1>2, <1>4 DEF DataInv, FileInv
<1>8. SlotsInv'
  BY <1>2, <1>4, SlottedStays DEF DataInv, SlotsInv
<1>9. SourcesInv' /\ AnnounceInv'
  BY <1>2, <1>3, <1>5, <1>6 DEF DataInv, SourcesInv, AnnounceInv, LastWriter
<1> QED
  BY <1>2, <1>4, <1>7, <1>8, <1>9 DEF DataInv, Effect

\* Every write and every read keeps what is known of the file.
LEMMA DataStep ==
  ASSUME WholeTexts, DataInv,
         \/ \E s \in Sources, t \in Texts : WriteSessionFile(s, t)
         \/ \E s \in Sources : SwitchFails(s)
         \/ FlushSessionFile
         \/ \E t \in Texts : FileGrows(t)
         \/ UpdateSession
  PROVE  DataInv' /\ Effect /\ UNCHANGED search
<1>1. CASE \E s \in Sources, t \in Texts : WriteSessionFile(s, t)
  <2>1. PICK s \in Sources, t \in Texts : WriteSessionFile(s, t)
    BY <1>1
  <2>2. /\ origin = "generated" /\ recent' = s /\ origin' = origin /\ UNCHANGED search
        /\ \/ WriteKeeps(s, t) \/ WriteFlushes(s, t)
           \/ SwitchKeeps(s, t) \/ SwitchFlushes(s, t)
    BY <2>1 DEF WriteSessionFile
  <2> QED
    BY <2>2, WriteKeepsStep, WriteFlushesStep, SwitchKeepsStep, SwitchFlushesStep
<1>2. CASE \E s \in Sources : SwitchFails(s)
  BY <1>2, FlushFails DEF SwitchFails
<1>3. CASE FlushSessionFile
  <2>1. /\ origin = "generated" /\ file' = file \o buffer /\ buffer' = <<>>
        /\ recent' = recent /\ origin' = origin /\ UNCHANGED search
        /\ \/ Reads(file', recent) /\ Announces(metadata)
           \/ ReadFails(ranges) /\ Quiet
    BY <1>3 DEF FlushSessionFile
  <2>2. LastWriter = recent
    BY <2>1 DEF LastWriter
  <2> QED
    BY <2>1, <2>2, FlushFails, FlushReads
<1>4. CASE \E t \in Texts : FileGrows(t)
  BY <1>4, FileGrowsStep DEF FileGrows
<1>5. CASE UpdateSession
  <2>1. /\ origin = "linked" /\ UNCHANGED <<origin, file, buffer, recent>> /\ UNCHANGED search
        /\ \/ Reads(file, Observed) /\ Announces(metadata)
           \/ ReadFails(ranges) /\ Quiet
    BY <1>5 DEF UpdateSession, bytes
  <2>2. buffer = <<>> /\ file \in Seq(Byte)
    BY <2>1 DEF DataInv, FileInv
  <2>3. file' = file \o buffer /\ buffer' = <<>>
    BY <2>1, <2>2
  <2>4. LastWriter = Observed
    BY <2>1 DEF LastWriter
  <2> QED
    BY <2>1, <2>3, <2>4, FlushFails, FlushReads
<1> QED
  BY <1>1, <1>2, <1>3, <1>4, <1>5

\* What the searchers know stays true of the file that has grown, and what they
\* are told of it is true.
LEMMA SearchFollows ==
  ASSUME SearchInv, FileInv, DataInv', Effect, UNCHANGED search
  PROVE  SearchInv'
<1>1. asked' = asked /\ holder' = holder /\ Grown(file, file')
  BY DEF search, Effect
<1>2. Whole(file) /\ Whole(file') /\ Len(file') \in Nat
  BY DEF FileInv, DataInv, Effect, Grown
<1>3. HasFound(file', holder)
  BY <1>1, <1>2, SearchGrows DEF SearchInv
<1>4. \A rows : \A n \in Nat : IsRead(file, rows, n) => IsRead(file', rows, n)
  BY <1>1, <1>2, SearchGrows
<1>5. IsRead(file', asked.rows, asked.bytes)
  BY <1>4 DEF SearchInv
<1>6. /\ queue \in Seq(Request)
      /\ \A i \in 1 .. Len(queue) : IsRead(file', queue[i].rows, queue[i].bytes)
  <2>1. queue \in Seq(Request)
    BY DEF SearchInv
  <2>2. \A i \in 1 .. Len(queue) : queue[i].bytes \in Nat
    <3>1. \A i \in 1 .. Len(queue) : queue[i] \in Request
      BY <2>1
    <3> QED
      BY <3>1 DEF Request
  <2> QED
    BY <1>4, <2>1, <2>2 DEF SearchInv
<1>7. CASE queue' = queue
  BY <1>1, <1>3, <1>5, <1>6, <1>7 DEF SearchInv
<1>8. CASE queue' = Append(queue, UpdateOf(metadata'))
  <2> DEFINE r == UpdateOf(metadata')
  <2>1. /\ Len1(metadata') \in Nat /\ ReadBytes(metadata') \in Nat
        /\ IsRead(file', Len1(metadata'), ReadBytes(metadata'))
    BY <1>2, LengthIsRead DEF DataInv, SlotsInv
  <2>2. r \in Request /\ IsRead(file', r.rows, r.bytes)
    BY <2>1 DEF UpdateOf, Request
  <2> HIDE DEF r
  <2>3. /\ queue' \in Seq(Request)
        /\ \A i \in 1 .. Len(queue') : IsRead(file', queue'[i].rows, queue'[i].bytes)
    BY <1>6, <1>8, <2>2 DEF r
  <2> QED
    BY <1>1, <1>3, <1>5, <2>3 DEF SearchInv
<1> QED
  BY <1>7, <1>8 DEF Effect

\* The steps of a search.
LEMMA SearchStep ==
  ASSUME Inv, GetStreamLen \/ GetSearchHolder \/ ExecuteSearch \/ HandleRequest
  PROVE  Inv'
<1>1. UNCHANGED <<bytes, metadata, ranges, announced>>
  BY DEF GetStreamLen, GetSearchHolder, ExecuteSearch, HandleRequest
<1>2. (FileInv /\ SlotsInv /\ SourcesInv /\ AnnounceInv)'
  BY <1>1 DEF Inv, FileInv, SlotsInv, SourcesInv, AnnounceInv, LastWriter, bytes
<1>3. file' = file /\ Len(file) \in Nat /\ Whole(file)
  BY <1>1 DEF Inv, FileInv, bytes
<1>4. /\ asked \in [asked : BOOLEAN, rows : Nat, bytes : Nat]
      /\ IsRead(file, asked.rows, asked.bytes)
      /\ queue \in Seq(Request)
      /\ \A i \in 1 .. Len(queue) : IsRead(file, queue[i].rows, queue[i].bytes)
      /\ HasFound(file, holder)
  BY DEF Inv, SearchInv
<1>5. CASE GetStreamLen
  <2>1. /\ Len1(metadata) \in Nat /\ ReadBytes(metadata) \in Nat
        /\ IsRead(file, Len1(metadata), ReadBytes(metadata))
    BY <1>3, LengthIsRead DEF Inv, SlotsInv
  <2>2. SearchInv'
    BY <1>3, <1>4, <1>5, <2>1 DEF GetStreamLen, SearchInv
  <2> QED
    BY <1>2, <2>2 DEF Inv
<1>6. ASSUME NEW w \in {"inuse", "free"}
      PROVE  HasFound(file, [holder EXCEPT !.at = w])
  BY <1>4 DEF HasFound, Holder
<1>7. CASE GetSearchHolder
  <2>1. SearchInv'
    BY <1>3, <1>4, <1>6, <1>7 DEF GetSearchHolder, SearchInv
  <2> QED
    BY <1>2, <2>1 DEF Inv
<1>8. CASE ExecuteSearch
  <2>1. /\ holder' = SearchedTo(holder, asked.rows, asked.bytes) /\ asked' = NotAsked
        /\ queue' = Append(queue, [is |-> "return", rows |-> 0, bytes |-> 0])
    BY <1>8 DEF ExecuteSearch
  <2>2. asked.bytes \in Nat
    BY <1>4
  <2>3. HasFound(file, holder')
    BY <1>3, <1>4, <2>1, <2>2, SearchIs
  <2>4. IsRead(file, 0, 0)
    BY DEF IsRead
  <2>5. /\ queue' \in Seq(Request)
        /\ \A i \in 1 .. Len(queue') : IsRead(file, queue'[i].rows, queue'[i].bytes)
    <3> DEFINE r == [is |-> "return", rows |-> 0, bytes |-> 0]
    <3>1. r \in Request /\ IsRead(file, r.rows, r.bytes)
      BY <2>4 DEF Request
    <3> HIDE DEF r
    <3> QED
      BY <1>4, <2>1, <3>1 DEF r
  <2>6. SearchInv'
    BY <1>3, <2>1, <2>3, <2>4, <2>5 DEF SearchInv, NotAsked
  <2> QED
    BY <1>2, <2>6 DEF Inv
<1>9. CASE HandleRequest
  <2> DEFINE r == Head(queue)
  <2>1. /\ queue # <<>> /\ queue' = Tail(queue) /\ asked' = asked
        /\ holder' = IF r.is = "return" THEN [holder EXCEPT !.at = "free"]
                     ELSE IF holder.at = "free" THEN SearchedTo(holder, r.rows, r.bytes)
                     ELSE holder
    BY <1>9 DEF HandleRequest
  <2>2. r = queue[1] /\ r \in Request /\ 1 \in 1 .. Len(queue)
    BY <1>4, <2>1
  <2>3. r.bytes \in Nat /\ IsRead(file, r.rows, r.bytes)
    BY <1>4, <2>2 DEF Request
  <2> HIDE DEF r
  <2>4. HasFound(file, SearchedTo(holder, r.rows, r.bytes))
    BY <1>3, <1>4, <2>3, SearchIs
  <2>5. HasFound(file, holder')
    BY <1>4, <1>6, <2>1, <2>4
  <2>6. /\ queue' \in Seq(Request)
        /\ \A i \in 1 .. Len(queue') : IsRead(file, queue'[i].rows, queue'[i].bytes)
    <3>1. /\ Tail(queue) \in Seq(Request) /\ Len(Tail(queue)) = Len(queue) - 1
          /\ \A i \in 1 .. Len(Tail(queue)) : Tail(queue)[i] = queue[i + 1]
      BY <1>4, <2>1
    <3>2. \A i \in 1 .. Len(Tail(queue)) : i + 1 \in 1 .. Len(queue)
      BY <1>4, <3>1
    <3> QED
      BY <1>4, <2>1, <3>1, <3>2
  <2>7. SearchInv'
    BY <1>3, <1>4, <2>1, <2>5, <2>6 DEF SearchInv
  <2> QED
    BY <1>2, <2>7 DEF Inv
<1> QED
  BY <1>5, <1>7, <1>8, <1>9

\* Nothing was written or read at first.
LEMMA InvInit == Init => Inv
<1> SUFFICES ASSUME Init PROVE Inv
  OBVIOUS
<1>1. /\ origin \in {"generated", "linked"} /\ file = <<>> /\ buffer = <<>>
      /\ recent = NoSource /\ metadata = NoMetadata /\ ranges = <<>>
      /\ announced = 0 /\ queue = <<>> /\ asked = NotAsked /\ holder = Nobody
  BY SessionFileAssumption DEF Init
<1>2. FileInv
  BY <1>1 DEF FileInv, Whole
<1>3. SlotsInv /\ Len1(metadata) = 0
  BY <1>1, NothingIsSlotted DEF SlotsInv
<1>4. Before(file, Len(file)) = 0 /\ Before(file, 0) = 0
  BY <1>1, EmptyHasNoRows
<1>5. SourcesInv
  <2>1. Credits(ranges, file, 0, LastWriter)
    BY <1>1, <1>4 DEF Credits
  <2> QED
    BY <1>1, <1>3, <2>1 DEF SourcesInv
<1>6. SearchInv
  <2>1. HasFound(file, holder)
    BY <1>1, <1>4 DEF HasFound, Holder, Nobody, Begins
  <2> QED
    BY <1>1, <2>1 DEF SearchInv, NotAsked, IsRead
<1>7. AnnounceInv
  BY <1>1 DEF AnnounceInv, NoMetadata
<1> QED
  BY <1>2, <1>3, <1>5, <1>6, <1>7 DEF Inv

\* Every step keeps the invariant.
LEMMA InvStep == WholeTexts /\ Inv /\ [Next]_vars => Inv'
<1> SUFFICES ASSUME WholeTexts, Inv, [Next]_vars PROVE Inv'
  OBVIOUS
<1>1. CASE \/ \E s \in Sources, t \in Texts : WriteSessionFile(s, t)
           \/ \E s \in Sources : SwitchFails(s)
           \/ FlushSessionFile
           \/ \E t \in Texts : FileGrows(t)
           \/ UpdateSession
  <2>1. DataInv
    BY DEF Inv, DataInv
  <2>2. DataInv' /\ Effect /\ UNCHANGED search
    BY <1>1, <2>1, DataStep
  <2>3. SearchInv'
    BY <2>1, <2>2, SearchFollows DEF Inv, DataInv
  <2> QED
    BY <2>2, <2>3 DEF Inv, DataInv
<1>2. CASE GetStreamLen \/ GetSearchHolder \/ ExecuteSearch \/ HandleRequest
  BY <1>2, SearchStep
<1>3. CASE UNCHANGED vars
  BY <1>3 DEF vars, bytes, search, Inv, FileInv, SlotsInv, SourcesInv, SearchInv,
              AnnounceInv, LastWriter
<1> QED
  BY <1>1, <1>2, <1>3 DEF Next

\* What the client gets is what the invariant promises.
LEMMA RowsAreServed ==
  ASSUME Inv
  PROVE  EntriesAreRows /\ SourcesAreRight /\ FoundAreMatches /\ NothingUnannounced
<1> DEFINE n == NextByte(metadata)
<1>1. Len(file) \in Nat /\ Whole(file) /\ Covers(metadata.slots, file, n)
  BY DEF Inv, FileInv, SlotsInv, IsSlotted
<1>2. Len1(metadata) = Before(file, n) /\ Before(file, n) \in Nat
  BY <1>1, ReadIs
<1> HIDE DEF n
<1>3. EntriesAreRows
  BY <1>1, <1>2, GrabIs DEF EntriesAreRows, Rows
<1>4. SourcesAreRight
  <2> SUFFICES ASSUME NEW k \in Rows PROVE SourceOf(k) = Writer(k)
    BY DEF SourcesAreRight
  <2>1. PICK m \in Nat : Len1(metadata) <= m /\ Credits(ranges, file, m, LastWriter)
    BY DEF Inv, SourcesInv
  <2>2. k \in 0 .. m - 1
    BY <1>2, <2>1 DEF Rows
  <2>3. IsCredited(ranges, k, Author(file, k)) /\ Len(ranges) \in Nat
    BY <2>1, <2>2 DEF Credits
  <2>4. Author(file, k) = Writer(k)
    BY DEF Author, Writer, Row, LineOf
  <2> QED
    BY <2>3, <2>4, SourceIs
<1>5. FoundAreMatches
  BY DEF FoundAreMatches, Inv, SearchInv, HasFound, LineOf, Row
<1>6. NothingUnannounced
  BY DEF NothingUnannounced, Inv, AnnounceInv
<1> QED
  BY <1>3, <1>4, <1>5, <1>6

\* Whatever slots a range of rows begins and ends in, what is read of the file for
\* it are the lines with these numbers, however often the file was read and however
\* often that has failed.
THEOREM EntriesAreServed == ASSUME WholeTexts PROVE Spec => []EntriesAreRows
<1>1. Init => Inv
  BY InvInit
<1>2. Inv /\ [Next]_vars => Inv'
  BY InvStep
<1>3. Inv => EntriesAreRows
  BY RowsAreServed
<1> QED
  BY <1>1, <1>2, <1>3, PTL DEF Spec

\* Every row is credited to the source that wrote it: a range that a failed update
\* did not add is made up for by the next, which begins with rows that others have
\* written, and these are found in an earlier range.
THEOREM RowsAreCredited == ASSUME WholeTexts PROVE Spec => []SourcesAreRight
<1>1. Init => Inv
  BY InvInit
<1>2. Inv /\ [Next]_vars => Inv'
  BY InvStep
<1>3. Inv => SourcesAreRight
  BY RowsAreServed
<1> QED
  BY <1>1, <1>2, <1>3, PTL DEF Spec

\* The searches of a holder join: each match is found once, under its row.
THEOREM MatchesAreFound == ASSUME WholeTexts PROVE Spec => []FoundAreMatches
<1>1. Init => Inv
  BY InvInit
<1>2. Inv /\ [Next]_vars => Inv'
  BY InvStep
<1>3. Inv => FoundAreMatches
  BY RowsAreServed
<1> QED
  BY <1>1, <1>2, <1>3, PTL DEF Spec

\* What was read is announced, unless text waits in the buffer.
THEOREM RowsAreAnnounced == ASSUME WholeTexts PROVE Spec => []NothingUnannounced
<1>1. Init => Inv
  BY InvInit
<1>2. Inv /\ [Next]_vars => Inv'
  BY InvStep
<1>3. Inv => NothingUnannounced
  BY RowsAreServed
<1> QED
  BY <1>1, <1>2, <1>3, PTL DEF Spec

============================================================================
