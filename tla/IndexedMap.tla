----------------------------- MODULE IndexedMap -----------------------------
(***************************************************************************)
(* The index of a session: the table of the rows that the search found and *)
(* of the rows with a bookmark (crates/core/session/src/state/indexes).    *)
(* It is kept twice: a hash map from a row to its nature, and a vector of  *)
(* the same rows that is sorted only when somebody reads by position.      *)
(* Sorting is lazy and guarded by a flag; rows are removed by draining     *)
(* ranges of the vector or, beyond two limits, by taking all keys of the   *)
(* hash map again, in the order of the hash.                               *)
(*                                                                         *)
(* Data: rows arrive as a set. Matches come in the order of the file,      *)
(* bookmarks in any order.                                                 *)
(***************************************************************************)
EXTENDS Integers, Sequences, FiniteSets

CONSTANTS
    Rows,              \* the rows of the session file
    RangesLimit,       \* RANGES_LIMIT: more rows are not made into ranges
    IterationsLimit    \* KEYS_ITERATIONS_LIMIT: nor are rows in more ranges

ASSUME RowsAreFinite == Rows \subseteq Nat /\ IsFiniteSet(Rows)
ASSUME LimitsAreSizes == RangesLimit \in Nat /\ IterationsLimit \in Nat

VARIABLES
    map,      \* [indexes: row -> nature, keys: sequence of rows, sorted: flag]
    told,     \* the length in the last IndexedMapUpdated event
    reply     \* the last question about positions and its answer

vars == <<map, told, reply>>

None == -1
Natures == {"search", "bookmark"}
Directions == {"previous", "next"}
NoReply == [op |-> "none"]

-----------------------------------------------------------------------------
(* Keys.                                                                    *)

ValuesOf(q) == {q[i] : i \in DOMAIN q}
Distinct(q) == \A i, j \in DOMAIN q : q[i] = q[j] => i = j
Increasing(q) == \A i, j \in DOMAIN q : i < j => q[i] < q[j]

\* The sequences that hold each row of S once.
Orders ==
    [S \in SUBSET Rows |->
        {q \in [1 .. Cardinality(S) -> S] : ValuesOf(q) = S /\ Distinct(q)}]

\* What sort_unstable makes of q: the same elements, in order.
Permuted ==
    [n \in 0 .. Cardinality(Rows) |->
        {p \in [1 .. n -> 1 .. n] : ValuesOf(p) = 1 .. n /\ Distinct(p)}]
Sortings(q) ==
    {s \in {[i \in 1 .. Len(q) |-> q[p[i]]] : p \in Permuted[Len(q)]} :
        \A i, j \in 1 .. Len(q) : i < j => s[i] <= s[j]}

\* Keys::sort: what the map is once its keys are sorted.
Sorted(m) ==
    IF m.sorted THEN {m}
    ELSE {[m EXCEPT !.keys = s, !.sorted = TRUE] : s \in Sortings(m.keys)}

\* What a binary search for p says: how many keys are below p, and is p there.
Below(q, p) == Cardinality({i \in DOMAIN q : q[i] < p})
Holds(q, p) == p \in ValuesOf(q)

-----------------------------------------------------------------------------
(* The map.                                                                 *)

Shown(m) == DOMAIN m.indexes
With(m, nature) == {r \in Shown(m) : nature \in m.indexes[r]}

\* Rows whose successor is not in S: each ends one of the ranges of S.
Ends(S) == {r \in S : r + 1 \notin S}

\* Map::as_ranges gives up: too many rows, or too many ranges before the last.
TooMany(S) ==
    \/ Cardinality(S) > RangesLimit
    \/ Cardinality(Ends(S)) > 1 /\ Cardinality(Ends(S)) - 1 >= IterationsLimit

\* Map::indexes_remove. Draining the ranges leaves the other keys in order; a
\* range that is not among the keys, like too many ranges, makes the map take
\* the keys of the hash map, in any order.
Without(m, S) ==
    LET left == [r \in Shown(m) \ S |-> m.indexes[r]]
        drained == {q \in Orders[ValuesOf(m.keys) \ S] : Increasing(q)}
        rebuilt == Orders[Shown(m) \ S]
    IN  IF ~TooMany(S) /\ S \subseteq ValuesOf(m.keys)
        THEN {[indexes |-> left, keys |-> q, sorted |-> TRUE] : q \in drained}
        ELSE {[indexes |-> left, keys |-> q, sorted |-> FALSE] : q \in rebuilt}

\* Slip: a row that loses one nature leaves the map, whatever else it has.
ExcludedWhole(m, S, nature) == Without(m, {r \in S \cap Shown(m) : nature \in m.indexes[r]})

\* Map::remove and Map::clean: the rows of S lose a nature, and those that
\* have no other leave the map.
Excluded(m, S, nature) ==
    LET kept == [m EXCEPT !.indexes =
                    [r \in Shown(m) |-> IF r \in S THEN m.indexes[r] \ {nature}
                                        ELSE m.indexes[r]]]
    IN  Without(kept, {r \in S \cap Shown(m) : m.indexes[r] \subseteq {nature}})

Cleaned(m, nature) == Excluded(m, Shown(m), nature)

\* The order in which the rows of S come: matches as they are in the file.
Arrivals(S, nature) ==
    IF nature = "search" THEN {q \in Orders[S] : Increasing(q)} ELSE Orders[S]

\* Map::insert: rows that are there gain a nature, the others are pushed.
Inserted(m, S, nature) ==
    {[indexes |-> [r \in Shown(m) \cup S |->
                      (IF r \in Shown(m) THEN m.indexes[r] ELSE {})
                      \cup (IF r \in S THEN {nature} ELSE {})],
      keys |-> m.keys \o new,
      sorted |-> m.sorted /\ new = <<>>] :
         new \in Arrivals(S \ Shown(m), nature)}

-----------------------------------------------------------------------------
(* Controller: every change is followed by notify().                        *)

\* Types of the state; there are never more keys than rows.
TypeOK ==
    /\ Shown(map) \subseteq Rows
    /\ \A r \in Shown(map) : map.indexes[r] \subseteq Natures
    /\ \E n \in 0 .. Cardinality(Rows) : map.keys \in [1 .. n -> Rows]
    /\ map.sorted \in BOOLEAN
    /\ told \in 0 .. Cardinality(Rows)

Init ==
    /\ map = [indexes |-> [r \in {} |-> {}], keys |-> <<>>, sorted |-> FALSE]
    /\ told = 0
    /\ reply = NoReply

Becomes(m) ==
    /\ map' = m
    /\ told' = Cardinality(Shown(m))
    /\ reply' = NoReply

AddBookmark(r) == \E m \in Inserted(map, {r}, "bookmark") : Becomes(m)

SetBookmarks(S) == \E m \in Inserted(map, S, "bookmark") : Becomes(m)

RemoveBookmark(r) == \E m \in Excluded(map, {r}, "bookmark") : Becomes(m)

SetSearchResults(S) ==
    \E m \in Cleaned(map, "search") : \E n \in Inserted(m, S, "search") : Becomes(n)

AppendSearchResults(S) == \E m \in Inserted(map, S, "search") : Becomes(m)

DropSearch == \E m \in Cleaned(map, "search") : Becomes(m)

\* Only an empty session file changes the map.
SetStreamLen(len) ==
    Becomes(IF len = 0
            THEN [indexes |-> [r \in {} |-> {}], keys |-> <<>>, sorted |-> map.sorted]
            ELSE map)

-----------------------------------------------------------------------------
(* Questions. All but the ranges sort the keys first.                       *)

Asks(m, r) == map' = m /\ reply' = r /\ UNCHANGED told

IndexOf(q, p) == IF Holds(q, p) THEN Below(q, p) ELSE None

IndexedRowIndex(p) ==
    \E m \in Sorted(map) : Asks(m, [op |-> "index", row |-> p, got |-> IndexOf(m.keys, p)])

\* Slip: of two rows at the same distance the upper one.
NearestUpper(q, p) ==
    LET i == Below(q, p)
    IN  IF q = <<>> THEN None
        ELSE IF Holds(q, p) \/ i = 0 THEN i
        ELSE IF i = Len(q) THEN i - 1
        ELSE IF p - q[i] < q[i + 1] - p THEN i - 1 ELSE i

\* Keys::nearest_index; q[i + 1] is the key of index i.
Nearest(q, p) ==
    LET i == Below(q, p)
    IN  IF q = <<>> THEN None
        ELSE IF Holds(q, p) \/ i = 0 THEN i
        ELSE IF i = Len(q) THEN i - 1
        ELSE IF p - q[i] <= q[i + 1] - p THEN i - 1 ELSE i

NearestIndexedRow(p) ==
    \E m \in Sorted(map) : Asks(m, [op |-> "nearest", row |-> p, got |-> Nearest(m.keys, p)])

\* Keys::neighbor
Neighbor(q, anchor, direction) ==
    LET below == Below(q, anchor)
        next == IF Holds(q, anchor) THEN below + 1 ELSE below
    IN  IF anchor = None THEN q[1]
        ELSE IF direction = "next" THEN IF next < Len(q) THEN q[next + 1] ELSE q[1]
        ELSE IF below > 0 THEN q[below] ELSE q[Len(q)]

IndexedNeighbor(anchor, direction) ==
    LET Answer(got) == [op |-> "neighbor", anchor |-> anchor, direction |-> direction, got |-> got]
    IN  IF map.keys = <<>> THEN Asks(map, Answer(None))
        ELSE \E m \in Sorted(map) : Asks(m, Answer(Neighbor(m.keys, anchor, direction)))

\* Map::frame; a frame that reaches beyond the map is refused.
Frame(from, to) ==
    LET Answer(got) == [op |-> "frame", from |-> from, to |-> to, got |-> got]
    IN  IF to >= Cardinality(Shown(map)) THEN Asks(map, Answer(<<>>))
        ELSE \E m \in Sorted(map) :
                Asks(m, Answer([i \in 1 .. to - from + 1 |->
                                  [row |-> m.keys[from + i],
                                   nature |-> m.indexes[m.keys[from + i]]]]))

\* Keys::as_ranges over the keys as they are: the longest runs of positions
\* whose keys follow each other.
Follows(q, i) == i + 1 \in DOMAIN q /\ q[i + 1] = q[i] + 1
Runs(q) ==
    {run \in (DOMAIN q) \X (DOMAIN q) :
        /\ run[1] <= run[2]
        /\ \A i \in run[1] .. run[2] - 1 : Follows(q, i)
        /\ run[1] > 1 => ~Follows(q, run[1] - 1)
        /\ ~Follows(q, run[2])}

AsRanges(q) == {[from |-> q[run[1]], to |-> q[run[2]]] : run \in Runs(q)}

GetIndexedRanges == Asks(map, [op |-> "ranges", got |-> AsRanges(map.keys)])

-----------------------------------------------------------------------------
Changes ==
    \/ \E r \in Rows : AddBookmark(r) \/ RemoveBookmark(r)
    \/ \E S \in SUBSET Rows : SetBookmarks(S) \/ SetSearchResults(S) \/ AppendSearchResults(S)
    \/ DropSearch
    \/ \E len \in {0, 1} : SetStreamLen(len)

Questions ==
    \/ \E p \in Rows : IndexedRowIndex(p) \/ NearestIndexedRow(p)
    \/ \E anchor \in Rows \cup {None}, direction \in Directions : IndexedNeighbor(anchor, direction)
    \/ \E from, to \in 0 .. Cardinality(Rows) : from <= to /\ Frame(from, to)
    \/ GetIndexedRanges

\* The state loop handles one message at a time; its caller takes the reply.
Replied == reply # NoReply /\ reply' = NoReply /\ UNCHANGED <<map, told>>

Next ==
    \/ reply = NoReply /\ (Changes \/ Questions)
    \/ Replied

Spec == Init /\ [][Next]_vars

-----------------------------------------------------------------------------
(* Properties.                                                              *)

\* The vector of keys holds the rows of the hash map, each once: what a frame
\* reads by position in the one it finds in the other (map.rs:215-238).
KeysAreRows == ValuesOf(map.keys) = Shown(map) /\ Distinct(map.keys)

\* The flag never claims an order that the keys do not have; a binary search
\* over keys that only claim to be sorted misses rows (keys.rs:45-48, 70-80).
FlagIsTrue == map.sorted => Increasing(map.keys)

\* A row stays in the map only as long as it has a nature; one left behind
\* without would still be counted and shown (map.rs:130-141, 188-197).
NoRowWithoutNature == \A r \in Shown(map) : map.indexes[r] # {}

\* The two halves of the map agree after every change and every question,
\* also when the vector is rebuilt from the hash map.
MapIsConsistent == KeysAreRows /\ FlagIsTrue /\ NoRowWithoutNature

\* The map implements the table of found and marked rows: replacing, extending
\* and dropping a search keeps every bookmark, bookmarks keep every match, and
\* the length that is announced is the size of the table (controller.rs:26-62).
Table == INSTANCE IndexedRows WITH
            found <- With(map, "search"), marked <- With(map, "bookmark"),
            Size <- Cardinality
IsTheTable == Table!Spec

\* What the answers must be, in terms of the rows that are shown.
Lower(S, p) == {r \in S : r < p}
Least(S) == CHOOSE r \in S : \A x \in S : r <= x
Greatest(S) == CHOOSE r \in S : \A x \in S : r >= x
Distance(a, b) == IF a < b THEN b - a ELSE a - b

\* Every question about positions is answered as the table says: the row of
\* an index and the index of a row are inverse, the nearest row is no further
\* than any other and the lower one of two, navigation visits the next row and
\* wraps, and a frame shows rows and natures in order (keys.rs:83-161).
AnswersAreRight ==
    LET S == Shown(map)
    IN  CASE reply.op = "index" ->
               reply.got = IF reply.row \in S THEN Cardinality(Lower(S, reply.row)) ELSE None
          [] reply.op = "nearest" ->
               IF S = {} THEN reply.got = None
               ELSE \E r \in S :
                      /\ reply.got = Cardinality(Lower(S, r))
                      /\ \A x \in S : \/ Distance(r, reply.row) < Distance(x, reply.row)
                                      \/ Distance(r, reply.row) = Distance(x, reply.row) /\ r <= x
          [] reply.op = "neighbor" ->
               LET above == {r \in S : r > reply.anchor}
                   lower == Lower(S, reply.anchor)
               IN  reply.got =
                     IF S = {} THEN None
                     ELSE IF reply.anchor = None THEN Least(S)
                     ELSE IF reply.direction = "next"
                     THEN Least(IF above = {} THEN S ELSE above)
                     ELSE Greatest(IF lower = {} THEN S ELSE lower)
          [] reply.op = "frame" ->
               IF reply.to >= Cardinality(S) THEN reply.got = <<>>
               ELSE /\ Len(reply.got) = reply.to - reply.from + 1
                    /\ \A i \in DOMAIN reply.got :
                         /\ reply.got[i].row \in S
                         /\ Cardinality(Lower(S, reply.got[i].row)) = reply.from + i - 1
                         /\ reply.got[i].nature = map.indexes[reply.got[i].row]
          [] OTHER -> TRUE

=============================================================================
