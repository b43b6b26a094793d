---------------------------- MODULE IndexedRows ----------------------------
(***************************************************************************)
(* What the table of search results and bookmarks promises: it shows the   *)
(* rows that the current search found together with the rows that are      *)
(* marked, a search and the bookmarks do not disturb each other, and the   *)
(* user interface is told the size of the table after every change.        *)
(***************************************************************************)
CONSTANTS
    Rows,         \* the rows of the session file
    Size(_)       \* the number of rows in a set of rows

VARIABLES
    found,        \* the rows of the current search
    marked,       \* the rows with a bookmark
    told          \* the size the user interface knows

vars == <<found, marked, told>>

Init == found = {} /\ marked = {} /\ told = Size({})

Tells == told' = Size(found' \cup marked')

\* The search has other results, more results, or none.
Search ==
    /\ found' \in SUBSET Rows
    /\ UNCHANGED marked
    /\ Tells

\* Rows are marked, none loses its mark.
Mark ==
    /\ marked' \in SUBSET Rows
    /\ marked \subseteq marked'
    /\ UNCHANGED found
    /\ Tells

\* One row loses its mark.
Unmark ==
    /\ \E r \in Rows : marked' = marked \ {r}
    /\ UNCHANGED found
    /\ Tells

\* The session file is empty: there is nothing to show.
Empties ==
    /\ found' = {}
    /\ marked' = {}
    /\ Tells

\* A length that is not zero leaves the table alone.
Keeps ==
    /\ UNCHANGED <<found, marked>>
    /\ Tells

Next == Search \/ Mark \/ Unmark \/ Empties \/ Keeps

Spec == Init /\ [][Next]_vars
=============================================================================
