----------------------------- MODULE MCSearchView -----------------------------
(* The first search matches all rows, the second one the last: the answer   *)
(* about the results of one is wrong in those of the other.  Three of the   *)
(* four rows are hits, with one between that is none: next, back and around *)
(* the end are different hits.                                              *)
EXTENDS SearchView

MCMatching == [o \in 1 .. MaxOps |-> IF o = 1 THEN 1 .. MaxRows ELSE {MaxRows}]
MCHits == <<{1, 2, 4}, {4}>>
MCMarkable == {1}
===============================================================================
