-------------------------- MODULE MCSessionExport --------------------------
(* Three rows in one, two or three files. *)
EXTENDS SessionExport

Whole(q) == [batches |-> q, ends |-> "done"]
Broken(q) == [batches |-> q, ends |-> "broken"]

\* Sections that end within a batch and at its end, things that are no rows, a
\* section that ends before a file that is read to its end in batches of two,
\* a file without rows, and files whose end the parser refuses.
OneFile == <<Whole(<< <<"row", "other", "row">>, <<"row", "row", "row">> >>)>>
TwoFiles == <<Whole(<< <<"row", "row">>, <<"other">>, <<"row", "row">> >>), Whole(<< <<"row">> >>)>>
RowByRow == <<Whole(<< <<"row">>, <<"row">> >>), Whole(<< <<"row">>, <<"row">>, <<"row">> >>)>>
ThreeFiles == <<Whole(<< <<"row", "row">> >>), Whole(<<>>), Whole(<< <<"other", "row">>, <<"row", "row">> >>)>>
BrokenFiles == <<Whole(<< <<"row">> >>), Broken(<< <<"row", "row">> >>), Whole(<< <<"row", "row">> >>)>>
LastBroken == <<Whole(<< <<"row", "row">> >>), Broken(<< <<"row", "row">>, <<"row">> >>)>>

MCObservations == {OneFile, TwoFiles, RowByRow, ThreeFiles, BrokenFiles, LastBroken}

\* The sections of a set of rows, and two that are not compacted.
Runs(R) ==
  {s \in [first : R, last : R] :
     /\ s.first .. s.last \subseteq R /\ s.first <= s.last
     /\ s.first - 1 \notin R /\ s.last + 1 \notin R}
Neighbours == {[first |-> 0, last |-> 1], [first |-> 2, last |-> 3]}
MCSelections == {Runs(R) : R \in (SUBSET (0 .. 4)) \ {{}}} \cup {Neighbours}
=============================================================================
