------------------------- MODULE MCSearchProtocol -------------------------
(* Small sessions for TLC.                                                 *)
EXTENDS SearchProtocol, TLC

CONSTANTS s1, s2, d1   \* searches and drops

\* A search is applied, then dropped and replaced, as a changed filter does.
ReapplyRequests == {s1, d1, s2}
ReapplyScript == <<s1, d1, s2>>
ReapplyTarget == s1 :> None @@ d1 :> s1 @@ s2 :> None
Reapplied == s1 :> "filters" @@ d1 :> "drop" @@ s2 :> "filters"

\* A search for values, while the file may fail to be read, is replaced by one
\* whose filters are not valid.
Refused == [Reapplied EXCEPT ![s2] = "badfilters"]

SearchPlans ==
    {[asked |-> Reapplied, kind |-> "regular", ioMayFail |-> FALSE],
     [asked |-> Refused, kind |-> "values", ioMayFail |-> TRUE]}
===========================================================================
