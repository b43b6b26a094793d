------------------------ MODULE MCSessionLifecycle ------------------------
(* Small sessions for TLC.                                                 *)
EXTENDS SessionLifecycle, TLC

CONSTANTS op1, op2, op3,   \* requests
          id1, id3         \* ids

\* Two operations fight for one id, one of them an Extract that may be
\* rejected after it was registered, and a client aborts that id.
CancelRequests == {op1, op2, op3}
CancelUuids == {id1, id3}
CancelIdOf == op1 :> id1 @@ op2 :> id1 @@ op3 :> id3
CancelKind == op1 :> "work" @@ op2 :> "extract" @@ op3 :> "cancel"
CancelTarget == [r \in CancelRequests |-> id1]

\* The same with one operation, to leave room for temporal checking.
AbortRequests == {op1, op3}
AbortUuids == {id1, id3}
AbortIdOf == op1 :> id1 @@ op3 :> id3
AbortKind == op1 :> "work" @@ op3 :> "cancel"
AbortTarget == op1 :> id1 @@ op3 :> id1
===========================================================================
