--------------------------- MODULE MCObserveFile ---------------------------
(* Small files for TLC.                                                    *)
EXTENDS ObserveFile

Message(at, len, kind) == [at |-> at, len |-> len, kind |-> kind]

\* Two bytes before the first message, a message with an attachment, one that is
\* filtered and another one.
MixedFile ==
    {Message(2, 2, "both"), Message(4, 1, "filtered"), Message(5, 2, "text")}
MixedEnd == 7
AnyError == {"incomplete", "parse", "eof", "unrecoverable"}
============================================================================
