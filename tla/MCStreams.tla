------------------------------ MODULE MCStreams ------------------------------
(* Short streams for TLC.                                                    *)
EXTENDS ObserveStream

Message(at, len, kind) == [at |-> at, len |-> len, kind |-> kind]

\* The third message does not fit: it has more bytes than the buffer of a socket
\* takes in before it is almost full.
LongMessage ==
    {Message(0, 1, "text"), Message(1, 2, "text"), Message(3, 3, "text")}
AllTransports == {"tcp", "retcp", "udp", "serial", "process"}
BothClients == {"session", "tool"}
ParseErrors == {"incomplete", "parse"}
==============================================================================
