---------------------------- MODULE StreamSource ----------------------------
(***************************************************************************)
(* The sources that wait for what a peer sends (crates/core/sources):      *)
(* TCP with and without reconnecting, UDP, a serial port and the two pipes *)
(* of a process. A load is where a call of produce_next yields, so it is   *)
(* where the loop that called it may drop the call: for a timeout, for a   *)
(* request to the source or for any other branch of its select!.           *)
(*                                                                         *)
(* The stream is the bytes in the order in which they are read; `size` is  *)
(* how many the peers have sent and `pos` how many were read. Bytes come   *)
(* in chunks: what one read of a TCP socket returns, a datagram, a line.   *)
(* One chunk for each read is no restriction: a chunk may have any size.   *)
(***************************************************************************)
EXTENDS MessageProducer

CONSTANTS
    Transports,    \* the transports that are tried
    Datagram,      \* MAX_DATAGRAM_SIZE
    LineLength,    \* the bytes of a line of a process or a serial port
    MaxLines,      \* bound: lines
    MaxEmpty,      \* bound: datagrams of no bytes
    MaxLosses,     \* bound: connections that are lost
    MaxAttempts    \* ReconnectInfo::max_attempts

KnownTransports == {"tcp", "retcp", "udp", "serial", "process"}
ASSUME TransportsAreKnown == Transports \subseteq KnownTransports
ASSUME ChunksFit ==
    /\ Datagram \in 1 .. Capacity
    /\ LineLength \in 1 .. Capacity
    /\ MaxLines \in Nat /\ MaxEmpty \in Nat /\ MaxLosses \in Nat
    /\ MaxAttempts \in Nat \ {0}

VARIABLES
    transport,   \* what the stream is read from; "retcp" is TCP that reconnects
    unread,      \* the chunks that wait on each pipe: a socket has only "out"
    open,        \* the pipes that the peer still writes to
    losses,      \* how many connections were lost
    emptied,     \* how many empty datagrams were sent
    handle,      \* TcpReconnecter::task_handle is there
    task,        \* the reconnecting task: [at, attempts]
    watch        \* the state channel of the task: [state, seen]

peerVars == <<unread, open, losses, emptied>>
reconnectVars == <<handle, task, watch>>
sourceVars == <<fileVars, transport, peerVars, reconnectVars>>

Pipes == {"out", "err"}
Used == IF transport = "process" THEN Pipes ELSE {"out"}
LoadSteps == {"produce", "more", "reload"}
Running == {"trying", "sleeping"}
NoTask == [at |-> "none", attempts |-> 0]

StreamInit ==
    /\ size = 0 /\ pos = 0 /\ consumed = 0 /\ buffer = NewBuffer
    /\ readFailed = FALSE
    /\ transport \in Transports
    /\ unread = [p \in Pipes |-> <<>>]
    /\ open = Used
    /\ losses = 0 /\ emptied = 0
    /\ handle = FALSE /\ task = NoTask
    /\ watch = [state |-> "connected", seen |-> TRUE]

-----------------------------------------------------------------------------
(* Loading.                                                                 *)

\* Slip: nothing is flushed.
RoomNotMade(b) == b

\* handle_buff_capacity: a socket makes room only when a whole datagram might
\* not fit, and does without loading when that is not enough.
RoomMade(b) == IF Writable(b) < Datagram THEN Flushed(b) ELSE b
AlmostFull == Writable(RoomMade(buffer)) < Datagram

IsSocket == transport \in {"tcp", "retcp", "udp"}

\* A chunk is written behind the others; what does not fit is cut off. The
\* sockets have made room before, the sources of lines have not.
LoadsFrom(p) ==
    LET b == IF IsSocket THEN RoomMade(buffer) ELSE buffer
        n == Head(unread[p])
        written == IF n < Writable(b) THEN n ELSE Writable(b)
    IN  /\ ~handle
        /\ IsSocket => ~AlmostFull
        /\ unread[p] # <<>>
        /\ unread' = [unread EXCEPT ![p] = Tail(@)]
        /\ buffer' = Filled(b, pos, written)
        /\ pos' = pos + n
        /\ UNCHANGED <<size, consumed, readFailed>>

\* Slip: a process has ended only when both of its pipes have.
BothEnded == (\A p \in Used : unread[p] = <<>>) /\ open = {}

\* The output of the peer was read to its end. The end of the other pipe of a
\* process is not awaited.
OutputEnded == unread["out"] = <<>> /\ "out" \notin open

\* The load returns at once without a byte: a socket whose buffer is almost
\* full, and a TCP connection or a process whose output has ended.
LoadsNothing ==
    /\ \/ IsSocket /\ AlmostFull
       \/ /\ transport \in {"tcp", "process"}
          /\ ~(IsSocket /\ AlmostFull)
          /\ OutputEnded
    /\ buffer' = (IF IsSocket THEN RoomMade(buffer) ELSE buffer)
    /\ UNCHANGED <<size, pos, consumed, readFailed, unread>>

\* n bytes are newly loaded.
LoadsChunk(n) ==
    \/ n > 0 /\ \E p \in Used :
        unread[p] # <<>> /\ Head(unread[p]) = n /\ LoadsFrom(p)
    \/ /\ n = 0 /\ transport = "udp" /\ unread["out"] # <<>>
       /\ Head(unread["out"]) = 0 /\ LoadsFrom("out")
    \/ n = 0 /\ LoadsNothing

\* A load of produce_next, from where it was called.
Loads ==
    /\ step \in LoadSteps
    /\ \E n \in 0 .. Capacity :
        /\ LoadsChunk(n)
        /\ step' =
            CASE step = "produce" -> "parse"
              [] step = "more" -> IF n > 0 THEN "parse" ELSE "drop"
              [] step = "reload" -> IF n > 0 THEN "parse" ELSE "waiting"
    /\ skipped' = (IF step = "produce" THEN 0 ELSE skipped)
    /\ UNCHANGED <<transport, open, losses, emptied, reconnectVars,
                   verdict, done, starved, parsed, collected>>

\* A load that is awaited has nothing to return yet.
CanLoad ==
    \/ IsSocket /\ AlmostFull
    \/ ~handle /\ \E p \in Used : unread[p] # <<>>
    \/ ~handle /\ transport # "udp" /\ OutputEnded
    \/ handle /\ task.at \in {"connected", "failed"}

-----------------------------------------------------------------------------
(* Reconnecting (socket/tcp/reconnect.rs), inside a load: the loop of the   *)
(* load looks for the handle of the task first and reads the socket then.   *)

LoadsOfTcp == step \in LoadSteps /\ transport = "retcp" /\ ~AlmostFull

Tells(s) == watch' = [state |-> s, seen |-> FALSE]

\* spawn_reconnect.
SpawnsReconnect ==
    /\ LoadsOfTcp /\ ~handle /\ OutputEnded
    /\ handle' = TRUE
    /\ task' = [at |-> "trying", attempts |-> 1]
    /\ Tells("reconnecting")
    /\ UNCHANGED <<fileVars, transport, peerVars, callVars, step,
                   parsed, collected>>

\* The task has a new connection, and the load goes on with it.
TakesConnection ==
    /\ LoadsOfTcp /\ handle /\ task.at = "connected"
    /\ handle' = FALSE /\ task' = NoTask
    /\ UNCHANGED <<fileVars, transport, peerVars, watch, callVars, step,
                   parsed, collected>>

\* The task gave up: the load fails, and the loop that waits for it ends. The
\* handle is left behind.
GivesUp ==
    /\ LoadsOfTcp /\ handle /\ task.at = "failed"
    /\ step' = "fatal"
    /\ UNCHANGED <<fileVars, transport, peerVars, reconnectVars, callVars,
                   parsed, collected>>

\* A serial port whose stream has ended is an error of the source.
PortFails ==
    /\ step \in LoadSteps /\ transport = "serial" /\ OutputEnded
    /\ step' = "fatal"
    /\ UNCHANGED <<fileVars, transport, peerVars, reconnectVars, callVars,
                   parsed, collected>>

\* Any read of a source may fail: of a socket or a pipe, or because a line is no
\* text. The load returns the error and the loop ends. A connection that is reset
\* is one that the peer closes when there is a reconnecter, and fails here only
\* if the error comes while the load waits for the socket.
ReadFails ==
    /\ ReadMayFail
    /\ step \in LoadSteps /\ ~handle
    /\ ~(IsSocket /\ AlmostFull)
    /\ step' = "fatal"
    /\ readFailed' = TRUE
    /\ UNCHANGED <<size, pos, buffer, consumed, transport, peerVars,
                   reconnectVars, callVars, parsed, collected>>

\* reconnect: an attempt succeeds or fails; the last one that fails ends the
\* task, another one is followed by a pause.
Connects ==
    /\ task.at = "trying"
    /\ task' = [task EXCEPT !.at = "connected"]
    /\ open' = {"out"}
    /\ Tells("connected")
    /\ UNCHANGED <<unread, losses, emptied, handle>>

ConnectFails ==
    /\ task.at = "trying"
    /\ IF task.attempts >= MaxAttempts
       THEN task' = [task EXCEPT !.at = "failed"] /\ Tells("failed")
       ELSE task' = [task EXCEPT !.at = "sleeping"] /\ UNCHANGED watch
    /\ UNCHANGED <<peerVars, handle>>

TriesAgain ==
    /\ task.at = "sleeping"
    /\ task' = [at |-> "trying", attempts |-> task.attempts + 1]
    /\ Tells("reconnecting")
    /\ UNCHANGED <<peerVars, handle>>

Reconnects ==
    /\ Connects \/ ConnectFails \/ TriesAgain
    /\ UNCHANGED <<fileVars, transport, callVars, step, parsed, collected>>

\* TcpReconnecter is dropped with the source: its task is aborted.
DropsSource ==
    /\ handle' = FALSE
    /\ task' = (IF handle THEN NoTask ELSE task)
    /\ UNCHANGED watch

-----------------------------------------------------------------------------
(* A call of produce_next, with the loads of a stream, and its end.         *)

ProduceFromStream ==
    \/ Loads \/ SpawnsReconnect \/ TakesConnection \/ GivesUp \/ PortFails
    \/ /\ \/ HasNoBytes \/ ParsesItems \/ DropsByte
          \/ SaysIncomplete \/ SaysParseError \/ SaysEof \/ SaysUnrecoverable
       /\ UNCHANGED <<transport, peerVars, reconnectVars>>

Yields == step = "produce" \/ (step \in LoadSteps /\ ~CanLoad)

\* Slip: the handle is taken out of the reconnecter before it is awaited.
CallIsDroppedWithHandle(s) ==
    /\ Yields
    /\ step' = s
    /\ handle' = FALSE
    /\ UNCHANGED <<fileVars, transport, peerVars, task, watch, callVars,
                   parsed, collected>>

\* The call is dropped before it is polled or where it awaits its load, and the
\* loop goes on with s. What was loaded is in the buffer, and the handle is in
\* the reconnecter. (That something arrives at the same time is the same as that
\* it arrives later.)
CallIsDropped(s) ==
    /\ Yields
    /\ step' = s
    /\ UNCHANGED <<sourceVars, callVars, parsed, collected>>

-----------------------------------------------------------------------------
(* The peers.                                                               *)

Boundaries ==
    {b \in 0 .. FileEnd : \A m \in Messages : ~(m.at < b /\ b < m.at + m.len)}

Chunks ==
    CASE ~IsSocket -> {LineLength}
      [] transport = "udp" -> 0 .. Datagram
      [] OTHER -> 1 .. Datagram

Sends(p, n) ==
    /\ p \in open /\ n \in Chunks /\ size + n <= FileEnd
    /\ n = 0 => emptied < MaxEmpty
    /\ transport = "udp" => size + n \in Boundaries
    /\ ~IsSocket => size + n <= MaxLines * LineLength
    /\ size' = size + n
    /\ unread' = [unread EXCEPT ![p] = Append(@, n)]
    /\ emptied' = (IF n = 0 THEN emptied + 1 ELSE emptied)
    /\ UNCHANGED <<pos, buffer, consumed, readFailed, open, losses>>

\* A server that is reconnected to begins with a whole message: a connection
\* that comes back was lost between two.
Closes(p) ==
    /\ p \in open /\ transport # "udp"
    /\ transport = "retcp" => losses < MaxLosses /\ size \in Boundaries
    /\ open' = open \ {p}
    /\ losses' = (IF transport = "retcp" THEN losses + 1 ELSE losses)
    /\ UNCHANGED <<fileVars, unread, emptied>>

Peers ==
    /\ \E p \in Used : (\E n \in 0 .. Capacity : Sends(p, n)) \/ Closes(p)
    /\ UNCHANGED <<transport, reconnectVars, callVars, step, parsed, collected>>

-----------------------------------------------------------------------------

\* A message that still leaves room for a datagram when all but one of its bytes
\* are in the buffer, or one line.
Fits(m) ==
    IF IsSocket THEN m.len - 1 + Datagram <= Capacity
    ELSE m.len = LineLength /\ \E k \in 0 .. MaxLines : m.at = k * LineLength

\* Whatever calls were dropped in whichever load, a message that was sent whole
\* is left behind only with an item for it. (A datagram of no bytes, which a load
\* cannot tell from the end of the stream, may cost a message, and so does one
\* that does not fit.)
WholeMessagesKept ==
    \A m \in Messages :
        m.at < consumed /\ m.at + m.len <= size /\ Fits(m) =>
            m \in parsed \/ emptied > 0

\* There is never a reconnecting task that no load will await: spawn_reconnect
\* never finds one that is still there, and none outlives its source.
EveryTaskIsHeld == task.at # "none" <=> handle
=============================================================================
