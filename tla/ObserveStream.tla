---------------------------- MODULE ObserveStream ----------------------------
(***************************************************************************)
(* The two loops that wait for a stream. In a session it is run_producer   *)
(* of handlers/observing/mod.rs, called by stream.rs with a channel for    *)
(* requests to the source and without a tracker of a file; in the command  *)
(* line tool it is run_session of crates/cli/src/session/socket.rs. Both   *)
(* wait in a select! whose other branches drop the call of produce_next.   *)
(*                                                                         *)
(* A step of the session is one request to the state loop and its answer,  *)
(* as in ObserveFile, which also has the failures of those requests; text  *)
(* and attachments are written in one step here.                           *)
(***************************************************************************)
EXTENDS StreamSource

CONSTANTS
    Clients,    \* which of the two loops are tried
    MaxRequests \* bound: requests to the source

ASSUME ClientsAreKnown ==
    Clients \subseteq {"session", "tool"} /\ MaxRequests \in Nat

VARIABLES
    client,     \* the loop that reads the stream
    firstRun,   \* has nothing been flushed for the first items yet?
    rows,       \* what was written: [written, shown], shown once flushed
    cancelled,  \* the cancellation token of the operation or of the tool
    closing,    \* SessionStateAPI::is_closing
    requests,   \* requests to the source: [asked, answered]
    news        \* tool: [unflushed, reconnecting] of its status line

loopVars == <<firstRun, rows, news>>
envVars == <<client, cancelled, closing>>
vars == <<sourceVars, callVars, step, parsed, collected,
          loopVars, envVars, requests>>

InSession == client = "session"
InTool == client = "tool"
Ended == {"ended", "error"}
Results == Outcomes \cup {"timeout"}
NothingCollected == [text |-> <<>>, attachments |-> <<>>]
IsAsked == requests.asked > requests.answered

Init ==
    /\ StreamInit
    /\ client \in Clients
    \* The session has no reconnecter, and the tool reads sockets.
    /\ client = "session" => transport # "retcp"
    /\ client = "tool" => IsSocket
    /\ step = "select"
    /\ skipped = 0 /\ verdict = "incomplete" /\ done = FALSE
    /\ starved = {}
    /\ parsed = {} /\ collected = NothingCollected
    /\ firstRun = TRUE
    /\ rows = [written |-> <<>>, shown |-> <<>>]
    /\ cancelled = FALSE /\ closing = FALSE
    /\ requests = [asked |-> 0, answered |-> 0]
    /\ news = [unflushed |-> FALSE, reconnecting |-> FALSE]

-----------------------------------------------------------------------------
(* The session.                                                             *)

Selects ==
    /\ step = "select"
    /\ step' = "produce"
    /\ UNCHANGED <<sourceVars, callVars, parsed, collected,
                   loopVars, envVars, requests>>

Produces ==
    /\ ProduceFromStream
    /\ UNCHANGED <<loopVars, envVars, requests>>

\* 500 ms without an answer of produce_next.
TimesOut ==
    /\ InSession /\ ~CanLoad
    /\ CallIsDropped("timeout")
    /\ UNCHANGED <<loopVars, envVars, requests>>

\* A request to the source is taken, in whatever load the call is.
TakesRequest ==
    /\ InSession /\ IsAsked
    /\ CallIsDropped("income")
    /\ UNCHANGED <<loopVars, envVars, requests>>

\* sde_income is awaited outside of the select!: while a process does not take
\* what is written to it, the loop sees neither its output nor a cancellation.
\* The other sources answer at once that they support no requests.
AnswersRequest ==
    /\ step = "income"
    /\ requests' = [requests EXCEPT !.answered = @ + 1]
    /\ step' = "select"
    /\ UNCHANGED <<sourceVars, callVars, parsed, collected,
                   loopVars, envVars>>

SeesCancel ==
    /\ cancelled
    /\ CallIsDropped("end")
    /\ UNCHANGED <<loopVars, envVars, requests>>

\* write_to_session, with what the session file makes of it: the text is flushed
\* when the last flush of it is long enough ago.
Written(text) ==
    LET r == [rows EXCEPT !.written = @ \o text]
    IN  {r} \cup (IF text # <<>> THEN {[r EXCEPT !.shown = r.written]} ELSE {})
FlushedRows(r) == [r EXCEPT !.shown = r.written]

\* Slip: a timeout only writes.
WritesWithoutTimeout ==
    /\ InSession /\ step \in {"items", "timeout", "waiting", "done"}
    /\ \E r \in Written(collected.text) :
        rows' =
            CASE step = "items" -> IF firstRun THEN FlushedRows(r) ELSE r
              [] step = "done" -> FlushedRows(r)
              [] OTHER -> r
    /\ collected' = NothingCollected
    /\ firstRun' = (firstRun /\ step # "items")
    /\ step' = (IF step \in {"items", "timeout"} THEN "select" ELSE "end")
    /\ UNCHANGED <<sourceVars, callVars, parsed, envVars, requests, news>>

\* The first items, the end and every timeout flush the rows, the last two not
\* while the session closes. A stream is not waited for once its load brought
\* nothing: there is no tracker.
Writes ==
    /\ InSession /\ step \in {"items", "timeout", "waiting", "done"}
    /\ \E r \in Written(collected.text) :
        rows' =
            CASE step = "items" -> IF firstRun THEN FlushedRows(r) ELSE r
              [] step = "done" -> FlushedRows(r)
              [] OTHER -> IF closing THEN r ELSE FlushedRows(r)
    /\ collected' = NothingCollected
    /\ firstRun' = (firstRun /\ step # "items")
    /\ step' = (IF step \in {"items", "timeout"} THEN "select" ELSE "end")
    /\ UNCHANGED <<sourceVars, callVars, parsed, envVars, requests, news>>

BreaksOnFatal ==
    /\ InSession /\ step = "fatal"
    /\ step' = "end"
    /\ UNCHANGED <<sourceVars, callVars, parsed, collected,
                   loopVars, envVars, requests>>

\* Slip: requests that wait are forgotten.
ReturnsSilently ==
    /\ InSession /\ step = "end"
    /\ step' = "ended"
    /\ DropsSource
    /\ UNCHANGED <<fileVars, transport, peerVars, callVars, parsed, collected,
                   loopVars, envVars, requests>>

\* The producer and its source are dropped, and with the receiver the requests
\* nobody will answer: their senders are told.
Returns ==
    /\ InSession /\ step = "end"
    /\ step' = "ended"
    /\ DropsSource
    /\ requests' = [requests EXCEPT !.answered = requests.asked]
    /\ UNCHANGED <<fileVars, transport, peerVars, callVars, parsed, collected,
                   loopVars, envVars>>

-----------------------------------------------------------------------------
(* The tool. Any tick and any news of the reconnecting task drops the call. *)

FlushTicks ==
    /\ InTool
    /\ CallIsDropped("select")
    /\ news.unflushed
    /\ news' = [news EXCEPT !.unflushed = FALSE]
    /\ rows' = FlushedRows(rows)
    /\ UNCHANGED <<firstRun, envVars, requests>>

\* The status line, and a flush tick with nothing to flush.
UpdateTicks ==
    /\ InTool
    /\ CallIsDropped("select")
    /\ UNCHANGED <<loopVars, envVars, requests>>

\* The watch channel keeps the last state of the task only.
HearsOfTask ==
    /\ InTool /\ Yields /\ ~watch.seen
    /\ step' = "select"
    /\ watch' = [watch EXCEPT !.seen = TRUE]
    /\ news' =
        [news EXCEPT !.reconnecting =
            CASE watch.state = "reconnecting" -> TRUE
              [] watch.state = "connected" -> FALSE
              [] watch.state = "failed" -> @]
    /\ UNCHANGED <<fileVars, transport, peerVars, handle, task, callVars,
                   parsed, collected, firstRun, rows, envVars, requests>>

\* Every record is written to the output, which is buffered.
WritesRecords ==
    /\ InTool /\ step = "items"
    /\ rows' = [rows EXCEPT !.written = @ \o collected.text]
    /\ news' = [news EXCEPT !.unflushed = @ \/ collected.text # <<>>]
    /\ collected' = NothingCollected
    /\ step' = "select"
    /\ UNCHANGED <<sourceVars, callVars, parsed, firstRun, envVars, requests>>

\* The buffered writer and the source are dropped with the loop. An error of
\* the source or the parser is the result of the tool.
ToolReturns ==
    /\ InTool /\ step \in {"waiting", "done", "fatal", "end"}
    /\ step' = (IF step = "fatal" THEN "error" ELSE "ended")
    /\ rows' = FlushedRows(rows)
    /\ DropsSource
    /\ UNCHANGED <<fileVars, transport, peerVars, callVars, parsed, collected,
                   firstRun, news, envVars, requests>>

-----------------------------------------------------------------------------
(* The environment.                                                         *)

Asks ==
    /\ InSession /\ requests.asked < MaxRequests /\ step \notin Ended
    /\ requests' = [requests EXCEPT !.asked = @ + 1]
    /\ UNCHANGED <<sourceVars, callVars, step, parsed, collected,
                   loopVars, envVars>>

Cancels ==
    /\ ~cancelled
    /\ cancelled' = TRUE
    /\ UNCHANGED <<sourceVars, callVars, step, parsed, collected,
                   loopVars, client, closing, requests>>

Closing ==
    /\ InSession /\ ~closing
    /\ closing' = TRUE
    /\ UNCHANGED <<sourceVars, callVars, step, parsed, collected,
                   loopVars, client, cancelled, requests>>

Environment ==
    \/ Asks \/ Cancels \/ Closing
    \/ (Peers \/ ReadFails) /\ UNCHANGED <<loopVars, envVars, requests>>

TaskRuns == Reconnects /\ UNCHANGED <<loopVars, envVars, requests>>

Loop ==
    \/ Selects \/ Produces \/ Writes \/ BreaksOnFatal \/ Returns
    \/ WritesRecords \/ ToolReturns

Next ==
    \/ Loop \/ TaskRuns
    \/ TimesOut \/ TakesRequest \/ AnswersRequest \/ SeesCancel
    \/ FlushTicks \/ UpdateTicks \/ HearsOfTask
    \/ Environment

Spec == Init /\ [][Next]_vars

\* The runtime polls the loop and the task; timers expire. A branch of a
\* select! that is ready again and again is taken in the end: the order in
\* which they are polled is random, and a call that waits drops out of their
\* way. A process takes in the end what is written to it: this is the one
\* assumption about a peer.
Fairness ==
    /\ WF_vars(Loop) /\ WF_vars(TaskRuns)
    /\ SF_vars(TimesOut) /\ SF_vars(TakesRequest) /\ WF_vars(AnswersRequest)
    /\ SF_vars(SeesCancel) /\ SF_vars(FlushTicks) /\ SF_vars(HearsOfTask)
    \* A call that has something to load is not dropped for ever.
    /\ SF_vars(Produces)
FairSpec == Spec /\ Fairness

-----------------------------------------------------------------------------
(* Properties.                                                              *)

\* A message that was sent whole is left behind only with an item for it, and
\* what was parsed is written once and in the order of the stream, and shown from
\* the beginning: a dropped call neither loses nor repeats a row.
RowsFollowTheStream ==
    /\ WholeMessagesKept
    /\ rows.written \o collected.text = InFileOrder(Rows(parsed))
    /\ \E n \in 0 .. Len(rows.written) :
        rows.shown = SubSeq(rows.written, 1, n)

IsSent(m) == size >= m.at + m.len
IsShown(m) == \E i \in DOMAIN rows.shown : rows.shown[i] = m
\* What keeps a message from being shown: an error of the source, which ends the
\* loop of a session without a flush, and the end of the first pipe of a process
\* belong to it.
Stopped ==
    \/ cancelled \/ closing \/ emptied > 0 \/ readFailed
    \/ transport \in {"serial", "process"} /\ "out" \notin open
    \/ task.at = "failed" \/ step = "error"

\* Every message that was sent whole is shown in the end, at the latest by the
\* next timeout or tick and also when the peer closes right behind it.
SentIsShown ==
    \A m \in Rows(Messages) :
        Fits(m) => (IsSent(m) ~> IsShown(m) \/ Stopped)

\* The loop returns when it is cancelled, when a read failed, and when the peer
\* has closed and does not come back, whatever is ticking or asked for.
LoopReturns ==
    (\/ cancelled \/ readFailed
     \/ transport \notin {"udp", "retcp"} /\ "out" \notin open)
        ~> step \in Ended

\* A request to the source is answered or turned down while the stream goes on
\* and when it ends.
RequestsAnswered == IsAsked ~> ~IsAsked
=============================================================================
