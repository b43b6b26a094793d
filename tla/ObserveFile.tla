---------------------------- MODULE ObserveFile ----------------------------
(***************************************************************************)
(* A binary file is observed while it grows: the loop that produces        *)
(* messages and writes them into the session file (run_source and          *)
(* run_producer in handlers/observing/mod.rs, LogsWriter), the tracker of  *)
(* the file's size that wakes it at the end of the file (tail/mod.rs), and *)
(* what the session shows of its session file (state/session_file.rs).     *)
(* observe_file joins the first two: the operation ends when both have.    *)
(*                                                                         *)
(* Loading from a file never yields, so the 500 ms timeout around a call   *)
(* of produce_next cannot fire: Next::Timeout is a matter of streams. The  *)
(* state loop answers each request of this operation before the operation  *)
(* goes on, so a request and its answer are one step; no other operation   *)
(* writes. A file that is truncated is seen by the tracker as a failure.   *)
(***************************************************************************)
EXTENDS MessageProducer

CONSTANTS
    WholeWrites,   \* is the file only ever extended by whole messages?
    TrackMayFail   \* may asking for the size of the file fail?

ASSUME SwitchesAreKnown == {WholeWrites, TrackMayFail} \subseteq BOOLEAN

VARIABLES
    firstRun,   \* has nothing been flushed for the first items yet?
    session,    \* the session: [rows, shown, attachments]
    cancelled,  \* the operation's cancellation token
    closing,    \* SessionStateAPI::is_closing
    stateUp,    \* does the state loop still answer?
    tracker,    \* tail::track: [at, size]
    signal      \* how many updates wait in the channel of capacity 1

loopVars == <<firstRun, session>>
envVars == <<cancelled, closing, stateUp>>
tailVars == <<tracker, signal>>
vars == <<fileVars, callVars, step, parsed, collected,
          loopVars, envVars, tailVars>>

Ended == {"ended", "failed"}
Steps ==
    {"start", "select", "flushFirst", "flush", "tell", "tail"}
        \cup ProducerSteps \cup Outcomes \cup Ended
TrackerSteps == {"start", "sleep", "send", "done"}
NothingCollected == [text |-> <<>>, attachments |-> <<>>]

\* The lengths at which the file ends with a whole message.
Boundaries ==
    {b \in 0 .. FileEnd : \A m \in Messages : ~(m.at < b /\ b < m.at + m.len)}

Init ==
    /\ FileInit
    /\ WholeWrites => size \in Boundaries
    /\ step = "start"
    /\ skipped = 0 /\ verdict = "incomplete" /\ done = FALSE
    /\ starved = {}
    /\ parsed = {} /\ collected = NothingCollected
    /\ firstRun = TRUE
    /\ session = [rows |-> <<>>, shown |-> <<>>, attachments |-> <<>>]
    /\ cancelled = FALSE /\ closing = FALSE /\ stateUp = TRUE
    /\ tracker = [at |-> "start", size |-> 0]
    /\ signal = 0

-----------------------------------------------------------------------------
(* The loop. A request that fails ends it with an error; run_source then    *)
(* cancels the operation, so that the tracker ends as well.                 *)

\* set_session_file(None), and the operation counts as processing.
Begins ==
    /\ step = "start" /\ stateUp
    /\ step' = "select"
    /\ UNCHANGED <<fileVars, callVars, parsed, collected,
                   loopVars, envVars, tailVars>>

\* select! polls its branches in any order: a call of produce_next is ready at
\* once, and a cancellation that was asked for may or may not be seen first.
Selects ==
    /\ step = "select"
    /\ step' \in {"produce"} \cup (IF cancelled THEN {"ended"} ELSE {})
    /\ UNCHANGED <<fileVars, callVars, parsed, collected,
                   loopVars, envVars, tailVars>>

Produces ==
    /\ ProduceNext
    /\ UNCHANGED <<loopVars, envVars, tailVars>>

\* An unrecoverable error ends the loop, and not as an error.
BreaksOnFatal ==
    /\ step = "fatal"
    /\ step' = "ended"
    /\ UNCHANGED <<fileVars, callVars, parsed, collected,
                   loopVars, envVars, tailVars>>

\* Slip: the session file is written from its beginning.
RowsReplaced(text) == {[session EXCEPT !.rows = text]}

\* What SessionFile::write makes of the session: the text stays in its
\* BufWriter until the next flush, which is due every 500 ms.
RowsWritten(text) ==
    LET s == [session EXCEPT !.rows = @ \o text]
    IN  {s, [s EXCEPT !.shown = s.rows]}

\* LogsWriter::write_to_session: first the text, if there is any...
WritesText ==
    /\ step \in {"items", "done", "waiting"}
    /\ collected.text # <<>> /\ stateUp
    /\ session' \in RowsWritten(collected.text)
    /\ collected' = [collected EXCEPT !.text = <<>>]
    /\ UNCHANGED <<fileVars, callVars, step, parsed,
                   firstRun, envVars, tailVars>>

\* After the first items and at the end of the file the rows are flushed, unless
\* the session closes.
AfterWrite ==
    CASE step = "items" -> IF firstRun THEN "flushFirst" ELSE "select"
      [] step = "done" -> "flush"
      [] step = "waiting" -> IF closing THEN "tail" ELSE "flush"

\* ... and then the attachments, which are only queued.
SendsAttachments ==
    /\ step \in {"items", "done", "waiting"}
    /\ collected.text = <<>>
    /\ stateUp \/ collected.attachments = <<>>
    /\ session' = [session EXCEPT !.attachments = @ \o collected.attachments]
    /\ collected' = NothingCollected
    /\ step' = AfterWrite
    /\ firstRun' = (firstRun /\ step # "items")
    /\ UNCHANGED <<fileVars, callVars, parsed, envVars, tailVars>>

\* flush_session_file: what was written so far becomes rows of the session.
\* The users are shown some rows at once; later flushes come at the end of the
\* file.
Flushes ==
    /\ step \in {"flushFirst", "flush"} /\ stateUp
    /\ session' = [session EXCEPT !.shown = session.rows]
    /\ step' = (IF step = "flush" THEN "tell" ELSE "select")
    /\ UNCHANGED <<fileVars, callVars, parsed, collected,
                   firstRun, envVars, tailVars>>

\* file_read: the client is told that the file was read to its end.
TellsFileRead ==
    /\ step = "tell" /\ stateUp
    /\ step' = (IF done THEN "ended" ELSE "tail")
    /\ UNCHANGED <<fileVars, callVars, parsed, collected,
                   loopVars, envVars, tailVars>>

\* The loop waits for the tracker; it ends when the tracker has, or when the
\* operation is cancelled.
WakesFromTail ==
    /\ step = "tail"
    /\ \/ signal = 1 /\ signal' = 0 /\ step' = "select"
       \/ signal = 0 /\ tracker.at = "done" /\ step' = "ended" /\ UNCHANGED signal
       \/ cancelled /\ step' = "ended" /\ UNCHANGED signal
    /\ UNCHANGED <<fileVars, callVars, parsed, collected,
                   loopVars, envVars, tracker>>

\* A request to a state loop that is gone fails. The text that was taken out of
\* the writer for it is lost.
RequestFails ==
    /\ ~stateUp
    /\ \/ step \in {"start", "flushFirst", "flush", "tell"}
       \/ step \in {"items", "done", "waiting"} /\ collected # NothingCollected
    /\ step' = "failed"
    /\ cancelled' = TRUE
    /\ collected' = [collected EXCEPT !.text = <<>>]
    /\ UNCHANGED <<fileVars, callVars, parsed, loopVars,
                   closing, stateUp, tailVars>>

Loop ==
    \/ Begins \/ Selects \/ Produces \/ BreaksOnFatal
    \/ WritesText \/ SendsAttachments \/ Flushes \/ TellsFileRead
    \/ WakesFromTail \/ RequestFails

-----------------------------------------------------------------------------
(* The tracker. The receiver of its channel is dropped when the loop ends.  *)

TakesBaseline ==
    /\ tracker.at = "start"
    /\ tracker' = [at |-> "sleep", size |-> size]
    /\ UNCHANGED signal

\* Every second the size is asked for, unless the operation was cancelled.
SeesGrowth ==
    /\ tracker.at = "sleep" /\ ~cancelled
    /\ size # tracker.size
    /\ tracker' = [at |-> "send", size |-> size]
    /\ UNCHANGED signal

\* Slip: an update that nobody waits for is not kept.
SendsWhenAwaited ==
    /\ tracker.at = "send"
    /\ step \notin Ended /\ signal = 0
    /\ signal' = (IF step = "tail" THEN 1 ELSE 0)
    /\ tracker' = [tracker EXCEPT !.at = "sleep"]

\* The update is sent when there is room for it. While it waits for room the
\* tracker does not look at the cancellation.
SendsUpdate ==
    /\ tracker.at = "send"
    /\ step \notin Ended /\ signal = 0
    /\ signal' = 1
    /\ tracker' = [tracker EXCEPT !.at = "sleep"]

\* Slip: the receiver is kept when the loop ends.
TrackerEndsOnCancel ==
    /\ tracker.at = "sleep" /\ cancelled
    /\ tracker' = [tracker EXCEPT !.at = "done"]
    /\ UNCHANGED signal

TrackerEnds ==
    /\ \/ tracker.at = "sleep" /\ cancelled
       \/ tracker.at = "send" /\ step \in Ended
    /\ tracker' = [tracker EXCEPT !.at = "done"]
    /\ UNCHANGED signal

Tracks ==
    /\ TakesBaseline \/ SeesGrowth \/ SendsUpdate \/ TrackerEnds
    /\ UNCHANGED <<fileVars, callVars, step, parsed, collected,
                   loopVars, envVars>>

\* The file is gone or was truncated: the tracker ends, and its sender with it.
TrackFails ==
    /\ TrackMayFail
    /\ tracker.at \in {"start", "sleep"}
    /\ tracker' = [tracker EXCEPT !.at = "done"]
    /\ UNCHANGED <<fileVars, callVars, step, parsed, collected,
                   loopVars, envVars, signal>>

\* join! of the two: the operation's handler returns.
HandlerReturned == step \in Ended /\ tracker.at = "done"

-----------------------------------------------------------------------------
(* The environment.                                                         *)

FileGrows ==
    /\ \E n \in 1 .. FileEnd :
        /\ Grow(n)
        /\ WholeWrites => size + n \in Boundaries
    /\ UNCHANGED <<callVars, step, parsed, collected,
                   loopVars, envVars, tailVars>>

\* The client aborts the operation.
Aborts ==
    /\ ~cancelled
    /\ cancelled' = TRUE
    /\ UNCHANGED <<fileVars, callVars, step, parsed, collected,
                   loopVars, closing, stateUp, tailVars>>

\* SessionStateAPI::close_session says that the session closes before it has
\* the operations cancelled.
Closes ==
    /\ ~closing
    /\ closing' = TRUE
    /\ UNCHANGED <<fileVars, callVars, step, parsed, collected,
                   loopVars, cancelled, stateUp, tailVars>>

\* The state loop ends: on request once the session closes, or with an error.
StateEnds ==
    /\ stateUp
    /\ stateUp' = FALSE
    /\ UNCHANGED <<fileVars, callVars, step, parsed, collected,
                   loopVars, cancelled, closing, tailVars>>

Environment == FileGrows \/ TrackFails \/ Aborts \/ Closes \/ StateEnds

Next == Loop \/ Tracks \/ Environment

Spec == Init /\ [][Next]_vars

\* The runtime polls both halves of the join; timers expire.
Fairness == WF_vars(Loop) /\ WF_vars(Tracks)
FairSpec == Spec /\ Fairness

-----------------------------------------------------------------------------
(* Properties.                                                              *)

\* As long as no request has failed, the rows of the session and those on
\* their way to it are the messages that were parsed, once each and in the
\* order of the file; the same holds for the attachments.  An attachment is
\* "sent only after the text buffer is flushed" (handlers/observing/
\* logs_writer.rs:15-16): the session never has one whose row it does not have.
RowsFollowTheFile ==
    /\ step # "failed" =>
        /\ session.rows \o collected.text = InFileOrder(Rows(parsed))
        /\ session.attachments \o collected.attachments =
            InFileOrder(Attachments(parsed))
    /\ \A i \in DOMAIN session.attachments :
        session.attachments[i].kind = "both" =>
            \E j \in DOMAIN session.rows : session.rows[j] = session.attachments[i]

IsWritten(m) == size >= m.at + m.len
\* The tracker has seen that the file grew, or will when it looks again, and the
\* loop has yet to be woken for it.
IsNews ==
    signal = 1 \/ tracker.at = "send" \/ (tracker.at = "sleep" /\ tracker.size # size)
IsAnnounced(m) == IsWritten(m) /\ (step = "start" \/ IsNews)
IsShown(m) == \E i \in DOMAIN session.shown : session.shown[i] = m
Stopped == cancelled \/ closing \/ step \in Ended
\* A failed read was taken for the end of the file.
StopsShort == step = "tail" /\ readFailed /\ ~IsNews

\* The messages that are in the file when it is opened are shown in the end, and
\* those that are in it when it has grown, the ones an earlier failed read left
\* unread among them: however the growth of the file, the polls of the tracker,
\* the one update its channel holds and the wake-ups of the loop interleave, and
\* unless the loop is stopped, the message lost a byte to a failed read, or a
\* failed read ends the reading once more.
GrowthIsShown ==
    \A m \in Rows(Messages) :
        IsAnnounced(m) ~>
            IsShown(m) \/ Stopped \/ m \in starved \/ StopsShort

\* A cancelled operation returns: neither the loop nor the tracker, which may
\* be blocked by the full channel, keeps the other waiting.
CancelReturns == cancelled ~> HandlerReturned

=============================================================================
