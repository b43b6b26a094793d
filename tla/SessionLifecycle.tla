-------------------------- MODULE SessionLifecycle --------------------------
(***************************************************************************)
(* The life of one session of the core: clients hand operations to the     *)
(* operations loop (session/src/operations.rs), the loop registers each in *)
(* the operation tracker (session/src/tracker.rs) and spawns its task, and *)
(* Session::new (session/src/session.rs) joins the three loops with the    *)
(* watchdog that ends a session which does not shut down in time.          *)
(*                                                                         *)
(* Processes: the client (Submit, Drop and one Stop per caller), the       *)
(* operations loop, the tracker loop, the state loop, one task for every   *)
(* operation, and the watchdog.  The channels into the operations loop and *)
(* the tracker are unbounded and FIFO; a oneshot response is reply[r] for  *)
(* the request r that waits for it, "lost" once its sender was dropped.    *)
(***************************************************************************)
EXTENDS Naturals, Sequences

CONSTANTS
    Requests,   \* the Operation values clients will ever send
    Uuids,      \* operation ids
    IdOf,       \* IdOf[r]: the id of the operation r (ids may be reused)
    Kind,       \* Kind[r]: how the task of r behaves, one of Kinds
    Target,     \* Target[r]: the id a "cancel" request names
    Callers,    \* concurrent callers of Session::stop
    None        \* no request

Kinds == {"work",      \* a handler that honours its cancellation token
          "extract",   \* needs the session file before its task is spawned
          "cancel"}    \* OperationKind::Cancel

ASSUME ConstantsAssumption ==
    /\ IdOf \in [Requests -> Uuids]
    /\ Kind \in [Requests -> Kinds]
    /\ Target \in [Requests -> Uuids]
    /\ None \notin Requests

VARIABLES
    rxOps,       \* operations channel: requests and the End operation (None)
    opsLoop,     \* where the operations loop is
    current,     \* the request the operations loop is registering
    task,        \* task[r]: where the request r is
    outcome,     \* outcome[r]: the final event finish() has built for r
    events,      \* events[r]: callback events sent for r, in order
    canceler,    \* requests whose cancellation_token is cancelled
    done,        \* requests whose done_token is cancelled
    rxTracker,   \* tracker channel
    tracker,     \* where the tracker loop is
    tracked,     \* the tracker's HashMap: tracked[u] is a request or None
    victim,      \* the operation whose done_token the tracker awaits
    asker,       \* the cancel request the tracker will answer
    toCancel,    \* ids CancelAll still has to visit
    reply,       \* reply[r]: the oneshot response r waits for
    replyAll,    \* the oneshot response of CancelAll
    closing,     \* SessionStateAPI::closing_token
    stateLoop,   \* where the state loop is
    destroying,  \* Session::destroying
    destroyed,   \* Session::destroyed
    forced,      \* whether the watchdog has aborted the session task
    stop,        \* stop[c]: where the caller c is inside Session::stop
    handle,      \* whether a client still holds the Session
    confirmed    \* history: <<c, v>> when the tracker answered to c that v
                 \* was cancelled

opsVars     == <<rxOps, opsLoop, current, closing>>
taskVars    == <<task, outcome, events>>
tokenVars   == <<canceler, done>>
trackerVars == <<rxTracker, tracker, tracked, victim, asker, toCancel, confirmed>>
replyVars   == <<reply, replyAll>>
sessionVars == <<stateLoop, destroying, destroyed, forced, stop, handle>>
vars == <<opsVars, taskVars, tokenVars, trackerVars, replyVars, sessionVars>>

End == None
NoId == [u \in Uuids |-> None]

Outcomes == {"done", "error"}
Replies  == {"none", "true", "false", "lost"}
Commands == [cmd : {"Add", "Remove", "Cancel"}, req : Requests]
              \cup [cmd : {"CancelAll", "Shutdown"}, req : {None}]

OpsOpen     == opsLoop \notin {"done", "aborted"}
TrackerOpen == tracker \notin {"done", "aborted"}
Ids         == {u \in Uuids : tracked[u] # None}

\* The requests whose oneshot sender sits in the tracker's channel.
Enqueued == {rxTracker[i].req : i \in DOMAIN rxTracker} \ {None}

\* UnboundedSender::send to the tracker, then awaiting the response: the
\* response is lost at once when the tracker has dropped its receiver.
AskTracker(cmd, r) ==
    IF TrackerOpen
    THEN /\ rxTracker' = Append(rxTracker, [cmd |-> cmd, req |-> r])
         /\ UNCHANGED reply
    ELSE /\ reply' = [reply EXCEPT ![r] = "lost"]
         /\ UNCHANGED rxTracker

Emit(r, event) == events' = [events EXCEPT ![r] = Append(@, event)]

\* The End operation is sent, unless the operations loop has ended.
SendEnd == rxOps' = IF OpsOpen THEN Append(rxOps, End) ELSE rxOps

\* The tracker takes a command of this kind.
TrackerHas(cmd) ==
    /\ tracker = "recv"
    /\ rxTracker # <<>>
    /\ Head(rxTracker).cmd = cmd
    /\ rxTracker' = Tail(rxTracker)

\* Whoever waits for an answer the dropped receiver still holds loses it.
LoseReplies(lost) ==
    reply' = [r \in Requests |-> IF r \in lost THEN "lost" ELSE reply[r]]

Init ==
    /\ rxOps = <<>>
    /\ opsLoop = "recv"
    /\ current = None
    /\ task = [r \in Requests |-> "idle"]
    /\ outcome = [r \in Requests |-> "done"]
    /\ events = [r \in Requests |-> <<>>]
    /\ canceler = {}
    /\ done = {}
    /\ rxTracker = <<>>
    /\ tracker = "recv"
    /\ tracked = NoId
    /\ victim = None
    /\ asker = None
    /\ toCancel = {}
    /\ reply = [r \in Requests |-> "none"]
    /\ replyAll = "none"
    /\ closing = FALSE
    /\ stateLoop = "running"
    /\ destroying = FALSE
    /\ destroyed = FALSE
    /\ forced = FALSE
    /\ stop = [c \in Callers |-> "idle"]
    /\ handle = "held"
    /\ confirmed = {}

-----------------------------------------------------------------------------
(* Plausible slips in the code: each stands for a mutant of the definition *)
(* it is named after and breaks a property below.                          *)

\* insert() instead of filling a vacant entry only.
TrackerAddsOver ==
    /\ TrackerHas("Add")
    /\ LET r == Head(rxTracker).req
       IN /\ tracked' = [tracked EXCEPT ![IdOf[r]] = r]
          /\ reply' = [reply EXCEPT ![r] = "true"]
    /\ UNCHANGED <<opsVars, taskVars, tokenVars, tracker, victim, asker,
                   toCancel, confirmed, replyAll, sessionVars>>

\* The answer to a registration is dropped.
TrackerAddsSilently ==
    /\ TrackerHas("Add")
    /\ LET r == Head(rxTracker).req
           vacant == tracked[IdOf[r]] = None
       IN /\ tracked' = IF vacant THEN [tracked EXCEPT ![IdOf[r]] = r] ELSE tracked
          /\ reply' = IF vacant THEN reply ELSE [reply EXCEPT ![r] = "false"]
    /\ UNCHANGED <<opsVars, taskVars, tokenVars, tracker, victim, asker,
                   toCancel, confirmed, replyAll, sessionVars>>

\* finish() confirms before it emits.
FinishConfirmsEarly(r) ==
    /\ task[r] = "finishing"
    /\ task' = [task EXCEPT ![r] = IF ~closing /\ r \notin canceler
                                   THEN "leaving" ELSE "emitting"]
    /\ done' = done \cup {r}
    /\ UNCHANGED <<opsVars, outcome, events, canceler, trackerVars,
                   replyVars, sessionVars>>

\* CancelAll forgets the entries that are there.
TrackerCancelsNone ==
    /\ TrackerHas("CancelAll")
    /\ tracker' = "cancelAll"
    /\ toCancel' = {}
    /\ UNCHANGED <<opsVars, taskVars, tokenVars, tracked, victim, asker,
                   confirmed, replyVars, sessionVars>>

\* The join does not wait for the state loop.
LoopsJoinedEarly ==
    /\ opsLoop = "done"
    /\ tracker = "done"
    /\ ~destroyed
    /\ destroyed' = TRUE
    /\ UNCHANGED <<opsVars, taskVars, tokenVars, trackerVars, replyVars,
                   stateLoop, destroying, forced, stop, handle>>

\* The watchdog waits for the operations loop before it counts.
WatchdogTooPatient ==
    /\ opsLoop = "done"
    /\ destroying
    /\ ~destroyed
    /\ forced' = TRUE
    /\ destroyed' = TRUE
    /\ UNCHANGED <<opsVars, taskVars, tokenVars, trackerVars, replyVars,
                   stateLoop, destroying, stop, handle>>

-----------------------------------------------------------------------------
(* The client: Session::observe, apply_search_filters, ..., abort.         *)

Submit(r) ==
    /\ handle = "held"
    /\ task[r] = "idle"
    /\ IF OpsOpen
       THEN /\ task' = [task EXCEPT ![r] = "queued"]
            /\ rxOps' = Append(rxOps, r)
       ELSE /\ task' = [task EXCEPT ![r] = "refused"]
            /\ UNCHANGED rxOps
    /\ UNCHANGED <<opsLoop, current, closing, outcome, events, tokenVars,
                   trackerVars, replyVars, sessionVars>>

\* Session::stop: the two early returns.
StopChecks(c) ==
    /\ handle = "held"
    /\ stop[c] = "idle"
    /\ stop' = [stop EXCEPT ![c] = CASE destroyed  -> "returned"
                                     [] destroying /\ ~destroyed -> "waiting"
                                     [] OTHER      -> "marking"]
    /\ UNCHANGED <<opsVars, taskVars, tokenVars, trackerVars, replyVars,
                   stateLoop, destroying, destroyed, forced, handle>>

\* send_stop_signal: destroying first, the End operation after it.
StopMarks(c) ==
    /\ stop[c] = "marking"
    /\ destroying' = TRUE
    /\ stop' = [stop EXCEPT ![c] = "sending"]
    /\ UNCHANGED <<opsVars, taskVars, tokenVars, trackerVars, replyVars,
                   stateLoop, destroyed, forced, handle>>

StopSends(c) ==
    /\ stop[c] = "sending"
    /\ SendEnd
    /\ stop' = [stop EXCEPT ![c] = "waiting"]
    /\ UNCHANGED <<opsLoop, current, closing, taskVars, tokenVars,
                   trackerVars, replyVars, stateLoop, destroying, destroyed,
                   forced, handle>>

StopReturns(c) ==
    /\ stop[c] = "waiting"
    /\ destroyed
    /\ stop' = [stop EXCEPT ![c] = "returned"]
    /\ UNCHANGED <<opsVars, taskVars, tokenVars, trackerVars, replyVars,
                   stateLoop, destroying, destroyed, forced, handle>>

\* Drop for Session: no caller borrows the session any more.
DropSession ==
    /\ handle = "held"
    /\ \A c \in Callers : stop[c] \in {"idle", "returned"}
    /\ handle' = "dropped"
    /\ IF destroyed
       THEN UNCHANGED <<rxOps, destroying>>
       ELSE /\ destroying' = TRUE
            /\ SendEnd
    /\ UNCHANGED <<opsLoop, current, closing, taskVars, tokenVars,
                   trackerVars, replyVars, stateLoop, destroyed, forced, stop>>

-----------------------------------------------------------------------------
(* operations::run and the part of OperationAPI::execute it awaits.        *)

\* The loop takes an operation and asks the tracker to add it.
OpsRecv ==
    /\ opsLoop = "recv"
    /\ rxOps # <<>>
    /\ Head(rxOps) # End
    /\ LET r == Head(rxOps) IN
        /\ current' = r
        /\ task' = [task EXCEPT ![r] = "adding"]
        /\ AskTracker("Add", r)
    /\ rxOps' = Tail(rxOps)
    /\ opsLoop' = "adding"
    /\ UNCHANGED <<closing, outcome, events, tokenVars, tracker, tracked,
                   victim, asker, toCancel, confirmed, replyAll, sessionVars>>

\* add_operation answered true: spawn the task, unless an Extract finds no
\* session file (or no state loop): the operation then stays in the tracker.
OpsSpawn ==
    /\ opsLoop = "adding"
    /\ reply[current] = "true"
    /\ Kind[current] = "extract" => stateLoop # "done"
    /\ task' = [task EXCEPT ![current] = "spawned"]
    /\ reply' = [reply EXCEPT ![current] = "none"]
    /\ opsLoop' = "recv"
    /\ current' = None
    /\ UNCHANGED <<rxOps, closing, outcome, events, tokenVars, trackerVars,
                   replyAll, sessionVars>>

\* execute() returns an error and the loop emits it: the id is taken, the
\* tracker is gone, or an Extract got no session file.
OpsReject ==
    /\ opsLoop = "adding"
    /\ \/ reply[current] \in {"false", "lost"}
       \/ reply[current] = "true" /\ Kind[current] = "extract"
    /\ task' = [task EXCEPT ![current] = "rejected"]
    /\ Emit(current, "error")
    /\ reply' = [reply EXCEPT ![current] = "none"]
    /\ opsLoop' = "recv"
    /\ current' = None
    /\ UNCHANGED <<rxOps, closing, outcome, tokenVars, trackerVars, replyAll,
                   sessionVars>>

\* End: close_session marks the session as closing and awaits CancelAll.
OpsEnd ==
    /\ opsLoop = "recv"
    /\ rxOps # <<>>
    /\ Head(rxOps) = End
    /\ rxOps' = Tail(rxOps)
    /\ closing' = TRUE
    /\ opsLoop' = "closing"
    /\ IF TrackerOpen
       THEN /\ rxTracker' = Append(rxTracker, [cmd |-> "CancelAll", req |-> None])
            /\ UNCHANGED replyAll
       ELSE /\ replyAll' = "lost"
            /\ UNCHANGED rxTracker
    /\ UNCHANGED <<current, taskVars, tokenVars, tracker, tracked, victim,
                   asker, toCancel, confirmed, reply, sessionVars>>

\* CancelAll is answered: the rest of close_session, then both shutdowns;
\* the receiver of the operations channel is dropped with what it holds.
OpsFinish ==
    /\ opsLoop = "closing"
    /\ replyAll # "none"
    /\ opsLoop' = "done"
    /\ rxOps' = <<>>
    /\ rxTracker' = IF TrackerOpen
                    THEN Append(rxTracker, [cmd |-> "Shutdown", req |-> None])
                    ELSE rxTracker
    /\ stateLoop' = IF stateLoop = "running" THEN "shutdown" ELSE stateLoop
    /\ UNCHANGED <<current, closing, taskVars, tokenVars, tracker, tracked,
                   victim, asker, toCancel, confirmed, replyVars, destroying,
                   destroyed, forced, stop, handle>>

-----------------------------------------------------------------------------
(* The task of an operation: OperationAPI::execute's spawned block.        *)

TaskStarts(r) ==
    /\ task[r] = "spawned"
    /\ Emit(r, "started")
    /\ task' = [task EXCEPT ![r] = "running"]
    /\ UNCHANGED <<opsVars, outcome, tokenVars, trackerVars, replyVars,
                   sessionVars>>

\* The handler returns Ok or Err and finish() builds its final event.
HandlerReturns(r, result) ==
    /\ task[r] = "running"
    /\ Kind[r] \in {"work", "extract"}
    /\ task' = [task EXCEPT ![r] = "finishing"]
    /\ outcome' = [outcome EXCEPT ![r] = result]
    /\ UNCHANGED <<opsVars, events, tokenVars, trackerVars, replyVars,
                   sessionVars>>

\* OperationKind::Cancel: the task asks the tracker and awaits its answer.
CancelAsks(r) ==
    /\ task[r] = "running"
    /\ Kind[r] = "cancel"
    /\ task' = [task EXCEPT ![r] = "canceling"]
    /\ AskTracker("Cancel", r)
    /\ UNCHANGED <<opsVars, outcome, events, tokenVars, tracker, tracked,
                   victim, asker, toCancel, confirmed, replyAll, sessionVars>>

CancelAnswered(r) ==
    /\ task[r] = "canceling"
    /\ reply[r] # "none"
    /\ outcome' = [outcome EXCEPT ![r] = IF reply[r] = "true" THEN "done"
                                                              ELSE "error"]
    /\ reply' = [reply EXCEPT ![r] = "none"]
    /\ task' = [task EXCEPT ![r] = "finishing"]
    /\ UNCHANGED <<opsVars, events, tokenVars, trackerVars, replyAll,
                   sessionVars>>

\* finish(): an operation nobody cancels takes itself out of the tracker.
FinishChecks(r) ==
    /\ task[r] = "finishing"
    /\ task' = [task EXCEPT ![r] = IF ~closing /\ r \notin canceler
                                   THEN "leaving" ELSE "emitting"]
    /\ UNCHANGED <<opsVars, outcome, events, tokenVars, trackerVars,
                   replyVars, sessionVars>>

FinishLeaves(r) ==
    /\ task[r] = "leaving"
    /\ task' = [task EXCEPT ![r] = "removing"]
    /\ AskTracker("Remove", r)
    /\ UNCHANGED <<opsVars, outcome, events, tokenVars, tracker, tracked,
                   victim, asker, toCancel, confirmed, replyAll, sessionVars>>

FinishRemoved(r) ==
    /\ task[r] = "removing"
    /\ reply[r] # "none"
    /\ reply' = [reply EXCEPT ![r] = "none"]
    /\ task' = [task EXCEPT ![r] = "emitting"]
    /\ UNCHANGED <<opsVars, outcome, events, tokenVars, trackerVars,
                   replyAll, sessionVars>>

FinishEmits(r) ==
    /\ task[r] = "emitting"
    /\ Emit(r, outcome[r])
    /\ task' = [task EXCEPT ![r] = "confirming"]
    /\ UNCHANGED <<opsVars, outcome, tokenVars, trackerVars, replyVars,
                   sessionVars>>

FinishConfirms(r) ==
    /\ task[r] = "confirming"
    /\ done' = done \cup {r}
    /\ task' = [task EXCEPT ![r] = "finished"]
    /\ UNCHANGED <<opsVars, outcome, events, canceler, trackerVars,
                   replyVars, sessionVars>>

-----------------------------------------------------------------------------
(* tracker::run                                                            *)

\* AddOperation: only a vacant entry is filled.
TrackerAdds ==
    /\ TrackerHas("Add")
    /\ LET r == Head(rxTracker).req
           vacant == tracked[IdOf[r]] = None
       IN /\ tracked' = IF vacant THEN [tracked EXCEPT ![IdOf[r]] = r] ELSE tracked
          /\ reply' = [reply EXCEPT ![r] = IF vacant THEN "true" ELSE "false"]
    /\ UNCHANGED <<opsVars, taskVars, tokenVars, tracker, victim, asker,
                   toCancel, confirmed, replyAll, sessionVars>>

\* RemoveOperation: by id.
TrackerRemoves ==
    /\ TrackerHas("Remove")
    /\ LET r == Head(rxTracker).req IN
        /\ tracked' = [tracked EXCEPT ![IdOf[r]] = None]
        /\ reply' = [reply EXCEPT ![r] = IF tracked[IdOf[r]] # None
                                         THEN "true" ELSE "false"]
    /\ UNCHANGED <<opsVars, taskVars, tokenVars, tracker, victim, asker,
                   toCancel, confirmed, replyAll, sessionVars>>

\* CancelOperation of an id the tracker does not hold.
TrackerMisses ==
    /\ TrackerHas("Cancel")
    /\ LET ask == Head(rxTracker).req IN
        /\ tracked[Target[ask]] = None
        /\ reply' = [reply EXCEPT ![ask] = "false"]
    /\ UNCHANGED <<opsVars, taskVars, tokenVars, tracker, tracked, victim,
                   asker, toCancel, confirmed, replyAll, sessionVars>>

\* CancelOperation of an operation that already confirmed its end.
TrackerFindsDone ==
    /\ TrackerHas("Cancel")
    /\ LET ask == Head(rxTracker).req
           v == tracked[Target[ask]]
       IN /\ v \in done
          /\ tracked' = [tracked EXCEPT ![Target[ask]] = None]
          /\ reply' = [reply EXCEPT ![ask] = "true"]
          /\ confirmed' = confirmed \cup {<<ask, v>>}
    /\ UNCHANGED <<opsVars, taskVars, tokenVars, tracker, victim, asker,
                   toCancel, replyAll, sessionVars>>

\* CancelOperation of a running operation: drop its entry, cancel its token
\* and serve nothing else until it confirms (no timeout here).
TrackerCancels ==
    /\ TrackerHas("Cancel")
    /\ LET ask == Head(rxTracker).req
           v == tracked[Target[ask]]
       IN /\ v \notin done \cup {None}
          /\ tracked' = [tracked EXCEPT ![Target[ask]] = None]
          /\ canceler' = canceler \cup {v}
          /\ victim' = v
          /\ asker' = ask
    /\ tracker' = "awaitDone"
    /\ UNCHANGED <<opsVars, taskVars, done, toCancel, confirmed, replyVars,
                   sessionVars>>

TrackerConfirms ==
    /\ tracker = "awaitDone"
    /\ victim \in done
    /\ reply' = [reply EXCEPT ![asker] = "true"]
    /\ confirmed' = confirmed \cup {<<asker, victim>>}
    /\ tracker' = "recv"
    /\ victim' = None
    /\ asker' = None
    /\ UNCHANGED <<opsVars, taskVars, tokenVars, rxTracker, tracked, toCancel,
                   replyAll, sessionVars>>

\* CancelAll walks over the map in hash order.
TrackerCancelAll ==
    /\ TrackerHas("CancelAll")
    /\ tracker' = "cancelAll"
    /\ toCancel' = Ids
    /\ UNCHANGED <<opsVars, taskVars, tokenVars, tracked, victim, asker,
                   confirmed, replyVars, sessionVars>>

CancelAllVisits(u) ==
    /\ tracker = "cancelAll"
    /\ u \in toCancel
    /\ toCancel' = toCancel \ {u}
    /\ IF tracked[u] \in done
       THEN UNCHANGED <<canceler, tracker, victim>>
       ELSE /\ canceler' = canceler \cup {tracked[u]}
            /\ victim' = tracked[u]
            /\ tracker' = "awaitEach"
    /\ UNCHANGED <<opsVars, taskVars, done, rxTracker, tracked, asker,
                   confirmed, replyVars, sessionVars>>

\* The awaited operation confirms its end, or does not within
\* CANCEL_OPERATION_TIMEOUT; either way the walk goes on.
CancelAllProceeds ==
    /\ tracker = "awaitEach"
    /\ tracker' = "cancelAll"
    /\ victim' = None
    /\ UNCHANGED <<opsVars, taskVars, tokenVars, rxTracker, tracked, asker,
                   toCancel, confirmed, replyVars, sessionVars>>

CancelAllEnds ==
    /\ tracker = "cancelAll"
    /\ toCancel = {}
    /\ tracker' = "recv"
    /\ tracked' = NoId
    /\ replyAll' = "true"
    /\ UNCHANGED <<opsVars, taskVars, tokenVars, rxTracker, victim, asker,
                   toCancel, confirmed, reply, sessionVars>>

TrackerShutdown ==
    /\ tracker = "recv"
    /\ rxTracker # <<>>
    /\ Head(rxTracker).cmd = "Shutdown"
    /\ tracker' = "done"
    /\ rxTracker' = <<>>
    /\ LoseReplies(Enqueued)
    /\ UNCHANGED <<opsVars, taskVars, tokenVars, tracked, victim, asker,
                   toCancel, confirmed, replyAll, sessionVars>>

-----------------------------------------------------------------------------
(* The state loop, the join of the loops, and the watchdog.                *)

StateShutdown ==
    /\ stateLoop = "shutdown"
    /\ stateLoop' = "done"
    /\ UNCHANGED <<opsVars, taskVars, tokenVars, trackerVars, replyVars,
                   destroying, destroyed, forced, stop, handle>>

\* state::run ends with an error when a requester dropped the receiver of its
\* response: the handler of a cancelled operation drops the call it was
\* awaiting.  Session::run then sends the stop signal itself.
StateFails ==
    /\ stateLoop \in {"running", "shutdown"}
    /\ \E r \in canceler : Kind[r] = "work" /\ task[r] = "running"
    /\ stateLoop' = "done"
    /\ destroying' = TRUE
    /\ SendEnd
    /\ UNCHANGED <<opsLoop, current, closing, taskVars, tokenVars,
                   trackerVars, replyVars, destroyed, forced, stop,
                   handle>>

\* Every joined loop has returned.
LoopsJoined ==
    /\ opsLoop = "done"
    /\ tracker = "done"
    /\ stateLoop = "done"
    /\ ~destroyed
    /\ destroyed' = TRUE
    /\ UNCHANGED <<opsVars, taskVars, tokenVars, trackerVars, replyVars,
                   stateLoop, destroying, forced, stop, handle>>

\* SHUTDOWN_TIMEOUT_IN_MS after destroying the watchdog, a part of the session
\* task, asks the runtime to abort that task and confirms the end at once.
Watchdog ==
    /\ destroying
    /\ ~destroyed
    /\ forced' = TRUE
    /\ destroyed' = TRUE
    /\ UNCHANGED <<opsVars, taskVars, tokenVars, trackerVars, replyVars,
                   stateLoop, destroying, stop, handle>>

\* The runtime drops the session task after its current poll: its three loops
\* and their receivers go with it, the tasks of operations do not.
TaskAborted ==
    /\ forced
    /\ opsLoop # "aborted"
    /\ opsLoop' = "aborted"
    /\ tracker' = "aborted"
    /\ stateLoop' = "done"
    /\ rxOps' = <<>>
    /\ rxTracker' = <<>>
    /\ LoseReplies(Enqueued \cup ({asker} \ {None}))
    /\ UNCHANGED <<current, closing, taskVars, tokenVars, tracked, victim,
                   asker, toCancel, confirmed, replyAll, destroying,
                   destroyed, forced, stop, handle>>

-----------------------------------------------------------------------------
Client  == \/ \E r \in Requests : Submit(r)
           \/ \E c \in Callers : StopChecks(c) \/ StopMarks(c) \/ StopSends(c)
                                  \/ StopReturns(c)
           \/ DropSession
OpsLoop == OpsRecv \/ OpsSpawn \/ OpsReject \/ OpsEnd \/ OpsFinish
Handler(r) == \E result \in Outcomes : HandlerReturns(r, result)
TaskStep(r) == TaskStarts(r) \/ CancelAsks(r) \/ CancelAnswered(r)
                 \/ FinishChecks(r) \/ FinishLeaves(r) \/ FinishRemoved(r)
                 \/ FinishEmits(r) \/ FinishConfirms(r)
Tracker == TrackerAdds \/ TrackerRemoves \/ TrackerMisses \/ TrackerFindsDone
             \/ TrackerCancels \/ TrackerConfirms \/ TrackerCancelAll
             \/ (\E u \in Uuids : CancelAllVisits(u)) \/ CancelAllProceeds
             \/ CancelAllEnds \/ TrackerShutdown
SessionTask == StateShutdown \/ LoopsJoined

Next == \/ Client
        \/ OpsLoop
        \/ \E r \in Requests : Handler(r) \/ TaskStep(r)
        \/ Tracker
        \/ StateFails
        \/ SessionTask
        \/ Watchdog \/ TaskAborted

Spec == Init /\ [][Next]_vars

(***************************************************************************)
(* Fairness: the runtime polls every task that can make progress.  A       *)
(* handler is only promised to return once its token is cancelled (its     *)
(* select! watches the token); an observed tail runs for ever otherwise.   *)
(* The client is never obliged to act.                                     *)
(***************************************************************************)
Fairness ==
    /\ WF_vars(OpsLoop)
    /\ WF_vars(Tracker)
    /\ WF_vars(SessionTask)
    /\ WF_vars(Watchdog)
    /\ WF_vars(TaskAborted)
    /\ \A r \in Requests : WF_vars(TaskStep(r))
    /\ \A r \in Requests : WF_vars(Handler(r) /\ r \in canceler)
    /\ \A c \in Callers : WF_vars(StopMarks(c) \/ StopSends(c) \/ StopReturns(c))

FairSpec == Spec /\ Fairness
-----------------------------------------------------------------------------
Places == {"idle", "refused", "queued", "adding", "rejected", "spawned",
           "running", "canceling", "finishing", "leaving", "removing",
           "emitting", "confirming", "finished"}
Histories == {<<>>, <<"started">>, <<"started", "done">>,
              <<"started", "error">>, <<"error">>}

OpsTypeOK ==
    /\ rxOps \in Seq(Requests \cup {End})
    /\ opsLoop \in {"recv", "adding", "closing", "done", "aborted"}
    /\ current \in Requests \cup {None}
    /\ closing \in BOOLEAN

TaskTypeOK ==
    /\ task \in [Requests -> Places]
    /\ outcome \in [Requests -> Outcomes]
    /\ events \in [Requests -> Histories]
    /\ canceler \in SUBSET Requests
    /\ done \in SUBSET Requests

TrackerTypeOK ==
    /\ rxTracker \in Seq(Commands)
    /\ tracker \in {"recv", "awaitDone", "cancelAll", "awaitEach", "done",
                    "aborted"}
    /\ tracked \in [Uuids -> Requests \cup {None}]
    /\ victim \in Requests \cup {None}
    /\ asker \in Requests \cup {None}
    /\ toCancel \in SUBSET Uuids
    /\ confirmed \in SUBSET (Requests \X Requests)
    /\ reply \in [Requests -> Replies]
    /\ replyAll \in Replies

SessionTypeOK ==
    /\ stateLoop \in {"running", "shutdown", "done"}
    /\ destroying \in BOOLEAN
    /\ destroyed \in BOOLEAN
    /\ forced \in BOOLEAN
    /\ stop \in [Callers -> {"idle", "marking", "sending", "waiting", "returned"}]
    /\ handle \in {"held", "dropped"}

\* Every variable holds values of its type.
TypeOK == OpsTypeOK /\ TaskTypeOK /\ TrackerTypeOK /\ SessionTypeOK

Active == {"spawned", "running", "canceling", "finishing", "leaving"}

\* A running operation nobody has told to stop can be found by its id: the
\* tracker maps the id to that very operation, whatever adds, removals and
\* cancellations of other operations with the same id came in between
\* (tracker.rs, AddOperation/RemoveOperation; operations.rs, finish).
RunningIsTracked ==
    \A r \in Requests :
        task[r] \in Active /\ r \notin canceler => tracked[IdOf[r]] = r

\* A client that was told an operation is cancelled has already been sent the
\* final event of the operation it named (tracker.rs, CancelOperation waits
\* for the done token; operations.rs, finish emits before it sets the token).
CancelAnswerIsFinal ==
    \A p \in confirmed :
        /\ IdOf[p[2]] = Target[p[1]]
        /\ p[2] \in done
        /\ Len(events[p[2]]) = 2

\* A session that shuts down without the watchdog has told every operation
\* that still runs to stop: none slips between the add and the CancelAll
\* (operations.rs, run; state/api.rs, close_session).
GracefulStopReachesAll ==
    \A r \in Requests :
        destroyed /\ opsLoop = "done" /\ task[r] \in Active => r \in canceler

\* When stop() returns to any of its racing callers, the three loops of the
\* session have ended, so that the state and its session file are dropped,
\* unless the watchdog had to force the end (session.rs, stop,
\* send_stop_signal and Session::new).
LoopsEnded == /\ opsLoop \in {"done", "aborted"}
              /\ tracker \in {"done", "aborted"}
              /\ stateLoop = "done"

StopMeansStopped ==
    \A c \in Callers : stop[c] = "returned" => LoopsEnded \/ forced

\* Shutdown is announced before it can begin: whoever finds the operations
\* loop closing, or the channel's End, can rely on the watchdog being armed
\* (session.rs, send_stop_signal, Drop and Session::run).
ShutdownIsAnnounced ==
    closing \/ (\E i \in DOMAIN rxOps : rxOps[i] = End) => destroying

\* Every caller of stop() returns, however the loops and tasks are stuck.
StopReturnsAlways ==
    \A c \in Callers : stop[c] \in {"marking", "sending", "waiting"}
                         ~> stop[c] = "returned"

\* The operations loop executes every operation a client handed over, or says
\* why not, unless the session is destroyed first (operations.rs, run).
RequestsServed ==
    \A r \in Requests :
        task[r] \in {"queued", "adding"} ~>
            task[r] \notin {"queued", "adding"} \/ destroyed

\* The tracker does not wait for ever for an operation it has cancelled
\* (tracker.rs:187); it may, when that operation waits for the tracker.
TrackerMovesOn == []<>(tracker # "awaitDone")

\* As long as the tracker moves on, the operations loop serves every request,
\* and a handler that has returned gets its final event out, whatever is
\* cancelled, stopped or aborted meanwhile (operations.rs, finish).
ServedUnlessStuck ==
    TrackerMovesOn =>
        /\ RequestsServed
        /\ \A r \in Requests : task[r] = "finishing" ~> r \in done


-----------------------------------------------------------------------------
(***************************************************************************)
(* The inductive invariant: what the loops, the channel and the tasks know *)
(* of each other between any two steps.                                    *)
(***************************************************************************)

\* Callback events are sent in the order of the task's steps: nothing before
\* started(), one final event, and the done token after it (operations.rs,
\* execute and finish).
EventsFollowTask ==
    \A r \in Requests :
        /\ events[r] =
             CASE task[r] \in {"idle", "refused", "queued", "adding", "spawned"}
                    -> <<>>
               [] task[r] = "rejected" -> <<"error">>
               [] task[r] \in {"confirming", "finished"}
                    -> <<"started", outcome[r]>>
               [] OTHER -> <<"started">>
        /\ r \in done <=> task[r] = "finished"

\* Only a request that asked the tracker holds an answer.
AnswersAreAwaited ==
    \A r \in Requests :
        reply[r] # "none" => task[r] \in {"adding", "canceling", "removing"}

\* The operations loop registers one request at a time.
OneIsAdded ==
    /\ opsLoop = "adding" => current # None /\ task[current] = "adding"
    /\ \A r \in Requests :
        task[r] = "adding" => current = r /\ opsLoop \in {"adding", "aborted"}

\* What the operations channel holds was never taken, and is held once.
QueuedIsFresh ==
    /\ \A n \in 1..Len(rxOps) : rxOps[n] # End => task[rxOps[n]] = "queued"
    /\ \A n, o \in 1..Len(rxOps) :
        rxOps[n] = rxOps[o] /\ rxOps[n] # End => n = o

\* How far the shutdown has come.
ShutdownOrder ==
    /\ closing => opsLoop \in {"closing", "done", "aborted"}
    /\ opsLoop \in {"closing", "done"} => closing
    /\ opsLoop = "aborted" <=> tracker = "aborted"
    /\ tracker = "aborted" => forced
    /\ forced => destroyed
    /\ tracker = "done" => opsLoop = "done"
    /\ replyAll = "true" => closing /\ tracked = NoId
    /\ replyAll \in {"none", "true"}
    /\ opsLoop = "done" => replyAll = "true"
    /\ destroyed => LoopsEnded \/ forced
    /\ \A c \in Callers : stop[c] = "returned" => destroyed
    /\ \A c \in Callers : stop[c] = "sending" => destroying

\* Whoever sent the command m still waits for its answer.
Awaited(m) ==
    /\ m.cmd = "Add" => /\ opsLoop = "adding"
                        /\ task[m.req] = "adding"
                        /\ reply[m.req] = "none"
    /\ m.cmd = "Remove" => task[m.req] = "removing" /\ reply[m.req] = "none"
    /\ m.cmd = "Cancel" => task[m.req] = "canceling" /\ reply[m.req] = "none"
    /\ m.cmd = "CancelAll" => closing
    /\ m.cmd = "Shutdown" => opsLoop = "done"
    /\ tracker = "awaitDone" => m.req # asker

\* Every command in the tracker's channel is awaited, and nobody has two of
\* them there.
QueueIsSound ==
    /\ \A n \in 1..Len(rxTracker) : Awaited(rxTracker[n])
    /\ \A n, o \in 1..Len(rxTracker) :
        rxTracker[n].req = rxTracker[o].req /\ rxTracker[n].req # None => n = o

\* The tracker files an operation under its id.
TrackedById ==
    \A u \in Uuids : tracked[u] # None => IdOf[tracked[u]] = u

\* What the tracker knows while it waits.
TrackerWaits ==
    /\ tracker = "awaitDone" =>
        /\ victim \in Requests
        /\ asker \in Requests
        /\ IdOf[victim] = Target[asker]
        /\ task[asker] = "canceling"
        /\ reply[asker] = "none"
    /\ asker # None => tracker \in {"awaitDone", "aborted"}
    /\ tracker \in {"cancelAll", "awaitEach"} =>
        /\ closing
        /\ toCancel \subseteq Ids
        /\ \A u \in Ids \ toCancel : tracked[u] \in canceler \cup done

\* Registered and not yet taken out again.
Registered(r) ==
    \/ task[r] \in Active
    \/ task[r] = "adding" /\ reply[r] = "true"
    \/ task[r] = "removing" /\ reply[r] = "none"

RegisteredIsTracked ==
    \A r \in Requests :
        Registered(r) /\ r \notin canceler => tracked[IdOf[r]] = r

\* A cancelled operation that has not confirmed its end keeps the tracker
\* from adding anything: the tracker waits for it or the session is closing.
CanceledIsPending ==
    \A r \in canceler \ done :
        /\ closing \/ tracker = "aborted" \/ (tracker = "awaitDone" /\ victim = r)
        /\ tracked[IdOf[r]] \in {r, None}

IInv ==
    /\ TypeOK
    /\ EventsFollowTask
    /\ AnswersAreAwaited
    /\ OneIsAdded
    /\ QueuedIsFresh
    /\ ShutdownOrder
    /\ ShutdownIsAnnounced
    /\ QueueIsSound
    /\ TrackedById
    /\ TrackerWaits
    /\ RegisteredIsTracked
    /\ CanceledIsPending
    /\ CancelAnswerIsFinal
=============================================================================
