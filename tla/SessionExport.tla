--------------------------- MODULE SessionExport ---------------------------
(***************************************************************************)
(* An export from the menu to the file (app: session/ui/shared/export,     *)
(* session/service/export.rs and mod.rs; core: session/operations.rs and   *)
(* state/mod.rs): dialogs, the service of the session, the operation in    *)
(* the core and the tab that is opened for the results of a search.        *)
(*                                                                         *)
(* One session of the application and the sessions it opens.  The results  *)
(* of a search are exported to a temporary file, raw or as text, which the *)
(* new session reads and owns.                                             *)
(***************************************************************************)
EXTENDS RawExport

CONSTANT MaxOps   \* bound: exports that are asked for

ASSUME SessionExportAssumption == MaxOps \in Nat \ {0}

Ops == 1 .. MaxOps
NoOp == 0
Kinds == {"raw", "text", "rawTab", "textTab"}
OfTab(k) == k \in {"rawTab", "textTab"}
IsRaw(k) == k \in {"raw", "rawTab"}

VARIABLES
  kind,      \* of each export, once it has an id
  dialog,    \* ExportState: the modal or save dialog that is open
  pending,   \* ExportState.pending_op; the tab is blocked while there is one
  view,      \* the tab: "open", "closed"
  cmds,      \* exports that the view has sent to the service
  news,      \* phases the service has sent to the view
  service,   \* of the session: "runs", "stops", "gone"
  tracker,   \* OperationTracker.search_results_tab
  running,   \* the operation in the core
  events,    \* callback events of the core
  temp,      \* exports whose temporary file exists
  child      \* session that was opened for an export: "none", "open", "gone"

viewVars == <<kind, dialog, pending, view>>
channels == <<cmds, news, events>>
serviceVars == <<service, tracker, running, child>>
vars == <<rawVars, viewVars, channels, serviceVars, temp>>

Init ==
  /\ RawInit
  /\ kind = [o \in Ops |-> "none"]
  /\ dialog = "none" /\ pending = NoOp /\ view = "open"
  /\ cmds = <<>> /\ news = <<>> /\ events = <<>>
  /\ service = "runs" /\ tracker = NoOp /\ running = NoOp
  /\ temp = {} /\ child = [o \in Ops |-> "none"]

-----------------------------------------------------------------------------
(* The view. *)

Fresh == {o \in Ops : kind[o] = "none" /\ \A p \in 1 .. o - 1 : kind[p] # "none"}
CanStart == pending = NoOp /\ dialog = "none"

Tracks(o, k) == kind' = [kind EXCEPT ![o] = k]

(* The command is sent, or the channel is full and the operation cleared. *)
Sends(o) ==
  \/ cmds' = Append(cmds, o) /\ pending' = o
  \/ UNCHANGED <<cmds, pending>>

(* An export to a file of the user: a save dialog, and before it a modal    *)
(* for a table. *)
OpensDialog ==
  /\ view = "open" /\ CanStart /\ Fresh # {}
  /\ dialog' \in {"raw", "text", "modal"}
  /\ UNCHANGED <<rawVars, kind, pending, view, channels, serviceVars, temp>>

ConfirmsModal ==
  /\ view = "open" /\ dialog = "modal"
  /\ dialog' \in {"text", "none"}
  /\ UNCHANGED <<rawVars, kind, pending, view, channels, serviceVars, temp>>

Dismisses ==
  /\ view = "open" /\ dialog \in {"raw", "text"}
  /\ dialog' = "none"
  /\ UNCHANGED <<rawVars, kind, pending, view, channels, serviceVars, temp>>

SelectsDestination(o) ==
  /\ view = "open" /\ dialog \in {"raw", "text"}
  /\ Tracks(o, dialog) /\ dialog' = "none"
  /\ Sends(o)
  /\ UNCHANGED <<rawVars, view, news, events, serviceVars, temp>>

OpensResults(o) ==
  /\ view = "open" /\ CanStart
  /\ \E k \in {"rawTab", "textTab"} : Tracks(o, k)
  /\ Sends(o)
  /\ UNCHANGED <<rawVars, dialog, view, news, events, serviceVars, temp>>

(* ExportState::handle_phase.  Each of the phases sent here ends the wait,  *)
(* when it is the operation's that is pending. *)
HandlesPhase ==
  /\ view = "open" /\ news # <<>>
  /\ news' = Tail(news)
  /\ pending' = IF Head(news) = pending THEN NoOp ELSE pending
  /\ UNCHANGED <<rawVars, kind, dialog, view, cmds, events, serviceVars, temp>>

ClosesTab ==
  /\ view = "open" /\ view' = "closed"
  /\ dialog' = "none" /\ pending' = NoOp
  /\ UNCHANGED <<rawVars, kind, channels, serviceVars, temp>>

-----------------------------------------------------------------------------
(* The service. *)

Says(o) == news' = Append(news, o)
Cleaned(S) == temp \ S

(* handle_raw_export, handle_text_export, open_search_results_tab: there is *)
(* nothing to export, or the core is asked to, or that fails. *)
Starts(o) ==
  /\ running' = o
  /\ tracker' = IF OfTab(kind[o]) THEN o ELSE tracker
  /\ UNCHANGED news

EndsUnsaid(o) == UNCHANGED <<news, running, tracker>>   \* slip

EndsAtOnce(o) == Says(o) /\ UNCHANGED <<running, tracker>>

HandlesExport ==
  /\ service = "runs" /\ cmds # <<>>
  /\ cmds' = Tail(cmds)
  /\ LET o == Head(cmds) IN
       \/ ~(OfTab(kind[o]) /\ tracker # NoOp) /\ Starts(o)
       \/ EndsAtOnce(o)
  /\ UNCHANGED <<rawVars, viewVars, events, service, child, temp>>

(* OperationDone: finish_results_tab takes the operation and has a session  *)
(* opened that owns the file; where that fails the file is removed. *)
OpensChildSilently(o) == tracker' = NoOp /\ UNCHANGED <<child, temp>>   \* slip

OpensChild(o) ==
  /\ tracker' = NoOp
  /\ \/ child' = [child EXCEPT ![o] = "open"] /\ UNCHANGED temp
     \/ temp' = Cleaned({o}) /\ UNCHANGED child

HandlesDone ==
  /\ service = "runs" /\ events # <<>> /\ Head(events).is = "done"
  /\ events' = Tail(events)
  /\ LET o == Head(events).op IN
       /\ Says(o)
       /\ IF tracker = o THEN OpensChild(o) ELSE UNCHANGED <<tracker, child, temp>>
  /\ UNCHANGED <<rawVars, viewVars, cmds, service, running>>

HandlesError ==
  /\ service = "runs" /\ events # <<>> /\ Head(events).is = "error"
  /\ events' = Tail(events)
  /\ LET o == Head(events).op IN
       /\ Says(o)
       /\ tracker' = IF tracker = o THEN NoOp ELSE tracker
       /\ temp' = IF tracker = o THEN Cleaned({o}) ELSE temp
  /\ UNCHANGED <<rawVars, viewVars, cmds, service, running, child>>

(* The command to close comes after those before it, or the channel is      *)
(* closed; nothing else is handled while the session stops. *)
StopsSession ==
  /\ service = "runs" /\ view = "closed" /\ cmds = <<>>
  /\ service' = "stops" /\ cancelled' = TRUE
  /\ UNCHANGED <<at, files, asked, file, loop, out, passed>>
  /\ UNCHANGED <<viewVars, channels, tracker, running, child, temp>>

Drops ==
  /\ service = "stops" /\ running = NoOp
  /\ service' = "gone"
  /\ temp' = Cleaned({tracker}) /\ tracker' = NoOp
  /\ UNCHANGED <<rawVars, viewVars, channels, running, child>>

(* Drop of the service of a session that owns a source. *)
ChildCloses(o) ==
  /\ child[o] = "open"
  /\ child' = [child EXCEPT ![o] = "gone"]
  /\ temp' = Cleaned({o})
  /\ UNCHANGED <<rawVars, viewVars, channels, service, tracker, running>>

-----------------------------------------------------------------------------
(* The operation in the core. *)

Ends(is) ==
  /\ running' = NoOp
  /\ events' = Append(events, [is |-> is, op |-> running])

Written == IF OfTab(kind[running]) THEN temp \cup {running} ELSE temp

BeginsExport ==
  /\ running # NoOp /\ IsRaw(kind[running]) /\ BeginsRaw
  /\ UNCHANGED <<viewVars, channels, serviceVars, temp>>

(* A source is a stream, or read by a plugin. *)
NotPossible ==
  /\ running # NoOp /\ IsRaw(kind[running]) /\ at = "idle"
  /\ Ends("error")
  /\ UNCHANGED <<rawVars, viewVars, cmds, news, service, tracker, child, temp>>

(* The destination is created when the first file is read. *)
ExportsRaw ==
  /\ running # NoOp /\ Exports
  /\ temp' = IF at' = "select" THEN Written ELSE temp
  /\ UNCHANGED <<viewVars, channels, serviceVars>>

(* A cancelled export is done, with false. *)
RawReturns ==
  /\ running # NoOp /\ at \in {"done", "cancelled", "failed", "refused"}
  /\ Ends(IF at \in {"done", "cancelled"} THEN "done" ELSE "error")
  /\ at' = "idle"
  /\ files' = <<>> /\ asked' = {}
  /\ nth' = 1 /\ sections' = {} /\ base' = 0 /\ firsts' = {}
  /\ batch' = 0 /\ items' = <<>> /\ ahead' = {} /\ inside' = FALSE /\ current' = 0
  /\ out' = {} /\ passed' = 0
  /\ UNCHANGED <<cancelled, viewVars, cmds, news, service, tracker, child, temp>>

(* handle_export_session, in one turn of the state loop: all is written, or *)
(* what was before an error or a cancellation.  The operation is done in    *)
(* any case, even when there is no file. *)
ExportsText ==
  /\ running # NoOp /\ ~IsRaw(kind[running])
  /\ temp' \in {temp, Written}
  /\ Ends("done")
  /\ UNCHANGED <<rawVars, viewVars, cmds, news, service, tracker, child>>

Operates == BeginsExport \/ NotPossible \/ ExportsRaw \/ RawReturns \/ ExportsText
Serves == HandlesExport \/ HandlesDone \/ HandlesError \/ StopsSession \/ Drops

Next ==
  \/ OpensDialog \/ ConfirmsModal \/ Dismisses
  \/ \E o \in Fresh : SelectsDestination(o) \/ OpensResults(o)
  \/ HandlesPhase \/ ClosesTab
  \/ Serves \/ Operates
  \/ \E o \in Ops : ChildCloses(o)

Spec == Init /\ [][Next]_vars
FairSpec == Spec /\ WF_vars(Serves) /\ WF_vars(Operates) /\ WF_vars(HandlesPhase)

-----------------------------------------------------------------------------

(* A temporary file has one owner that will remove it: the service that     *)
(* waits for its export, or the session that reads it.  Nothing stays       *)
(* behind, whichever step fails and whenever the tabs are closed. *)
Owners(o) ==
  (IF service # "gone" /\ tracker = o THEN {"parent"} ELSE {})
    \cup (IF child[o] = "open" THEN {"child"} ELSE {})
TempFilesHaveOneOwner == \A o \in temp : Cardinality(Owners(o)) = 1

(* A tab that is blocked by an export is released, by success, failure or   *)
(* because there was nothing to export, unless it is closed. *)
NothingStaysBusy == \A o \in Ops : pending = o ~> pending # o
=============================================================================
