-------------------------- MODULE SearchProtocol --------------------------
(***************************************************************************)
(* How a session searches while its file grows.  The state loop            *)
(* (session/src/state/mod.rs) owns the results; the searchers task         *)
(* (session/src/state/searchers.rs) owns one holder (a BaseSearcher with   *)
(* its filters and its position in the file) per kind of search; a search  *)
(* operation (handlers/search.rs, handlers/search_values.rs) borrows the   *)
(* holder for its full search and gives it back, after which the searchers *)
(* extend the results on every update of the file.                         *)
(*                                                                         *)
(* Processes: the producer that writes to the session file, the command    *)
(* loop of the application (one command after another), one task and one   *)
(* background search per operation, the state loop and the searchers task. *)
(* The channel into the state loop is unbounded; the two channels between  *)
(* the state loop and the searchers task are bounded by Capacity (32 in    *)
(* the code), and a sender that finds its channel full waits.              *)
(*                                                                         *)
(* Every row of the file matches every filter: a match is the search that  *)
(* found it and its row.  Bytes and rows grow together (a row is complete  *)
(* when the grabber counts it), so the position of a holder is a row.      *)
(***************************************************************************)
EXTENDS Naturals, Sequences, FiniteSets

CONSTANTS
    Requests,    \* commands of the application
    Script,      \* the order it issues them in, a sequence over Requests
    Target,      \* Target[r]: the search a "drop" aborts, or None
    Plans,       \* what the commands may be about: one of these holds
    MaxRows,     \* bound: rows the producer writes
    Capacity,    \* slots of the channels to and from the searchers
    Attempts,    \* RETRY_ATTEMPTS
    None         \* nobody

Kinds == {"regular", "values"}
Demands == {"filters", "nofilters", "badfilters", "drop"}

ASSUME ConstantsAssumption ==
    /\ Script \in Seq(Requests)
    /\ Target \in [Requests -> Requests \cup {None}]
    /\ Plans \subseteq [asked : [Requests -> Demands], kind : Kinds,
                        ioMayFail : BOOLEAN]
    /\ MaxRows \in Nat
    /\ Capacity \in Nat \ {0}
    /\ Attempts \in Nat \ {0}
    /\ None \notin Requests

VARIABLES
    plan,        \* what the commands are about
    rows,        \* rows of the session file
    producer,    \* "idle", or "waiting" for the answer to its write
    pc,          \* pc[r]: where the command r is
    attempts,    \* attempts[r]: drops r has asked for before its search
    target,      \* target[r]: the stream length r searches up to
    held,        \* held[r]: the holder r has borrowed
    background,  \* background[r]: the blocking search of r
    found,       \* found[r]: what it found
    cancelled,   \* operations whose cancellation token is cancelled
    reply,       \* reply[r]: the oneshot response r waits for
    api,         \* channel into the state loop
    stateLoop,   \* "select", "busy" or "failed"
    serving,     \* the message a busy state loop handles
    outbox,      \* requests it still has to send to the searchers
    answer,      \* the oneshot response of the searchers it waits for
    requests,    \* bounded channel state loop -> searchers
    responses,   \* bounded channel searchers -> state loop
    pending,     \* the responses the searchers wait to send (at most one)
    slot,        \* slot[k]: SearcherState of the kind k
    holder,      \* holder[k]: the holder of an "Available" slot
    matches,     \* matches[k]: the search map, the values map
    indexed      \* rows of nature SEARCH in the indexed map

taskVars   == <<pc, attempts, target, held, background, found>>
chanVars   == <<requests, responses, pending>>
loopVars   == <<stateLoop, serving, outbox, answer>>
searchVars == <<slot, holder>>
viewVars   == <<matches, indexed>>
fileVars   == <<rows, producer>>
vars == <<taskVars, cancelled, reply, api, chanVars, loopVars, searchVars,
          viewVars, fileVars>>

\* What the command r asks for, the kind of search it is about, and whether
\* a search may fail to read the file.
Asked(r)  == plan.asked[r]
KindOf(r) == plan.kind
IoMayFail == plan.ioMayFail

\* A holder: the search whose filters it carries, and how far it has read.
Holders   == [by : Requests \cup {None}, upTo : Nat]
NewHolder == [by |-> None, upTo |-> 0]
Matches   == [by : Requests, row : Nat]

\* One shape for every message; "lost" is a response without its sender.
Message(cmd, k, r)  == [cmd |-> cmd, kind |-> k, from |-> r, some |-> FALSE,
                        holder |-> NewHolder, upTo |-> 0]
Giving(r, h)        == [Message("Set", KindOf(r), r) EXCEPT !.some = TRUE,
                                                            !.holder = h]
GivingNothing(r)    == Message("Set", KindOf(r), r)
Update(k, n)        == [Message("Search", k, None) EXCEPT !.upTo = n]
Nothing == Message("None", "regular", None)
Write   == Message("Write", "regular", None)
Messages == [cmd : {"None", "Write", "Search", "Drop", "Len", "Get", "Set",
                    "Matches", "Clear"},
             kind : Kinds, from : Requests \cup {None}, some : BOOLEAN,
             holder : Holders, upTo : Nat]

Reply(status, h, n) == [status |-> status, holder |-> h, n |-> n]
NoReply == Reply("none", NewHolder, 0)
Yes     == Reply("ok", NewHolder, 0)
No      == Reply("refused", NewHolder, 0)
Lost    == Reply("lost", NewHolder, 0)
Replies == [status : {"none", "ok", "refused", "lost"}, holder : Holders,
            n : Nat]

Init ==
    /\ plan \in Plans
    /\ rows = 0
    /\ producer = "idle"
    /\ pc = [r \in Requests |-> "new"]
    /\ attempts = [r \in Requests |-> 0]
    /\ target = [r \in Requests |-> 0]
    /\ held = [r \in Requests |-> NewHolder]
    /\ background = [r \in Requests |-> "none"]
    /\ found = [r \in Requests |-> <<>>]
    /\ cancelled = {}
    /\ reply = [r \in Requests |-> NoReply]
    /\ api = <<>>
    /\ stateLoop = "select"
    /\ serving = Nothing
    /\ outbox = <<>>
    /\ answer = NoReply
    /\ requests = <<>>
    /\ responses = <<>>
    /\ pending = <<>>
    /\ slot = [k \in Kinds |-> "NotInited"]
    /\ holder = [k \in Kinds |-> NewHolder]
    /\ matches = [k \in Kinds |-> <<>>]
    /\ indexed = {}

-----------------------------------------------------------------------------
(* BaseSearcher::search over the rows a holder has not read yet.           *)

\* What a search up to row n finds, and where it leaves the holder.
FoundBy(h, n) == [i \in 1..(n - h.upTo) |-> [by |-> h.by, row |-> h.upTo + i]]
\* A slip: the position is not moved.
AdvancedNever(h, n) == h
Advanced(h, n) == [h EXCEPT !.upTo = n]

\* Nothing to read: an empty file, or no filters, or rows it has read.
Idles(h, n) == n = 0 \/ h.by = None \/ n <= h.upTo
\* read_bytes < self.bytes_read, for a file that is not empty.
Refuses(h, n) == n > 0 /\ (n <= h.upTo \/ h.by = None)

-----------------------------------------------------------------------------
(* Messages of a command's task.                                           *)

\* The task of r sends m to the state loop and awaits the answer.
Ask(r, m) ==
    IF stateLoop = "failed"
    THEN /\ reply' = [reply EXCEPT ![r] = Lost]
         /\ UNCHANGED api
    ELSE /\ reply' = [reply EXCEPT ![r] = NoReply]
         /\ api' = Append(api, m)

\* r, at `from` with an answer, goes on to `to` with the message m.
AskNext(r, from, status, m, to) ==
    /\ pc[r] = from
    /\ reply[r].status = status
    /\ pc' = [pc EXCEPT ![r] = to]
    /\ Ask(r, m)

Ends(r, from, status, to) ==
    /\ pc[r] = from
    /\ reply[r].status = status
    /\ pc' = [pc EXCEPT ![r] = to]
    /\ reply' = [reply EXCEPT ![r] = NoReply]
    /\ UNCHANGED api

DropOf(r) == Message("Drop", KindOf(r), r)

\* What the tasks never touch.
Elsewhere == <<loopVars, searchVars, viewVars, fileVars, responses, pending>>

-----------------------------------------------------------------------------
(* The commands of the application, one task each.                         *)

\* The application's command loop issues the next command of its script; it
\* awaits a drop (but not a search) before it takes another one.
Turn(r) ==
    \E i \in DOMAIN Script :
        /\ Script[i] = r
        /\ \A j \in 1..(i - 1) :
             IF Asked(Script[j]) = "drop" THEN pc[Script[j]] \in {"done", "failed"}
                                          ELSE pc[Script[j]] # "new"

Starts(r) ==
    /\ Turn(r)
    /\ IF Asked(r) = "drop"
       THEN /\ AskNext(r, "new", "none", DropOf(r), "clearing")
            /\ UNCHANGED attempts
       ELSE /\ AskNext(r, "new", "none", DropOf(r), "dropping")
            /\ attempts' = [attempts EXCEPT ![r] = 1]
    /\ UNCHANGED <<target, held, background, found, cancelled, requests, Elsewhere>>

\* The abort that goes ahead of a drop reaches the search it names.
Cancelled(r) ==
    /\ r \notin cancelled
    /\ \E d \in Requests : Asked(d) = "drop" /\ Target[d] = r /\ pc[d] # "new"
    /\ pc[r] \notin {"new", "done", "failed"}
    /\ cancelled' = cancelled \cup {r}
    /\ UNCHANGED <<taskVars, reply, api, requests, Elsewhere>>

\* wait_until_search_dropped
Dropped(r) ==
    /\ AskNext(r, "dropping", "ok", Message("Len", KindOf(r), r), "len")
    /\ UNCHANGED <<attempts, target, held, background, found, cancelled,
                   requests, Elsewhere>>

NotDropped(r) ==
    /\ Ends(r, "dropping", "refused",
            IF attempts[r] = Attempts THEN "failed" ELSE "retry")
    /\ UNCHANGED <<attempts, target, held, background, found, cancelled,
                   requests, Elsewhere>>

DropsAgain(r) ==
    /\ AskNext(r, "retry", "none", DropOf(r), "dropping")
    /\ attempts' = [attempts EXCEPT ![r] = @ + 1]
    /\ UNCHANGED <<target, held, background, found, cancelled, requests, Elsewhere>>

LenKnown(r) ==
    /\ AskNext(r, "len", "ok", Message("Get", KindOf(r), r), "get")
    /\ target' = [target EXCEPT ![r] = reply[r].n]
    /\ UNCHANGED <<attempts, held, background, found, cancelled, requests, Elsewhere>>

\* The holder is set up: a valid list of filters replaces those it carried
\* and the blocking search is spawned; otherwise it is put back.
SearchSpawned(r) ==
    /\ Asked(r) = "filters"
    /\ Ends(r, "get", "ok", "search")
    /\ held' = [held EXCEPT ![r] = [reply[r].holder EXCEPT !.by = r]]
    /\ background' = [background EXCEPT ![r] = "running"]
    /\ UNCHANGED <<attempts, target, found, cancelled, requests, Elsewhere>>

PutsBack(r) ==
    /\ Asked(r) \in {"nofilters", "badfilters"}
    /\ LET h == IF Asked(r) = "nofilters" THEN [reply[r].holder EXCEPT !.by = None]
                                          ELSE reply[r].holder
       IN AskNext(r, "get", "ok", Giving(r, h), "putBack")
    /\ UNCHANGED <<attempts, target, held, background, found, cancelled,
                   requests, Elsewhere>>

\* The blocking search ends; its result is not sent once r is cancelled.
BackgroundEnds(r) ==
    /\ background[r] = "running"
    /\ \E io \in {TRUE, ~IoMayFail} :
        LET h == held[r]
            n == target[r]
            good == ~Refuses(h, n) /\ (io \/ Idles(h, n))
        IN IF r \in cancelled
           THEN /\ background' = [background EXCEPT ![r] = "gone"]
                /\ UNCHANGED <<held, found>>
           ELSE /\ background' = [background EXCEPT ![r] =
                                     IF good THEN "found" ELSE "error"]
                /\ IF good /\ ~Idles(h, n)
                   THEN /\ found' = [found EXCEPT ![r] = FoundBy(h, n)]
                        /\ held' = [held EXCEPT ![r] = Advanced(h, n)]
                   ELSE UNCHANGED <<held, found>>
    /\ UNCHANGED <<pc, attempts, target, cancelled, reply, api, requests, Elsewhere>>

\* The select! of the task: a result, ...
ResultTaken(r) ==
    /\ \/ /\ background[r] = "found"
          /\ AskNext(r, "search", "none", Giving(r, held[r]), "put")
       \/ /\ background[r] = "error"
          /\ AskNext(r, "search", "none", Giving(r, held[r]), "fail")
       \/ /\ background[r] = "gone"
          /\ AskNext(r, "search", "none", GivingNothing(r), "fail")
    /\ UNCHANGED <<attempts, target, held, background, found, cancelled,
                   requests, Elsewhere>>

\* ... or 250 ms without one, ...
Ticks(r) ==
    /\ background[r] = "running"
    /\ r \notin cancelled
    /\ AskNext(r, "search", "none",
               Message(IF KindOf(r) = "regular" THEN "Clear" ELSE "Drop",
                       KindOf(r), r), "tick")
    /\ UNCHANGED <<attempts, target, held, background, found, cancelled,
                   requests, Elsewhere>>

TickAnswered(r) ==
    /\ \E status \in {"ok", "refused"} : Ends(r, "tick", status, "search")
    /\ UNCHANGED <<attempts, target, held, background, found, cancelled,
                   requests, Elsewhere>>

\* ... or the cancellation, which drops the receiver of a tick under way.
Orphan(q, r) == [i \in DOMAIN q |->
                    IF q[i].from = r THEN [q[i] EXCEPT !.from = None] ELSE q[i]]

CancelSeen(r) ==
    /\ r \in cancelled
    /\ pc[r] \in {"search", "tick"}
    /\ pc' = [pc EXCEPT ![r] = "cancel"]
    /\ IF stateLoop = "failed"
       THEN /\ reply' = [reply EXCEPT ![r] = Lost]
            /\ UNCHANGED api
       ELSE /\ reply' = [reply EXCEPT ![r] = NoReply]
            /\ api' = Append(Orphan(api, r), GivingNothing(r))
    /\ requests' = Orphan(requests, r)
    /\ outbox' = Orphan(outbox, r)
    /\ serving' = IF serving.from = r THEN [serving EXCEPT !.from = None] ELSE serving
    /\ UNCHANGED <<attempts, target, held, background, found, cancelled,
                   stateLoop, answer, responses, pending, searchVars, viewVars,
                   fileVars>>

\* The holder is back; what is left to do.
HolderReturned(r) ==
    /\ \/ AskNext(r, "put", "ok", Message("Matches", KindOf(r), r), "show")
       \/ AskNext(r, "fail", "ok", DropOf(r), "failDrop")
       \/ AskNext(r, "cancel", "ok", DropOf(r), "cancelDrop")
    /\ UNCHANGED <<attempts, target, held, background, found, cancelled,
                   requests, Elsewhere>>

TaskEnds(r) ==
    /\ \/ Ends(r, "show", "ok", "done")
       \/ Ends(r, "putBack", "ok", IF Asked(r) = "nofilters" THEN "done" ELSE "failed")
       \/ \E status \in {"ok", "refused"} :
             \/ Ends(r, "failDrop", status, "failed")
             \/ Ends(r, "cancelDrop", status, "done")
             \/ Ends(r, "clearing", status, "done")
       \/ \E p \in {"get", "put", "putBack", "fail", "cancel"} :
             Ends(r, p, "refused", "failed")
       \/ pc[r] # "search" /\ Ends(r, pc[r], "lost", "failed")
    /\ UNCHANGED <<attempts, target, held, background, found, cancelled,
                   requests, Elsewhere>>

Task(r) ==
    \/ Starts(r) \/ Dropped(r) \/ NotDropped(r) \/ DropsAgain(r) \/ LenKnown(r)
    \/ SearchSpawned(r) \/ PutsBack(r) \/ ResultTaken(r)
    \/ Ticks(r) \/ TickAnswered(r) \/ CancelSeen(r) \/ HolderReturned(r)
    \/ TaskEnds(r)

-----------------------------------------------------------------------------
(* The producer: write_session_file (or update_session), awaited.  Every   *)
(* write of the model completes a row and finds the file changed.          *)

Produces ==
    /\ producer = "idle"
    /\ stateLoop # "failed"
    /\ rows + 1 <= MaxRows
    /\ producer' = "waiting"
    /\ api' = Append(api, Write)
    /\ UNCHANGED <<rows, taskVars, cancelled, reply, chanVars, loopVars,
                   searchVars, viewVars>>

-----------------------------------------------------------------------------
(* The state loop.                                                         *)

\* The branch of its select! for messages takes a message of this kind.
Takes(cmd) ==
    /\ stateLoop = "select"
    /\ api # <<>>
    /\ Head(api).cmd = cmd
    /\ api' = Tail(api)

\* Session file and update_searchers: both searchers hear of the update.
TakesWrite ==
    /\ Takes("Write")
    /\ rows' = rows + 1
    /\ stateLoop' = "busy"
    /\ serving' = Head(api)
    /\ outbox' = <<Update("regular", rows'), Update("values", rows')>>
    /\ UNCHANGED <<producer, taskVars, cancelled, reply, chanVars, answer,
                   searchVars, viewVars>>

\* A message the searchers have to serve is forwarded to them.
TakesForward ==
    /\ \E cmd \in {"Drop", "Get", "Set"} : Takes(cmd)
    /\ stateLoop' = "busy"
    /\ serving' = Head(api)
    /\ outbox' = <<Head(api)>>
    /\ UNCHANGED <<taskVars, cancelled, reply, chanVars, answer, searchVars,
                   viewVars, fileVars>>

TakesLen ==
    /\ Takes("Len")
    /\ reply' = [reply EXCEPT ![Head(api).from] = Reply("ok", NewHolder, rows)]
    /\ UNCHANGED <<taskVars, cancelled, chanVars, loopVars, searchVars, viewVars,
                   fileVars>>

\* The results of a search replace what is there; the indexed map follows.
RowsOf(s) == {s[i].row : i \in DOMAIN s}
TakesMatches ==
    /\ Takes("Matches")
    /\ LET r == Head(api).from
           k == Head(api).kind
       IN /\ matches' = [matches EXCEPT ![k] = found[r]]
          /\ indexed' = IF k = "regular" THEN RowsOf(found[r]) ELSE indexed
          /\ reply' = [reply EXCEPT ![r] = Yes]
    /\ UNCHANGED <<taskVars, cancelled, chanVars, loopVars, searchVars, fileVars>>

\* set_matches(None, None).  The answer to a receiver that is gone is an
\* error, which ends the loop: whoever waits in its channel loses its answer.
TakesClear ==
    /\ Takes("Clear")
    /\ Head(api).from # None
    /\ matches' = [matches EXCEPT !["regular"] = <<>>]
    /\ reply' = [reply EXCEPT ![Head(api).from] = Yes]
    /\ UNCHANGED <<taskVars, cancelled, chanVars, loopVars, searchVars, indexed,
                   fileVars>>

ClearUnheard ==
    /\ stateLoop = "select"
    /\ api # <<>>
    /\ Head(api).cmd = "Clear"
    /\ Head(api).from = None
    /\ matches' = [matches EXCEPT !["regular"] = <<>>]
    /\ stateLoop' = "failed"
    /\ api' = <<>>
    /\ reply' = [r \in Requests |->
                    IF \E i \in DOMAIN api : api[i].from = r THEN Lost ELSE reply[r]]
    /\ UNCHANGED <<taskVars, cancelled, chanVars, serving, outbox, answer,
                   searchVars, indexed, fileVars>>

\* A busy loop sends to the searchers, when their channel has room.
SendsRequest ==
    /\ outbox # <<>>
    /\ Len(requests) < Capacity
    /\ requests' = Append(requests, Head(outbox))
    /\ outbox' = Tail(outbox)
    /\ UNCHANGED <<taskVars, cancelled, reply, api, responses, pending, stateLoop,
                   serving, answer, searchVars, viewVars, fileVars>>

\* Everything is sent; the drop of a regular search and the holder are
\* answered only when the searchers have answered.
Sent(cmd) == stateLoop = "busy" /\ outbox = <<>> /\ serving.cmd = cmd
Returns   == stateLoop' = "select" /\ serving' = Nothing /\ answer' = NoReply

WriteServed ==
    /\ Sent("Write")
    /\ Returns
    /\ producer' = "idle"
    /\ UNCHANGED <<rows, taskVars, cancelled, reply, api, chanVars, outbox,
                   searchVars, viewVars>>

SetForwarded ==
    /\ Sent("Set")
    /\ Returns
    /\ UNCHANGED <<taskVars, cancelled, reply, api, chanVars, outbox, searchVars,
                   viewVars, fileVars>>

ValuesDropped ==
    /\ Sent("Drop") /\ serving.kind = "values"
    /\ Returns
    /\ matches' = [matches EXCEPT !["values"] = <<>>]
    /\ UNCHANGED <<taskVars, cancelled, reply, api, chanVars, outbox, searchVars,
                   indexed, fileVars>>

\* A slip: only the search map is cleared.
DropServedByHalf ==
    /\ Sent("Drop") /\ serving.kind = "regular"
    /\ answer # NoReply
    /\ Returns
    /\ reply' = [reply EXCEPT ![serving.from] = answer]
    /\ matches' = IF answer = Yes THEN [matches EXCEPT !["regular"] = <<>>] ELSE matches
    /\ UNCHANGED <<taskVars, cancelled, api, chanVars, outbox, searchVars, indexed,
                   fileVars>>

DropServed ==
    /\ Sent("Drop") /\ serving.kind = "regular"
    /\ answer # NoReply
    /\ Returns
    /\ reply' = [reply EXCEPT ![serving.from] = answer]
    /\ IF answer = Yes
       THEN matches' = [matches EXCEPT !["regular"] = <<>>] /\ indexed' = {}
       ELSE UNCHANGED viewVars
    /\ UNCHANGED <<taskVars, cancelled, api, chanVars, outbox, searchVars, fileVars>>

GetServed ==
    /\ Sent("Get")
    /\ answer # NoReply
    /\ Returns
    /\ reply' = [reply EXCEPT ![serving.from] = answer]
    /\ UNCHANGED <<taskVars, cancelled, api, chanVars, outbox, searchVars,
                   viewVars, fileVars>>

\* The other branch of the select!: the searchers have extended a search.
TakesResponse ==
    /\ stateLoop = "select"
    /\ responses # <<>>
    /\ responses' = Tail(responses)
    /\ LET k == Head(responses).kind
           m == Head(responses).matches
       IN /\ matches' = [matches EXCEPT ![k] = @ \o m]
          /\ indexed' = IF k = "regular" THEN indexed \cup RowsOf(m) ELSE indexed
    /\ UNCHANGED <<taskVars, cancelled, reply, api, requests, pending, loopVars,
                   searchVars, fileVars>>

State ==
    \/ TakesWrite \/ TakesForward \/ TakesLen \/ TakesMatches \/ TakesClear
    \/ ClearUnheard \/ SendsRequest \/ WriteServed \/ SetForwarded
    \/ ValuesDropped \/ DropServed \/ GetServed \/ TakesResponse

-----------------------------------------------------------------------------
(* The searchers task.                                                     *)

\* It takes a request of this kind; it takes none while it waits to send.
Serves(cmd) ==
    /\ pending = <<>>
    /\ requests # <<>>
    /\ Head(requests).cmd = cmd
    /\ requests' = Tail(requests)

\* An update extends a search whose holder is there, else it is dropped.
SearchesOn ==
    /\ Serves("Search")
    /\ LET k == Head(requests).kind
           n == Head(requests).upTo
           h == holder[k]
       IN /\ slot[k] = "Available"
          /\ \E io \in {TRUE, ~IoMayFail} :
                IF io /\ ~Idles(h, n)
                THEN /\ pending' = <<[kind |-> k, matches |-> FoundBy(h, n)]>>
                     /\ holder' = [holder EXCEPT ![k] = Advanced(h, n)]
                ELSE /\ pending' = <<[kind |-> k, matches |-> <<>>]>>
                     /\ UNCHANGED holder
    /\ UNCHANGED <<taskVars, cancelled, reply, api, responses, loopVars, slot,
                   viewVars, fileVars>>

SkipsUpdate ==
    /\ Serves("Search")
    /\ slot[Head(requests).kind] # "Available"
    /\ UNCHANGED <<taskVars, cancelled, reply, api, responses, pending, loopVars,
                   searchVars, viewVars, fileVars>>

Responds ==
    /\ pending # <<>>
    /\ Len(responses) < Capacity
    /\ responses' = responses \o pending
    /\ pending' = <<>>
    /\ UNCHANGED <<taskVars, cancelled, reply, api, requests, loopVars, searchVars,
                   viewVars, fileVars>>

\* Slips: a holder that is in use is lent once more, and a holder that is
\* lent stays available as well.
LendsAnyway ==
    /\ Serves("Get")
    /\ LET k == Head(requests).kind IN
        /\ answer' = Reply("ok", holder[k], 0)
        /\ slot' = [slot EXCEPT ![k] = "InUse"]
        /\ holder' = [holder EXCEPT ![k] = NewHolder]
    /\ UNCHANGED <<taskVars, cancelled, reply, api, responses, pending, stateLoop,
                   serving, outbox, viewVars, fileVars>>

LendsCopy ==
    /\ Serves("Get")
    /\ LET k == Head(requests).kind IN
        /\ answer' = IF slot[k] = "InUse" THEN No ELSE Reply("ok", holder[k], 0)
        /\ slot' = [slot EXCEPT ![k] = IF @ = "NotInited" THEN "InUse" ELSE @]
    /\ UNCHANGED <<taskVars, cancelled, reply, api, responses, pending, stateLoop,
                   serving, outbox, holder, viewVars, fileVars>>

\* GetSearchHolder, GetSearchValueHolder: lend it, or make a new one.
LendsHolder ==
    /\ Serves("Get")
    /\ LET k == Head(requests).kind IN
        /\ answer' = IF slot[k] = "InUse" THEN No ELSE Reply("ok", holder[k], 0)
        /\ slot' = [slot EXCEPT ![k] = "InUse"]
        /\ holder' = [holder EXCEPT ![k] = NewHolder]
    /\ UNCHANGED <<taskVars, cancelled, reply, api, responses, pending, stateLoop,
                   serving, outbox, viewVars, fileVars>>

\* The searchers answer r, if it still waits.
Answers(r, a) == reply' = IF r = None THEN reply ELSE [reply EXCEPT ![r] = a]

\* SetSearchHolder, SetValueHolder: refused unless the holder is lent.
TakesHolderBack ==
    /\ Serves("Set")
    /\ LET m == Head(requests)
           lent == slot[m.kind] = "InUse"
       IN /\ Answers(m.from, IF lent THEN Yes ELSE No)
          /\ IF lent
             THEN /\ slot' = [slot EXCEPT ![m.kind] =
                                 IF m.some THEN "Available" ELSE "NotInited"]
                  /\ holder' = [holder EXCEPT ![m.kind] = m.holder]
             ELSE UNCHANGED searchVars
    /\ UNCHANGED <<taskVars, cancelled, api, responses, pending, loopVars,
                   viewVars, fileVars>>

\* A slip: a refusal is not answered.
DropsSilently ==
    /\ Serves("Drop")
    /\ LET m == Head(requests)
           lent == slot[m.kind] = "InUse"
       IN IF lent THEN UNCHANGED <<answer, reply, searchVars>>
          ELSE /\ IF m.kind = "regular" THEN answer' = Yes /\ UNCHANGED reply
                                        ELSE Answers(m.from, Yes) /\ UNCHANGED answer
               /\ slot' = [slot EXCEPT ![m.kind] = "NotInited"]
               /\ holder' = [holder EXCEPT ![m.kind] = NewHolder]
    /\ UNCHANGED <<taskVars, cancelled, api, responses, pending, stateLoop,
                   serving, outbox, viewVars, fileVars>>

\* DropSearch, DropSearchValue: refused while the holder is lent.
DropsHolder ==
    /\ Serves("Drop")
    /\ LET m == Head(requests)
           lent == slot[m.kind] = "InUse"
           a == IF lent THEN No ELSE Yes
       IN /\ IF m.kind = "regular" THEN answer' = a /\ UNCHANGED reply
                                   ELSE Answers(m.from, a) /\ UNCHANGED answer
          /\ IF lent THEN UNCHANGED searchVars
                     ELSE /\ slot' = [slot EXCEPT ![m.kind] = "NotInited"]
                          /\ holder' = [holder EXCEPT ![m.kind] = NewHolder]
    /\ UNCHANGED <<taskVars, cancelled, api, responses, pending, stateLoop,
                   serving, outbox, viewVars, fileVars>>

Searchers ==
    \/ SearchesOn \/ SkipsUpdate \/ Responds \/ LendsHolder \/ TakesHolderBack
    \/ DropsHolder

-----------------------------------------------------------------------------
Next ==
    /\ \/ \E r \in Requests : Task(r) \/ BackgroundEnds(r) \/ Cancelled(r)
       \/ Produces
       \/ State
       \/ Searchers
    /\ UNCHANGED plan

\* Every task is polled again once what it waits for is there.  Nothing
\* obliges the producer to write, a client to abort, or a timer to win
\* against a result, and nothing is assumed of the choices of select!.
Fairness ==
    /\ \A r \in Requests : WF_vars(Task(r)) /\ WF_vars(BackgroundEnds(r))
    /\ WF_vars(State)
    /\ WF_vars(Searchers)

Spec == Init /\ [][Next]_<<plan, vars>> /\ Fairness

-----------------------------------------------------------------------------
(* Properties.                                                             *)

Steps == {"new", "clearing", "dropping", "retry", "len", "get", "search",
          "putBack", "put", "fail", "tick", "cancel", "show", "failDrop",
          "cancelDrop", "done", "failed"}

TypeOK ==
    /\ plan \in Plans
    /\ rows \in Nat
    /\ pc \in [Requests -> Steps]
    /\ target \in [Requests -> Nat]
    /\ held \in [Requests -> Holders]
    /\ background \in [Requests -> {"none", "running", "found", "error", "gone"}]
    /\ found \in [Requests -> Seq(Matches)]
    /\ reply \in [Requests -> Replies]
    /\ api \in Seq(Messages)
    /\ stateLoop \in {"select", "busy", "failed"}
    /\ serving \in Messages
    /\ outbox \in Seq(Messages)
    /\ answer \in Replies
    /\ requests \in Seq(Messages)
    /\ responses \in Seq([kind : Kinds, matches : Seq(Matches)])
    /\ pending \in Seq([kind : Kinds, matches : Seq(Matches)])
    /\ slot \in [Kinds -> {"NotInited", "Available", "InUse"}]
    /\ holder \in [Kinds -> Holders]
    /\ matches \in [Kinds -> Seq(Matches)]

\* r has, or is about to be handed, the holder of its kind, and the searchers
\* have not taken it back.
Borrows(r) ==
    \/ pc[r] = "get" /\ reply[r].status = "ok"
    \/ serving.cmd = "Get" /\ serving.from = r /\ answer.status = "ok"
    \/ pc[r] \in {"search", "tick"}
    \/ pc[r] \in {"put", "putBack", "fail", "cancel"} /\ reply[r] = NoReply
Borrowers(k) == {r \in Requests : KindOf(r) = k /\ Borrows(r)}

\* A lent holder is with exactly one operation, and one that is not lent is
\* with none: no two searches share a holder and none is lost, whatever is
\* cancelled, fails or is dropped in between.  (A session whose state loop
\* has ended is over: its holders are not asked for again.)  So none that is
\* brought back is refused ("Cannot set search holder - it wasn't in use").
HolderHasOneOwner ==
    /\ stateLoop # "failed" =>
        \A k \in Kinds :
            Cardinality(Borrowers(k)) = (IF slot[k] = "InUse" THEN 1 ELSE 0)
    /\ \A r \in Requests :
        pc[r] \in {"put", "putBack", "fail", "cancel"} => reply[r].status # "refused"

\* No row is shown twice for one search: the full search and the updates
\* after it read disjoint parts of the file, in whatever order their results
\* reach the state loop.
NoRowTwice ==
    \A k \in Kinds : \A i, j \in DOMAIN matches[k] :
        i # j => matches[k][i] # matches[k][j]

\* Nothing is under way.
Quiet ==
    /\ api = <<>> /\ requests = <<>> /\ responses = <<>> /\ pending = <<>>
    /\ stateLoop = "select"
    /\ \A r \in Requests : pc[r] \in {"new", "done", "failed"}

\* Once nothing is under way the indexed map holds the rows of the search
\* map, though ticks clear only one of the two: who has borrowed the holder
\* last sets both or clears both.  (A command that only puts the holder back
\* does neither, so after the refusal of its filters they may differ.)
IndexFollowsMap ==
    Quiet /\ (\A r \in Requests : pc[r] # "new" => Asked(r) \in {"filters", "drop"}) =>
        indexed = RowsOf(matches["regular"])

\* In the end every search and every drop that was started has come to its
\* end, and the holder of its kind is back, unless the session ends before.
CommandsEnd ==
    <>[](\A r \in Requests :
            pc[r] # "new" =>
                /\ pc[r] \in {"done", "failed"}
                /\ slot[KindOf(r)] # "InUse" \/ stateLoop = "failed")

\* The searchers, the state loop and the tasks implement the handover of the
\* regular holder: an update never moves a holder that is lent, and a holder
\* at home never moves back without being reset.
Owner(k) ==
    IF Borrowers(k) = {} THEN None ELSE CHOOSE r \in Borrowers(k) : TRUE
Regular == INSTANCE HolderHandover WITH
    Users <- Requests, owner <- Owner("regular"), position <- holder["regular"].upTo
RegularHandover == Regular!Spec
===========================================================================
