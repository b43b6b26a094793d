------------------------------ MODULE SearchView ------------------------------
(***************************************************************************)
(* What a session shows of its search (app: session/ui/shared/searching),  *)
(* with the service between it and the core (app: session/service), and as *)
(* much of the core as sends it news.                                      *)
(*                                                                         *)
(* The view changes its state at once and sends commands; the core answers *)
(* with callbacks that say what changed, not what is: the view appends the *)
(* matches it is told of and subtracts counts, so each message has to fit  *)
(* the state it meets.  The service forwards callbacks in their order, but *)
(* it answers a nested search at once: the answer may overtake callbacks   *)
(* that are not forwarded yet.  When they are forwarded is not a step: the *)
(* answer goes to any place in the queue that it could have had.           *)
(*                                                                         *)
(* The searches of the core are those of SearchProtocol with fewer steps:  *)
(* the rows that are lost between the return of a holder and its results   *)
(* are a matter of that module, here the two are one step.                 *)
(***************************************************************************)
EXTENDS Naturals, FiniteSets, Sequences, SequencesExt

CONSTANTS
  MaxOps,        \* bound: searches
  FirstRows,     \* rows of the session before anything is searched
  MaxRows,       \* bound: rows of the session
  MaxTries,      \* RETRY_ATTEMPTS
  MaxAsides,     \* bound: ticks of searches and bookmarks set or removed, in all
  MaxRequests,   \* bound: nested searches
  Matching,      \* Matching[o]: the rows that search o matches
  Hits,          \* Hits[f]: the rows that the filter f of a nested search is for
  Markable       \* rows that may be bookmarked

ASSUME ViewAssumption ==
  /\ MaxOps \in Nat \ {0} /\ MaxTries \in Nat \ {0}
  /\ MaxRows \in Nat \ {0} /\ FirstRows \in 0 .. MaxRows
  /\ MaxAsides \in Nat /\ MaxRequests \in Nat
  /\ Matching \in [1 .. MaxOps -> SUBSET (1 .. MaxRows)]
  /\ \A f \in DOMAIN Hits : Hits[f] \subseteq 1 .. MaxRows
  /\ DOMAIN Hits \subseteq Nat \ {0} /\ Markable \subseteq 1 .. MaxRows

VARIABLES
  view,        \* SearchState
  nested,      \* NestedSearchState, and the row that it has gone to
  commands,    \* from the view to the service
  inbox,       \* from the core and the service to the view
  core,        \* the map of matches, the index and the slot of the holder
  task         \* the searches

uiVars == <<view, nested>>
viewVars == <<uiVars, commands, inbox, core, task>>

Ops == 1 .. MaxOps
NoOp == 0
NoAnchor == 0   \* anchors count from 1

NoFilter == 0

(* `row` and `found` say what the anchor was, and whether it was an answer; *)
(* `missed` says that a search was left without a drop although it had not  *)
(* ended, because results of an earlier one had ended its phase.            *)
NoNested == [filter |-> NoFilter, anchor |-> NoAnchor, row |-> 0,
             found |-> FALSE, pending |-> 0, made |-> 0]

ViewInit ==
  /\ view = [op |-> NoOp, phase |-> "none", shown |-> << >>, count |-> 0,
             indexed |-> 0, made |-> 0, missed |-> FALSE]
  /\ nested = NoNested
  /\ commands = << >> /\ inbox = << >>
  /\ core = [rows |-> FirstRows, map |-> << >>, found |-> {}, marks |-> {},
             slot |-> "empty", by |-> NoOp, upTo |-> 0, asides |-> 0]
  /\ task = [o \in Ops |-> [at |-> "none", tries |-> 0,
                            aborted |-> FALSE, ends |-> "none"]]

-------------------------------------------------------------------------------
(* What the core tells *)

PhaseIs(o, p) == [is |-> "phase", op |-> o, phase |-> p]
CountIs(n) == [is |-> "count", n |-> n]
MoreFound(list) == [is |-> "found", list |-> list]
Cleared == [is |-> "cleared"]
IndexedIs(c) == [is |-> "indexed", n |-> Cardinality(c.found \cup c.marks)]
Answer(r, at, row) == [is |-> "answer", request |-> r, at |-> at, row |-> row]

Tells(events) == inbox' = inbox \o events

WithoutSearch(c) == [c EXCEPT !.map = << >>, !.found = {}, !.slot = "empty"]

(* Slip: a drop that is refused is not told. *)
DropOfSilently(c) ==
  IF c.slot = "lent" THEN [core |-> c, events |-> << >>]
  ELSE [core |-> WithoutSearch(c), events |-> <<CountIs(0), Cleared>>]

(* Api::DropSearch: refused while the holder is lent, and told in any case. *)
DropOf(c) ==
  IF c.slot = "lent"
  THEN [core |-> c, events |-> <<CountIs(0), Cleared>>]
  ELSE [core   |-> WithoutSearch(c),
        events |-> <<IndexedIs(WithoutSearch(c)), CountIs(0), Cleared>>]

(* The rows from .. to that o matches, in their order *)
MatchesOf(o, from, to) ==
  LET hits == {row \in from .. to : row \in Matching[o]}
  IN  [i \in 1 .. Cardinality(hits) |->
         CHOOSE row \in hits : Cardinality({r \in hits : r < row}) = i - 1]

-------------------------------------------------------------------------------
(* The searches.  Each is a task of its own.                                *)

At(o, a) == task' = [task EXCEPT ![o].at = a]

Begins(o) ==
  /\ task[o].at = "queued"
  /\ At(o, "drops")
  /\ Tells(<<PhaseIs(o, "running")>>)
  /\ UNCHANGED <<uiVars, commands, core>>

(* wait_until_search_dropped *)
TriesToDrop(o) ==
  /\ task[o].at = "drops"
  /\ LET d == DropOf(core)
         free == core.slot # "lent"
         last == task[o].tries + 1 = MaxTries
     IN  /\ core' = d.core
         /\ task' = [task EXCEPT ![o].tries = @ + 1,
              ![o].at = CASE free -> "asks" [] ~free /\ last -> "ended"
                          [] OTHER -> "drops"]
         /\ Tells(IF ~free /\ last THEN Append(d.events, PhaseIs(o, "failed"))
                  ELSE d.events)
  /\ UNCHANGED <<uiVars, commands>>

(* get_search_holder: it may have been lent in between. *)
GetsHolder(o) ==
  /\ task[o].at = "asks"
  /\ IF core.slot = "lent"
     THEN At(o, "ended") /\ Tells(<<PhaseIs(o, "failed")>>) /\ UNCHANGED core
     ELSE /\ At(o, "searches")
          /\ core' = [core EXCEPT !.slot = "lent", !.by = o, !.upTo = core.rows]
          /\ UNCHANGED inbox
  /\ UNCHANGED <<uiVars, commands>>

Ticks(o) ==
  /\ task[o].at = "searches" /\ ~task[o].aborted /\ core.asides < MaxAsides
  /\ core' = [core EXCEPT !.map = << >>, !.asides = @ + 1]
  /\ Tells(<<Cleared, CountIs(0)>>)
  /\ UNCHANGED <<uiVars, commands, task>>

(* The results of a search are passed on unless it is cancelled by then;    *)
(* a cancellation may still come before they are taken, or after.           *)
Finds(o) ==
  /\ task[o].at = "searches" /\ ~task[o].aborted
  /\ At(o, "found")
  /\ UNCHANGED <<uiVars, commands, inbox, core>>

(* The results become the map, and are told as if they were appended. *)
SetBy(o, c) ==
  LET list == MatchesOf(o, 1, c.upTo)
  IN  [c EXCEPT !.map = list, !.found = ToSet(list)]

GivesHolderBack(o) ==
  /\ task[o].at = "found"
  /\ LET c == SetBy(o, [core EXCEPT !.slot = "ready"])
     IN  /\ core' = c
         /\ Tells(<<IndexedIs(c), MoreFound(c.map), CountIs(Len(c.map)),
                    PhaseIs(o, "success")>>)
  /\ At(o, "ended")
  /\ UNCHANGED <<uiVars, commands>>

(* A search that fails, or that was cancelled: the slot is emptied.         *)
Breaks(o) ==
  /\ \/ task[o].at = "searches" /\ ~task[o].aborted
        /\ task' = [task EXCEPT ![o].at = "clears", ![o].ends = "failed"]
     \/ task[o].at \in {"searches", "found"} /\ task[o].aborted
        /\ task' = [task EXCEPT ![o].at = "clears", ![o].ends = "success"]
  /\ core' = [core EXCEPT !.slot = "empty"]
  /\ UNCHANGED <<uiVars, commands, inbox>>

Clears(o) ==
  /\ task[o].at = "clears"
  /\ core' = DropOf(core).core
  /\ Tells(Append(DropOf(core).events, PhaseIs(o, task[o].ends)))
  /\ At(o, "ended")
  /\ UNCHANGED <<uiVars, commands>>

Searches(o) ==
  \/ Begins(o) \/ TriesToDrop(o) \/ GetsHolder(o) \/ Ticks(o) \/ Finds(o)
  \/ GivesHolderBack(o) \/ Breaks(o) \/ Clears(o)

-------------------------------------------------------------------------------
(* Rows are written: a holder that waits searches those it has not seen.    *)

AppendedTo(c, list) ==
  [c EXCEPT !.map = @ \o list, !.found = @ \cup ToSet(list)]

AppendEvents(c, list) ==
  <<IndexedIs(AppendedTo(c, list)), CountIs(Len(c.map) + Len(list)),
    MoreFound(list)>>

Writes ==
  /\ core.rows < MaxRows
  /\ LET c    == [core EXCEPT !.rows = @ + 1]
         list == MatchesOf(c.by, c.upTo + 1, c.rows)
     IN  IF c.slot = "ready"
         THEN /\ core' = AppendedTo([c EXCEPT !.upTo = c.rows], list)
              /\ Tells(AppendEvents(c, list))
         ELSE core' = c /\ UNCHANGED inbox
  /\ UNCHANGED <<uiVars, commands, task>>

-------------------------------------------------------------------------------
(* Nested search: the candidates in the order in which they are looked at,  *)
(* with the positions and the anchor counted from 1.                        *)

(* Slip: back over the first result, the rest is looked at from its front.  *)
CandidateAtTurned(n, anchor, next, offset) ==
  LET after == n - anchor
  IN  CASE anchor = NoAnchor /\ next -> offset
        [] anchor = NoAnchor /\ ~next -> n + 1 - offset
        [] anchor # NoAnchor /\ next ->
             IF offset <= after THEN anchor + offset ELSE offset - after
        [] OTHER ->
             IF offset < anchor THEN anchor - offset ELSE offset + 1

(* candidate_index *)
CandidateAt(n, anchor, next, offset) ==
  LET after == n - anchor
  IN  CASE anchor = NoAnchor /\ next -> offset
        [] anchor = NoAnchor /\ ~next -> n + 1 - offset
        [] anchor # NoAnchor /\ next ->
             IF offset <= after THEN anchor + offset ELSE offset - after
        [] OTHER ->
             IF offset < anchor THEN anchor - offset ELSE n - (offset - anchor)

(* A stale anchor is taken for none. *)
Candidates(n, anchor, next) ==
  LET from == IF anchor <= n THEN anchor ELSE NoAnchor
      many == IF from = NoAnchor THEN n ELSE n - 1
  IN  [offset \in 1 .. many |-> CandidateAt(n, from, next, offset)]

(* handle_search_nested_match *)
NestedMatch(map, f, anchor, next) ==
  LET list == Candidates(Len(map), anchor, next)
      hit  == SelectInSeq(list, LAMBDA n : map[n] \in Hits[f])
  IN  IF hit = 0 THEN NoAnchor ELSE list[hit]

-------------------------------------------------------------------------------
(* The service takes a command or a callback.                               *)

AbortsAndDrops(o) ==
  /\ core' = DropOf(core).core
  /\ Tells(DropOf(core).events)
  /\ task' = IF o # NoOp /\ task[o].at # "ended"
             THEN [task EXCEPT ![o].aborted = TRUE] ELSE task

Answers(cmd) ==
  LET n == NestedMatch(core.map, cmd.filter, cmd.anchor, cmd.next)
      row == IF n = NoAnchor THEN 0 ELSE core.map[n]
  IN  /\ \E k \in 1 .. Len(inbox) + 1 :
           /\ \A i \in k .. Len(inbox) : inbox[i].is # "answer"
           /\ inbox' = InsertAt(inbox, k, Answer(cmd.request, n, row))
      /\ UNCHANGED <<core, task>>

(* A bookmark is set or removed. *)
Marks(row) ==
  /\ LET c == [core EXCEPT !.marks = IF row \in @ THEN @ \ {row} ELSE @ \cup {row}]
     IN  core' = c /\ Tells(<<IndexedIs(c)>>)
  /\ UNCHANGED task

TakesCommand ==
  /\ commands # << >>
  /\ commands' = Tail(commands)
  /\ LET cmd == Head(commands)
     IN  \/ cmd.is = "drop" /\ AbortsAndDrops(cmd.op)
         \/ cmd.is = "apply" /\ At(cmd.op, "queued") /\ UNCHANGED <<core, inbox>>
         \/ cmd.is = "find" /\ Answers(cmd)
         \/ cmd.is = "mark" /\ Marks(cmd.row)
  /\ UNCHANGED uiVars

-------------------------------------------------------------------------------
(* The view                                                                 *)

(* reset_search_counts: what is left of the index are the bookmarks. *)
Minus(a, b) == IF a > b THEN a - b ELSE 0

CountsReset(v) == [v EXCEPT !.indexed = Minus(@, v.count), !.count = 0]

(* clear_matches, of a map that the core has dropped *)
ShownCleared(v) == [CountsReset(v) EXCEPT !.shown = << >>]

(* drop_search *)
SearchLeft(v) == [ShownCleared(v) EXCEPT !.op = NoOp, !.phase = "none"]

Closed(ns) == [NoNested EXCEPT !.made = ns.made]

IsRunning == view.op # NoOp /\ view.phase = "running"

DropOfRunning == IF IsRunning THEN <<[is |-> "drop", op |-> view.op]>> ELSE << >>

IsAtRest(o) == task[o].at \in {"none", "ended"}

AllAtRest == commands = << >> /\ \A o \in Ops : IsAtRest(o)

(* What was missed is over once a search is left while none is under way. *)
Missed ==
  /\ ~AllAtRest
  /\ \/ view.missed
     \/ view.op # NoOp /\ ~IsRunning /\ task[view.op].at # "ended"

(* sync_filter_search_pipeline with filters, and without any; nothing is    *)
(* left to drop after the latter.                                           *)
AppliesFilters ==
  /\ view.made < MaxOps
  /\ LET o == view.made + 1
     IN  /\ view' = [SearchLeft(view) EXCEPT !.op = o, !.phase = "running",
                                             !.made = o, !.missed = Missed]
         /\ commands' = commands \o Append(DropOfRunning, [is |-> "apply", op |-> o])
  /\ nested' = Closed(nested)
  /\ UNCHANGED <<inbox, core, task>>

DropsFilters ==
  /\ view.op # NoOp
  /\ view' = [SearchLeft(view) EXCEPT !.missed = Missed]
  /\ commands' = Append(commands,
       [is |-> "drop", op |-> IF IsRunning THEN view.op ELSE NoOp])
  /\ nested' = Closed(nested)
  /\ UNCHANGED <<inbox, core, task>>

(* Bound: a bookmark is only set while matches are counted. *)
MarksRow ==
  /\ core.asides < MaxAsides /\ view.count > 0
  /\ \E row \in Markable :
       /\ row <= core.rows
       /\ commands' = Append(commands, [is |-> "mark", row |-> row])
  /\ core' = [core EXCEPT !.asides = @ + 1]
  /\ UNCHANGED <<uiVars, inbox, task>>

(* apply_filter of another filter: what was asked for the old one is moot.  *)
(* Bound: filters are applied in their order until the search is closed.    *)
AppliesNestedFilter ==
  /\ view.count > 0 /\ nested.filter + 1 \in DOMAIN Hits
  /\ nested' = [Closed(nested) EXCEPT !.filter = nested.filter + 1]
  /\ UNCHANGED <<view, commands, inbox, core, task>>

(* request_match: one request at a time, while there are results. *)
Navigates(next) ==
  /\ view.count > 0 /\ nested.filter # NoFilter
  /\ nested.pending = 0 /\ nested.made < MaxRequests
  /\ LET r == nested.made + 1
     IN  /\ nested' = [nested EXCEPT !.made = r, !.pending = r]
         /\ commands' = Append(commands,
              [is |-> "find", request |-> r, filter |-> nested.filter,
               anchor |-> nested.anchor, next |-> next])
  /\ UNCHANGED <<view, inbox, core, task>>

Anchored(ns, n, row, found) ==
  [ns EXCEPT !.anchor = n, !.row = row, !.found = found]

(* update_nested_anchor: a row of the results is selected. *)
Selects ==
  /\ nested.filter # NoFilter
  /\ \E n \in DOMAIN view.shown :
       /\ \A m \in DOMAIN view.shown : view.shown[m] = view.shown[n] => m <= n
       /\ nested' = Anchored(nested, n, view.shown[n], FALSE)
  /\ UNCHANGED <<view, commands, inbox, core, task>>

(* update_operation *)
HearsOfPhase(m) ==
  /\ view' = IF view.op = m.op THEN [view EXCEPT !.phase = m.phase] ELSE view
  /\ UNCHANGED nested

(* append_matches, which ends the phase of whatever search there is. *)
HearsOfMatches(m) ==
  /\ view' = IF view.op = NoOp THEN view
             ELSE [view EXCEPT !.phase = "success", !.shown = @ \o m.list]
  /\ UNCHANGED nested

HearsOfCount(m) ==
  /\ view' = [view EXCEPT !.count = m.n]
  /\ nested' = IF m.n = 0 THEN Closed(nested) ELSE nested

Answered(ns, m) ==
  IF m.at = NoAnchor THEN [ns EXCEPT !.pending = 0]
  ELSE Anchored([ns EXCEPT !.pending = 0], m.at, m.row, TRUE)

(* Slip: any answer will do while one is waited for, or none. *)
AcceptsAnyAnswer(m) == nested' = Answered(nested, m) /\ UNCHANGED view

(* handle_nested_result *)
AcceptsAnswer(m) ==
  /\ nested' = IF nested.pending = m.request THEN Answered(nested, m) ELSE nested
  /\ UNCHANGED view

HandlesMessage ==
  /\ inbox # << >>
  /\ inbox' = Tail(inbox)
  /\ LET m == Head(inbox)
     IN  \/ m.is = "phase" /\ HearsOfPhase(m)
         \/ m.is = "found" /\ HearsOfMatches(m)
         \/ m.is = "cleared" /\ view' = ShownCleared(view) /\ UNCHANGED nested
         \/ m.is = "count" /\ HearsOfCount(m)
         \/ m.is = "indexed" /\ view' = [view EXCEPT !.indexed = m.n] /\ UNCHANGED nested
         \/ m.is = "answer" /\ AcceptsAnswer(m)
  /\ UNCHANGED <<commands, core, task>>

User ==
  \/ AppliesFilters \/ DropsFilters \/ MarksRow
  \/ AppliesNestedFilter \/ Navigates(TRUE) \/ Navigates(FALSE) \/ Selects

System ==
  \/ \E o \in Ops : Searches(o)
  \/ TakesCommand \/ HandlesMessage

ViewNext == User \/ System \/ Writes

ViewSpec == ViewInit /\ [][ViewNext]_viewVars

-------------------------------------------------------------------------------
Quiet == AllAtRest /\ inbox = << >>

(* sync_filter_search_pipeline: "we issue a drop-then-apply sequence so a   *)
(* running search does not keep the holder in use".  A search that was left *)
(* is over, or cancelled, once the commands have been taken; unless late    *)
(* results of an earlier search had made the view take it for finished.     *)
LeftIsDropped ==
  commands = << >> /\ ~view.missed =>
    \A o \in Ops \ {view.op} :
      task[o].at \in {"none", "clears", "ended"} \/ task[o].aborted

(* The core has the matches that the view shows, in that order, and both of *)
(* its counts. *)
ShowsCore ==
  /\ view.shown = core.map
  /\ view.count = Len(core.map)
  /\ view.indexed = Cardinality(core.found \cup core.marks)

(* Whatever searches are replaced, cancelled or refused on the way: one that *)
(* was left does not go on, and once all messages have been handled the view *)
(* of a search shows what the core has, unless a search was left without its *)
(* drop, and nothing is waited for: a search that is shown as running, and a *)
(* nested search that was asked for, have been heard of. *)
ViewFollowsCore ==
  /\ LeftIsDropped
  /\ Quiet =>
    /\ view.op # NoOp /\ ~view.missed => ShowsCore
    /\ ~IsRunning /\ nested.pending = 0

(* At rest, in a search, the row that nested navigation continues from is   *)
(* the row that it went to or that was selected last, and one that it went  *)
(* to is a hit of its filter: no answer about other results or to another   *)
(* filter was taken, although answers overtake the news of those results;   *)
(* with the same exception. *)
NestedIsCurrent ==
  Quiet /\ view.op # NoOp /\ ~view.missed /\ nested.anchor # NoAnchor =>
    /\ nested.anchor \in DOMAIN view.shown
    /\ view.shown[nested.anchor] = nested.row
    /\ nested.found => nested.row \in Hits[nested.filter]

(* handle_search_nested_match: "The anchor is excluded, navigation wraps    *)
(* once": of all hits but the anchor the answer is the first one on the way *)
(* around the results.                                                      *)
Steps(n, from, to, next) ==
  LET d == IF next THEN to - from ELSE from - to IN IF d > 0 THEN d ELSE d + n

NestedFindsNearest ==
  \A f \in DOMAIN Hits, anchor \in 1 .. Len(core.map), next \in BOOLEAN :
    LET n     == Len(core.map)
        hits  == {h \in 1 .. n : core.map[h] \in Hits[f]} \ {anchor}
        found == NestedMatch(core.map, f, anchor, next)
    IN  IF hits = {} THEN found = NoAnchor
        ELSE /\ found \in hits
             /\ \A h \in hits : Steps(n, anchor, found, next) <= Steps(n, anchor, h, next)
===============================================================================
