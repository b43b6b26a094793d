---------------------------- MODULE SessionFilters ----------------------------
(***************************************************************************)
(* The filters and search values of the open sessions, as the user changes *)
(* them (app: session/ui/shared, the filters side panel, the library, the  *)
(* search bar, presets, the restore of a recent session).                  *)
(*                                                                         *)
(* A session keeps rows [id, enabled] for each kind, in an order that the  *)
(* backend's results refer to, and perhaps a temporary search that goes    *)
(* before all filters.  After a change it tells the backend (`asked`) and  *)
(* marks itself for the store of recent sessions (`bumped`).  The handlers *)
(* run one at a time in the frame of the application; each is one action.  *)
(* What the backend does with it is SearchView.                            *)
(***************************************************************************)
EXTENDS FilterRegistry, Sequences, SequencesExt

CONSTANTS
  Presets,        \* presets and saved states: at most one entry of a kind
  NoEntry,
  Typed,          \* texts that are typed as a temporary search
  EditsMayMeet    \* an edit may give a row the definition of another row

FiltersConstants ==
  /\ RegistryConstants
  /\ Presets \subseteq
       [Kinds -> [text : Texts, enabled : BOOLEAN] \cup {NoEntry}]
  /\ NoEntry \notin [text : Texts, enabled : BOOLEAN]
  /\ Typed \subseteq Texts
  /\ EditsMayMeet \in BOOLEAN

ASSUME FiltersAssumption == FiltersConstants

VARIABLES
  registry,
  open,           \* sessions that have a tab
  session         \* what each of them keeps

vars == <<registry, open, session>>

Rows == [id : Ids, enabled : BOOLEAN]

SessionStates ==
  [rows    : [Kinds -> Seq(Rows)],
   temp    : Texts \cup {NoText},      \* active_temp_search
   asked   : [Kinds -> Seq(Texts)],
   bumped  : BOOLEAN,                  \* recent_revision # last_revision
   due     : SUBSET Kinds]             \* pending_search_restore

NewSession ==
  [rows |-> [k \in Kinds |-> << >>], temp |-> NoText,
   asked |-> [k \in Kinds |-> << >>], bumped |-> FALSE, due |-> {}]

Init ==
  /\ registry = EmptyRegistry
  /\ open = {}
  /\ session = [s \in Sessions |-> NewSession]

-------------------------------------------------------------------------------
(* Rows.  p is a pair [reg, ses] on which a handler of session s works.     *)

(* The elements of a sequence at some of its positions, in their order. *)
Kept(seq, kept) ==
  LET Place(n) == CHOOSE i \in kept : Cardinality({j \in kept : j <= i}) = n
  IN  [n \in 1 .. Cardinality(kept) |-> seq[Place(n)]]

IdsOf(rows) == {rows[n].id : n \in DOMAIN rows}

HasRow(ses, k, i) == i \in IdsOf(ses.rows[k])

FirstRow(ses, k, i) == SelectInSeq(ses.rows[k], LAMBDA row : row.id = i)

IsEnabled(ses, k, i) ==
  HasRow(ses, k, i) /\ ses.rows[k][FirstRow(ses, k, i)].enabled

SetEnabled(ses, k, i, e) ==
  IF HasRow(ses, k, i) /\ IsEnabled(ses, k, i) # e
  THEN [ses EXCEPT !.rows[k][FirstRow(ses, k, i)].enabled = e, !.bumped = TRUE]
  ELSE ses

(* apply_filter_with_state *)
WithRow(p, s, k, i, e) ==
  IF HasRow(p.ses, k, i)
  THEN [p EXCEPT !.ses = SetEnabled(p.ses, k, i, e)]
  ELSE [reg |-> Applied(p.reg, k, i, s),
        ses |-> [p.ses EXCEPT !.rows[k] = Append(@, [id |-> i, enabled |-> e]),
                              !.bumped = TRUE]]

(* unapply_filter *)
WithoutRow(p, s, k, i) ==
  IF HasRow(p.ses, k, i)
  THEN [reg |-> Unapplied(p.reg, k, i, s),
        ses |-> [p.ses EXCEPT !.rows[k] = Kept(@, {n \in DOMAIN @ : @[n].id # i}),
                              !.bumped = TRUE]]
  ELSE p

WithoutRows(p, s, k) ==
  [reg |-> [p.reg EXCEPT !.usage[k] =
              [i \in Ids |-> IF HasRow(p.ses, k, i) THEN @[i] \ {s} ELSE @[i]]],
   ses |-> [p.ses EXCEPT !.rows[k] = << >>,
                         !.bumped = @ \/ p.ses.rows[k] # << >>]]

(* rebind_filter: the first row with the id, whatever the others have.      *)
ReboundQuietly(ses, k, i, j) ==   \* slip: not marked for saving
  IF HasRow(ses, k, i)
  THEN [ses EXCEPT !.rows[k][FirstRow(ses, k, i)].id = j]
  ELSE ses

Rebound(ses, k, i, j) ==
  IF HasRow(ses, k, i)
  THEN [ses EXCEPT !.rows[k][FirstRow(ses, k, i)].id = j, !.bumped = TRUE]
  ELSE ses

(* move_filter: to an insertion slot between the rows as they were. *)
Moved(rows, n, slot) ==
  InsertAt(RemoveAt(rows, n), IF slot > n THEN slot - 1 ELSE slot, rows[n])

MovedTo(ses, k, i, slot) ==
  IF /\ HasRow(ses, k, i)
     /\ Moved(ses.rows[k], FirstRow(ses, k, i), slot) # ses.rows[k]
  THEN [ses EXCEPT !.rows[k] = Moved(@, FirstRow(ses, k, i), slot),
                   !.bumped = TRUE]
  ELSE ses

-------------------------------------------------------------------------------
(* What the backend is asked for *)

EnabledRows(ses, k) ==
  Kept(ses.rows[k], {n \in DOMAIN ses.rows[k] : ses.rows[k][n].enabled})

KnownRows(r, k, rows) ==
  Kept(rows, {n \in DOMAIN rows : rows[n].id \in Defined(r, k)})

(* Rows whose definition is gone are passed over. *)
TextsOf(r, k, rows) ==
  LET known == KnownRows(r, k, rows)
  IN  [n \in DOMAIN known |-> r.defs[k][known[n].id]]

Effective(p, k) ==
  IF k = "filter" /\ p.ses.temp # NoText THEN <<p.ses.temp>>
  ELSE TextsOf(p.reg, k, EnabledRows(p.ses, k))

(* sync_search: the commands for a kind are sent. *)
Synced(p, kinds) ==
  [p EXCEPT !.ses.asked =
     [k \in Kinds |-> IF k \in kinds THEN Effective(p, k) ELSE @[k]]]

(* sync_persistent_search: filters wait behind a temporary search. *)
SyncedRows(p, kinds) ==
  Synced(p, IF p.ses.temp # NoText THEN kinds \ {"filter"} ELSE kinds)

Of(s) == [reg |-> registry, ses |-> session[s]]

Becomes(s, p) ==
  /\ registry' = p.reg
  /\ session' = [session EXCEPT ![s] = p.ses]
  /\ UNCHANGED open

-------------------------------------------------------------------------------
(* The search bar and the temporary search *)

(* Enter in the search bar, or a filter used as a temporary search. *)
AppliesTemp(s, t) ==
  Becomes(s, Synced([Of(s) EXCEPT !.ses.temp = t], {"filter"}))

DropsTemp(s) ==
  /\ session[s].temp # NoText
  /\ Becomes(s, Synced([Of(s) EXCEPT !.ses.temp = NoText], {"filter"}))

(* pin_temp_search, pin_temp_search_as_value; the change is noted even if   *)
(* the row was there.                                                       *)
Pinned(s, k) ==
  {[WithRow([reg |-> a.reg, ses |-> [session[s] EXCEPT !.temp = NoText]],
            s, k, a.id, TRUE) EXCEPT !.ses.bumped = TRUE] :
     a \in Added(registry, k, session[s].temp)}

PinsTempAlone(s, k) ==   \* slip: a pinned value syncs the values alone
  /\ session[s].temp # NoText
  /\ k = "value" => session[s].temp \in Charted
  /\ \E p \in Pinned(s, k) : Becomes(s, Synced(p, {k}))

PinsTemp(s, k) ==
  /\ session[s].temp # NoText
  /\ k = "value" => session[s].temp \in Charted
  /\ \E p \in Pinned(s, k) : Becomes(s, Synced(p, {"filter", k}))

-------------------------------------------------------------------------------
(* The side panel *)

(* Whether the edit gives the row a definition that another row has. *)
Meets(s, k, i, a) == a.id # i /\ HasRow(session[s], k, a.id)

EditsText(s, k, i, t) ==
  /\ CanEdit(registry, k, i, s)
  /\ k = "value" => t \in Charted
  /\ \E a \in Edited(registry, k, i, s, t) :
       /\ EditsMayMeet \/ ~Meets(s, k, i, a)
       /\ LET ses == IF a.id = i THEN [session[s] EXCEPT !.bumped = TRUE]
                     ELSE Rebound(session[s], k, i, a.id)
          IN  Becomes(s, SyncedRows([reg |-> a.reg, ses |-> ses], {k}))

(* A change of the rows that is followed by a sync only if it is one. *)
SyncedIfChanged(p, s, k) ==
  IF p.ses.rows = session[s].rows THEN p ELSE SyncedRows(p, {k})

TogglesEnabled(s, k, i, e) ==
  Becomes(s, SyncedIfChanged([Of(s) EXCEPT !.ses = SetEnabled(@, k, i, e)], s, k))

Reorders(s, k, i, slot) ==
  Becomes(s, SyncedIfChanged([Of(s) EXCEPT !.ses = MovedTo(@, k, i, slot)], s, k))

RemovesRow(s, k, i) ==
  Becomes(s, SyncedRows(WithoutRow(Of(s), s, k, i), {k}))

RemovesAll(s, k) ==
  Becomes(s, SyncedRows(WithoutRows(Of(s), s, k), {k}))

(* MoveFilterToValue, MoveValueToFilter, perhaps to a slot of the list. *)
MovesToOther(s, k, i, slot) ==
  /\ HasRow(session[s], k, i)
  /\ \E a \in Converted(registry, k, i, s) :
       LET left == WithoutRow([reg |-> a.reg, ses |-> session[s]], s, k, i)
           come == WithRow(left, s, Other(k), a.id, IsEnabled(session[s], k, i))
           put  == [come EXCEPT !.ses = MovedTo(@, Other(k), a.id, slot)]
       IN  Becomes(s, SyncedRows(put, Kinds))

-------------------------------------------------------------------------------
(* The library of all definitions, and presets *)

TogglesInLibrary(s, k, i) ==
  /\ i \in Defined(registry, k)
  /\ LET was == HasRow(session[s], k, i)
         p   == IF was THEN WithoutRow(Of(s), s, k, i)
                ELSE WithRow(Of(s), s, k, i, TRUE)
     IN  Becomes(s, IF was /\ ~IsEnabled(session[s], k, i) THEN p
                    ELSE SyncedRows(p, {k}))

DeletesInLibrary(s, k, i) ==
  /\ i \in Defined(registry, k)
  /\ CanRemove(registry, k, i, s)
  /\ LET p == WithoutRow([Of(s) EXCEPT !.reg = Removed(@, k, i)], s, k, i)
     IN  Becomes(s, IF IsEnabled(session[s], k, i) THEN SyncedRows(p, {k}) ELSE p)

(* An entry of a preset or of a saved state becomes a row. *)
Merged(p, s, k, entry) ==
  IF entry = NoEntry THEN {p}
  ELSE {WithRow([p EXCEPT !.reg = a.reg], s, k, a.id, entry.enabled) :
          a \in Added(p.reg, k, entry.text)}

WithPreset(p, s, preset) ==
  UNION {Merged(q, s, "value", preset["value"]) :
           q \in Merged(p, s, "filter", preset["filter"])}

EnabledIds(ses, k) ==
  [n \in DOMAIN EnabledRows(ses, k) |-> EnabledRows(ses, k)[n].id]

(* apply_preset: a sync for the kinds whose enabled rows are others now.    *)
AppliesPreset(s, preset) ==
  \E p \in WithPreset(Of(s), s, preset) :
    LET changed == {k \in Kinds : EnabledIds(p.ses, k) # EnabledIds(session[s], k)}
    IN  Becomes(s, SyncedRows(p, changed))

-------------------------------------------------------------------------------
(* Opening, closing, and the store of recent sessions *)

(* handle_message SessionCreated: a saved state is restored, the searches   *)
(* of it wait for the session file, and the state is registered as recent.  *)
Opens(s, preset) ==
  /\ s \notin open
  /\ \E p \in WithPreset([Of(s) EXCEPT !.ses = NewSession], s, preset) :
       /\ registry' = p.reg
       /\ session' = [session EXCEPT ![s] =
            [p.ses EXCEPT !.due = {k \in Kinds : preset[k] # NoEntry},
                          !.bumped = FALSE]]
  /\ open' = open \cup {s}

(* on_operation_updated: the observing has begun, so there is a file.       *)
FileReady(s) ==
  /\ session[s].due # {}
  /\ Becomes(s, Synced([Of(s) EXCEPT !.ses.due = {}], session[s].due))

(* handle_recent_sessions: the state goes to the store. *)
TakesState(s) ==
  /\ session[s].bumped
  /\ Becomes(s, [Of(s) EXCEPT !.ses.bumped = FALSE])

(* close_session *)
Closes(s) ==
  /\ registry' = CleanedUp(registry, s)
  /\ open' = open \ {s}
  /\ session' = [session EXCEPT ![s] = NewSession]

-------------------------------------------------------------------------------
UserActs(s) ==
  \/ \E t \in Typed : AppliesTemp(s, t)
  \/ DropsTemp(s)
  \/ \E k \in Kinds : PinsTemp(s, k) \/ RemovesAll(s, k)
  \/ \E k \in Kinds, i \in Ids :
       \/ \E t \in Texts : EditsText(s, k, i, t)
       \/ \E e \in BOOLEAN : TogglesEnabled(s, k, i, e)
       \/ RemovesRow(s, k, i)
       \/ TogglesInLibrary(s, k, i)
       \/ DeletesInLibrary(s, k, i)
       \/ \E slot \in 1 .. Len(session[s].rows[k]) + 1 : Reorders(s, k, i, slot)
       \/ \E slot \in 1 .. Len(session[s].rows[Other(k)]) + 1 :
            MovesToOther(s, k, i, slot)
  \/ \E preset \in Presets : AppliesPreset(s, preset)

HostActs(s) ==
  \/ FileReady(s)
  \/ TakesState(s)
  \/ Closes(s)

Next ==
  \/ \E s \in open : UserActs(s) \/ HostActs(s)
  \/ \E s \in Sessions, preset \in Presets : Opens(s, preset)

Spec == Init /\ [][Next]_vars

-------------------------------------------------------------------------------
(* The registry knows the users of a definition: a session is one of them   *)
(* exactly while it has a row with it.  And no session has a row whose      *)
(* definition somebody has deleted: the row would be passed over in         *)
(* searches, and lost when the session is saved.                            *)
UsageIsRows ==
  \A s \in Sessions, k \in Kinds :
    /\ \A i \in Ids : Uses(registry, k, i, s) <=> HasRow(session[s], k, i)
    /\ IdsOf(session[s].rows[k]) \subseteq Defined(registry, k)

(* The backend searches for what the session shows as its filters, in that  *)
(* order, for results refer to filters by position: after every change, of  *)
(* this or another session, unless a restored search waits for its file.    *)
AskedIsEffective ==
  \A s \in open, k \in Kinds :
    k \in session[s].due \/ session[s].asked[k] = Effective(Of(s), k)

(* What would be saved of a session. *)
Snapshot(s) ==
  [k \in Kinds |->
     LET known == KnownRows(registry, k, session[s].rows[k])
     IN  [n \in DOMAIN known |->
            <<registry.defs[k][known[n].id], known[n].enabled>>]]

(* Whatever changes what would be saved of an open session, even by way of  *)
(* a shared definition, marks the session for saving.                       *)
ChangesAreNoted ==
  [][\A s \in open \cap open' :
       Snapshot(s)' # Snapshot(s) => session'[s].bumped]_vars
===============================================================================
