---------------------------- MODULE FilterRegistry ----------------------------
(***************************************************************************)
(* The registry of filters and search values that all sessions of the      *)
(* application share (app: host/ui/registry/filters.rs).  A definition has *)
(* an id and a text; the registry knows which sessions use it.             *)
(*                                                                         *)
(* The registry is a record and its operations are operators on it, for    *)
(* the handlers of a session combine several of them in one step.  The     *)
(* kinds "filter" and "value" have a map each and the same operations.     *)
(* What a handler may get (a hash map is searched in no order) is a set.   *)
(***************************************************************************)
EXTENDS Naturals, FiniteSets

CONSTANTS
  Sessions,   \* ids of sessions
  Texts,      \* filters, with their flags: what makes two of them equal
  Charted,    \* those that may become a search value
  NoText,     \* no definition has the id
  MaxDefs     \* bound: how many definitions are ever made

RegistryConstants ==
  /\ Charted \subseteq Texts
  /\ NoText \notin Texts
  /\ MaxDefs \in Nat

ASSUME RegistryAssumption == RegistryConstants

Kinds == {"filter", "value"}

(* Ids are never used twice (Uuid::new_v4). *)
Ids == 1 .. MaxDefs

Registries == [made  : 0 .. MaxDefs,
               defs  : [Kinds -> [Ids -> Texts \cup {NoText}]],
               usage : [Kinds -> [Ids -> SUBSET Sessions]]]

EmptyRegistry ==
  [made  |-> 0,
   defs  |-> [k \in Kinds |-> [i \in Ids |-> NoText]],
   usage |-> [k \in Kinds |-> [i \in Ids |-> {}]]]

Defined(r, k) == {i \in Ids : r.defs[k][i] # NoText}

(* add_filter, add_search_value: an equal definition is used again. *)
Same(r, k, t) == {i \in Ids : r.defs[k][i] = t}

Created(r, k, t) ==
  [r EXCEPT !.made = @ + 1, !.defs[k][r.made + 1] = t]

Added(r, k, t) ==
  IF Same(r, k, t) # {} THEN {[reg |-> r, id |-> i] : i \in Same(r, k, t)}
  ELSE IF r.made < MaxDefs THEN {[reg |-> Created(r, k, t), id |-> r.made + 1]}
  ELSE {}

Uses(r, k, i, s) == s \in r.usage[k][i]

Applied(r, k, i, s) == [r EXCEPT !.usage[k][i] = @ \cup {s}]

Unapplied(r, k, i, s) == [r EXCEPT !.usage[k][i] = @ \ {s}]

(* Unused, or used by the one who asks. *)
CanRemoveShared(r, k, i, s) == Cardinality(r.usage[k][i]) <= 1 \* slip: whose?

CanRemove(r, k, i, s) == r.usage[k][i] \subseteq {s}

Removed(r, k, i) == [r EXCEPT !.defs[k][i] = NoText, !.usage[k][i] = {}]

Other(k) == IF k = "filter" THEN "value" ELSE "filter"

(* convert_filter_to_value, convert_value_to_filter: the definition of the *)
(* other kind, and the old one removed unless somebody else needs it.      *)
Convertible(r, k, i) ==
  /\ i \in Defined(r, k)
  /\ k = "filter" => r.defs[k][i] \in Charted

RemovedIfFree(r, k, i, s) == IF CanRemove(r, k, i, s) THEN Removed(r, k, i) ELSE r

Converted(r, k, i, s) ==
  IF Convertible(r, k, i)
  THEN {[a EXCEPT !.reg = RemovedIfFree(a.reg, k, i, s)] :
          a \in Added(r, Other(k), r.defs[k][i])}
  ELSE {}

(* edit_filter_for_session, edit_search_value_for_session: in place for    *)
(* the only user, without a look for an equal definition; else the session *)
(* moves to another definition, which may be an old one.                   *)
Edited(r, k, i, s, t) ==
  IF Cardinality(r.usage[k][i]) <= 1
  THEN {[reg |-> [r EXCEPT !.defs[k][i] = t], id |-> i]}
  ELSE {IF a.id = i THEN a
        ELSE [a EXCEPT !.reg = Applied(Unapplied(a.reg, k, i, s), k, a.id, s)] :
          a \in Added(r, k, t)}

CanEdit(r, k, i, s) == Uses(r, k, i, s) /\ i \in Defined(r, k)

CleanedUp(r, s) ==
  [r EXCEPT !.usage = [k \in Kinds |-> [i \in Ids |-> r.usage[k][i] \ {s}]]]
===============================================================================
