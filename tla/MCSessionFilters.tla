--------------------------- MODULE MCSessionFilters ---------------------------
(* Two sessions, two texts of which one may become a chart. *)
EXTENDS SessionFilters, TLC

CONSTANTS s1, s2, a, b

MCSessions == {s1, s2}
MCTexts == {a, b}
MCCharted == {a}
MCTyped == {a}

(* Nothing; a filter and a value with the same text; a disabled filter. *)
MCPresets ==
  {[filter |-> NoEntry, value |-> NoEntry],
   [filter |-> [text |-> a, enabled |-> TRUE],
    value  |-> [text |-> a, enabled |-> TRUE]],
   [filter |-> [text |-> b, enabled |-> FALSE], value |-> NoEntry]}

Alike == Permutations(MCSessions)
===============================================================================
