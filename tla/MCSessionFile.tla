----------------------------- MODULE MCSessionFile -----------------------------
(* Short rows of two sources. *)
EXTENDS SessionFile, TLC

CONSTANTS a, b

MCSources == {a, b}
WholeLines == {<<"nl">>, <<"m", "nl">>}
BothOrigins == {"generated", "linked"}
Alike == Permutations(MCSources)
================================================================================
