---------------------------- MODULE MCIndexedMap ----------------------------
(* A session file of a few rows for TLC. The limits are small enough that a  *)
(* change may exceed each of them.                                           *)
EXTENDS IndexedMap

FourRows == 0 .. 3
=============================================================================
