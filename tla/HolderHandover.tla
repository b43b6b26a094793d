-------------------------- MODULE HolderHandover --------------------------
(***************************************************************************)
(* What the searchers task promises of one search holder, whoever asks for *)
(* it and whatever is cancelled: the holder is either at home, where       *)
(* updates of the file only move it forward, or with one borrower, and     *)
(* then nobody moves, resets or lends it before that borrower is through.  *)
(***************************************************************************)
EXTENDS Naturals

CONSTANTS
    Users,      \* who may ask for the holder
    None        \* nobody

VARIABLES
    owner,      \* the borrower, or None while the holder is at home
    position    \* rows the holder at home has passed; 0 while it is away

vars == <<owner, position>>

Init == owner = None /\ position = 0

Extend ==
    /\ owner = None
    /\ position' > position
    /\ UNCHANGED owner

Reset ==
    /\ owner = None
    /\ position' = 0
    /\ UNCHANGED owner

Borrow(b) ==
    /\ owner = None
    /\ owner' = b
    /\ position' = 0

Return(b) ==
    /\ owner = b
    /\ owner' = None
    /\ position' \in Nat

Next ==
    \/ Extend \/ Reset
    \/ \E b \in Users : Borrow(b) \/ Return(b)

Spec == Init /\ [][Next]_vars
===========================================================================
