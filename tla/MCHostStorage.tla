----------------------------- MODULE MCHostStorage -----------------------------
(* What may fail, and what may fail without a word. *)
EXTENDS HostStorage

MCFaults == {"read", "create", "write", "queue", "late"}
================================================================================
