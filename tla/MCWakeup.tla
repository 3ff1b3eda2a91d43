----------------------------- MODULE MCWakeup -----------------------------
(* Small instances of Wakeup for TLC. *)
EXTENDS Wakeup, TLC

CONSTANTS c1, c2, c3, p1, p2

\* Two clients share a Pool and a third has its own.
Shared == (c1 :> p1) @@ (c2 :> p1) @@ (c3 :> p2)
============================================================================
