--------------------------- MODULE MCListenNotify ---------------------------
(* Small instances of ListenNotify for TLC. *)
EXTENDS ListenNotify, TLC

Symmetry == Permutations(Clients) \cup Permutations(Monitors) \cup Permutations(Conns)
=============================================================================
