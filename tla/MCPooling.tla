------------------------------ MODULE MCPooling ------------------------------
(* Small instances of Pooling for TLC. *)
EXTENDS PoolingLease, TLC

CONSTANTS c1, c2, p1, p2

OnePool == [c \in Clients |-> p1]

Symmetry == Permutations(Clients) \cup Permutations(Backends)
=============================================================================
