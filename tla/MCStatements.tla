---------------------------- MODULE MCStatements ----------------------------
(* Small instances of Statements for TLC. *)
EXTENDS Statements, TLC

CONSTANTS s, u, t1, t2, x, h1, h2

\* s is a name for shared statements, u one for a statement that cannot be
\* shared.
TwoNames == [n \in Names |-> IF n = u THEN {x} ELSE Texts \ {x}]

\* t1 and t2 are different statements ...
Distinct == [t \in Texts |-> IF t = t1 THEN h1 ELSE IF t = t2 THEN h2 ELSE None]
CanonicalDistinct == [h \in Hashes |-> IF h = h1 THEN t1 ELSE t2]

\* ... or t2 is t1 with a literal for its parameter.
SameHash == [t \in Texts |-> IF t = x THEN None ELSE h1]

\* Prepare and describe, execute, close; a lone Sync follows a failed Flush.
AsyncpgShapes == {<<"P", "D", "H">>, <<"B", "S">>, <<"C", "S">>, <<"S">>}

Symmetry == Permutations(Clients) \cup Permutations(Backends)
=============================================================================
