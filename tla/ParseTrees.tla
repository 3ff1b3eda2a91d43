----------------------------- MODULE ParseTrees -----------------------------
(***************************************************************************)
(* What Parameterize needs of a statement, from its parse tree: the walks  *)
(* of collectLiterals and containsParam (parser.go), and the text.  A      *)
(* statement is a tree of nodes whose clauses hold nodes and tokens; the   *)
(* parser is not part of this program, so statements are given as what it  *)
(* makes of them.                                                          *)
(***************************************************************************)
EXTENDS Parameterize, SequencesExt

----------------------------------------------------------------------------
(* The clauses of a node in the order they are written, and the ones the code   *)
(* walks, in its order.  "join" is a JOIN in a FROM clause, "swapped" an         *)
(* expression whose arguments the parser reverses (position, trim), "aside" one  *)
(* the walk does not enter (OVER, FILTER, a type's length, the left side of IN). *)

Written ==
    [select  |-> <<"with", "target", "from", "where", "group", "having", "values",
                   "order", "limit", "offset">>,
     union   |-> <<"with", "left", "right", "order", "limit", "offset">>,
     insert  |-> <<"with", "query", "conflict", "returning">>,
     update  |-> <<"with", "set", "from", "where", "returning">>,
     delete  |-> <<"with", "using", "where", "returning">>,
     join    |-> <<"left", "right", "on">>,
     swapped |-> <<"left", "right">>,
     aside   |-> <<"rest">>]

\* Mutant of Walked: FROM after WHERE.
WalkedFromLast ==
    [select  |-> <<"target", "where", "group", "having", "values", "from", "offset", "limit">>,
     union   |-> <<"left", "right", "offset", "limit">>,
     insert  |-> <<"query">>,
     update  |-> <<"set", "where">>,
     delete  |-> <<"where">>,
     join    |-> <<"left", "right", "on">>,
     swapped |-> <<"right", "left">>,
     aside   |-> <<>>]

Walked ==
    [select  |-> <<"target", "from", "where", "group", "having", "values", "offset", "limit">>,
     union   |-> <<"left", "right", "offset", "limit">>,
     insert  |-> <<"query">>,
     update  |-> <<"set", "where">>,
     delete  |-> <<"where">>,
     join    |-> <<"left", "right", "on">>,
     swapped |-> <<"right", "left">>,
     aside   |-> <<>>]

\* The clauses in which containsParam finds a $N.  It looks at FROM too, but enters
\* nothing that may be there.
Searched ==
    [Walked EXCEPT !.select = <<"target", "where", "group", "having", "values">>,
                   !.union = <<>>, !.join = <<>>]

IsNode(x) == x.kind \in DOMAIN Written
Clause(n, c) == IF c \in DOMAIN n.clauses THEN n.clauses[c] ELSE <<>>

\* The text of a statement: its tokens, each with the clause it is in.
RECURSIVE Text(_)
Text(n) ==
    FlattenSeq([k \in DOMAIN Written[n.kind] |->
        LET c == Written[n.kind][k]
            items == Clause(n, c)
        IN  FlattenSeq([j \in DOMAIN items |->
                IF IsNode(items[j]) THEN Text(items[j])
                ELSE <<[kind |-> items[j].kind, val |-> items[j].val, at |-> c]>>])])

RECURSIVE ContainsParam(_)
ContainsParam(n) ==
    \E k \in DOMAIN Searched[n.kind] :
        \E x \in ToSet(Clause(n, Searched[n.kind][k])) :
            x.kind = "param" \/ (IsNode(x) /\ ContainsParam(x))

\* What the walk makes of a constant.  NULL, TRUE and FALSE are no literals; a
\* dollar-quoted string is a string to the parser.
Literal(t, inLimit) ==
    IF t.kind \in {"int", "float"} /\ inLimit THEN <<>>
    ELSE IF t.kind = "dollar" THEN <<Token("string", t.val)>>
    ELSE IF t.kind \in LitKinds THEN <<Token(t.kind, t.val)>>
    ELSE <<>>

RECURSIVE CollectLiterals(_, _)
CollectLiterals(n, inLimit) ==
    FlattenSeq([k \in DOMAIN Walked[n.kind] |->
        LET c == Walked[n.kind][k]
            items == Clause(n, c)
            limit == IF IsDMLStatement(n) THEN c \in {"limit", "offset"} ELSE inLimit
        IN  FlattenSeq([j \in DOMAIN items |->
                IF IsNode(items[j]) THEN CollectLiterals(items[j], limit)
                ELSE Literal(items[j], limit)])])

StatementLiterals(s) == CollectLiterals(s, FALSE)

----------------------------------------------------------------------------
(* Properties. *)

\* Token by token of the text: is it a constant that the walk meets and collects?
RECURSIVE Met(_, _)
Met(n, in) ==
    FlattenSeq([k \in DOMAIN Written[n.kind] |->
        LET c == Written[n.kind][k]
            items == Clause(n, c)
            enters == in /\ c \in ToSet(Walked[n.kind])
            limit == c \in {"limit", "offset"}
        IN  FlattenSeq([j \in DOMAIN items |->
                IF IsNode(items[j]) THEN Met(items[j], enters)
                ELSE <<enters /\ Literal(items[j], limit) # <<>>>>])])

\* The text with the constants replaced that the walk meets, numbered from left to
\* right; a number in GROUP BY, which names a column, stays.
Canonical(n) ==
    LET text == Text(n)
        met == Met(n, TRUE)
        is == [i \in DOMAIN text |-> met[i] /\ ~ (text[i].kind = "int" /\ text[i].at = "group")]
        number(i) == Len(SelectSeq(SubSeq(is, 1, i), LAMBDA b : b))
    IN  [i \in DOMAIN text |->
            IF is[i] THEN [kind |-> "param", val |-> number(i), at |-> text[i].at]
            ELSE text[i]]

\* Nothing in the text that the walk meets out of order, or that the scan skips: no
\* reversed arguments, no string after OFFSET, no dollar quotes.
Straight(n) ==
    \A t \in ToSet(Text(n)) :
        /\ t.kind # "dollar"
        /\ t.kind \in LitKinds => t.at \notin {"left", "right"}
        /\ t.kind = "string" => t.at # "offset"

\* A token that is no parameter and that the scan takes for the next one.
HasDecoy(n) ==
    LET text == Text(n)
        is == Met(n, TRUE)
    IN  \E i \in DOMAIN text, j \in DOMAIN text :
            /\ i < j /\ ~ is[i] /\ is[j]
            /\ \A k \in i + 1 .. j - 1 : ~ is[k]
            /\ TakenFor(text[i], text[j])

\* The canonical form of a query has parameters for its literals and for nothing
\* else, so that queries that differ in their literals only share one statement, and
\* what a clause depends on stays in the text; and such a query never falls back to
\* the simple path: the walk is in the order of the text, as the comment of
\* rewriteLiterals says (but see Straight), and no other token is in the way.
CanonicalForm ==
    /\ result.verdict \in {"prepared", "simple"}
    /\ IsDMLStatement(query)
    /\ Straight(query) /\ ~ HasDecoy(query)
    => result = [verdict |-> "prepared", sql |-> Canonical(query),
                 values |-> [k \in DOMAIN StatementLiterals(query) |->
                                 StatementLiterals(query)[k].val]]
=============================================================================
