---------------------------- MODULE Parameterize ----------------------------
(***************************************************************************)
(* ClassifyAndParameterize (parser.go): which path a simple query takes,   *)
(* and how its literals become parameters.  The literals are collected     *)
(* from the parse tree, then looked for in the text, left to right, by     *)
(* kind and value; the tree does not say where in the text they are.       *)
(*                                                                         *)
(* A token has a kind and a value.  What the parser and the walks over its *)
(* tree make of a statement (its text, its literals, whether it has        *)
(* parameters) are parameters here, and ParseTrees defines them.           *)
(***************************************************************************)
EXTENDS Integers, Sequences

CONSTANTS
    Statements,      \* the statements clients may send
    TextOf(_),       \* statement -> the tokens of its text
    LiteralsOf(_),   \* statement -> what collectLiterals makes of it
    HasParam(_),     \* statement -> does containsParam find a $N in it?
    CountRange,      \* range of the counts in a Bind, 2^16 in the code
    None

VARIABLES
    query,    \* the statement that is handled
    pc,
    ws,       \* paramWorkspace: the literals, the new text, the values
    pos,      \* where in the text the scan goes on
    result    \* the verdict, and CanonicalSQL and Values of the ParameterizeResult

vars == <<query, pc, ws, pos, result>>

LitKinds == {"string", "int", "float", "bits"}
Token(kind, val) == [kind |-> kind, val |-> val]
Literals == [kind : LitKinds, val : Nat]

\* A token of a text; at is the clause it is in.
TokenKinds ==
    LitKinds \cup {"dollar", "null", "name", "param", "comment", "quoted", "pg_notify"}
Tokens == [kind : TokenKinds, val : Nat, at : STRING]

IsDMLStatement(s) == s.kind \in {"select", "union", "insert", "update", "delete"}

ASSUME ParameterizeAssumption ==
    /\ CountRange \in Nat \ {0}
    /\ \A s \in Statements :
          IF IsDMLStatement(s)
          THEN /\ TextOf(s) \in Seq(Tokens)
               /\ LiteralsOf(s) \in Seq(Literals)
               /\ HasParam(s) \in BOOLEAN
          ELSE s.kind \in {"listen", "unlisten", "notify", "simple"}

\* Does findNextLiteral take token t for the literal?  Comments, quoted identifiers
\* and dollar quotes are skipped, and strings when it looks for a number; the digits
\* of a plain name or of a $N are a number to it, and val is these digits.
TakenFor(t, lit) ==
    /\ t.val = lit.val
    /\ t.kind = lit.kind \/ (lit.kind = "int" /\ t.kind \in {"name", "param"})

\* The place of the first such token from p on, if there is one.
FindNextLiteral(text, p, lit) ==
    {i \in p .. Len(text) :
        TakenFor(text[i], lit) /\ \A j \in p .. i - 1 : ~ TakenFor(text[j], lit)}

----------------------------------------------------------------------------

Empty == [lits |-> <<>>, sql |-> <<>>, values |-> <<>>]

Result(verdict, sql, values) ==
    result' = [verdict |-> verdict, sql |-> sql, values |-> values]

\* Mutant of PutParamWorkspace: the Builder is not reset.
PutParamWorkspaceKeeps == ws' = [Empty EXCEPT !.sql = ws.sql]

\* putParamWorkspace, deferred.
PutParamWorkspace == ws' = Empty

\* "simple": a nil result.  A statement with parameters, or without literals, is a
\* prepared statement as it is.
Classify(s) ==
    /\ pc = "idle"
    /\ query' = s
    /\ pos' = 1
    /\ \/ /\ ~ IsDMLStatement(s)
          /\ Result(s.kind, <<>>, <<>>) /\ pc' = "done" /\ UNCHANGED ws
       \/ /\ IsDMLStatement(s)
          /\ LET text == TextOf(s)
                 lits == LiteralsOf(s)
                 notify == /\ s.kind \in {"select", "union"}
                           /\ \E i \in DOMAIN text : text[i].kind = "pg_notify"
             IN  \/ /\ notify
                    /\ Result("notify", <<>>, <<>>) /\ pc' = "done" /\ UNCHANGED ws
                 \/ /\ ~ notify
                    /\ HasParam(s) \/ lits = <<>>
                    /\ Result("asis", text, <<>>) /\ pc' = "done" /\ UNCHANGED ws
                 \/ /\ ~ notify /\ ~ HasParam(s) /\ lits # <<>>
                    /\ ws' = [ws EXCEPT !.lits = @ \o lits, !.values = <<>>]
                    /\ pc' = "scan" /\ UNCHANGED result

\* Mutant of RewriteLiteral: a literal that is not found keeps its place in the
\* text, but its value is among the values.
RewriteLiteralSkips ==
    /\ pc = "scan"
    /\ ws.lits # <<>>
    /\ LET text == TextOf(query)
           lit == Head(ws.lits)
           found == FindNextLiteral(text, pos, lit)
       IN  \/ /\ found = {}
              /\ ws' = [ws EXCEPT !.lits = Tail(@), !.values = Append(@, lit.val)]
              /\ UNCHANGED pos
           \/ \E i \in found :
                 /\ ws' = [lits |-> Tail(ws.lits),
                           sql |-> Append(ws.sql \o SubSeq(text, pos, i - 1),
                                         [kind |-> "param", val |-> Len(ws.values) + 1,
                                          at |-> text[i].at]),
                           values |-> Append(ws.values, lit.val)]
                 /\ pos' = i + 1
    /\ UNCHANGED <<query, pc, result>>

\* One round of rewriteLiteralsWS.
RewriteLiteral ==
    /\ pc = "scan"
    /\ ws.lits # <<>>
    /\ LET text == TextOf(query)
           lit == Head(ws.lits)
           found == FindNextLiteral(text, pos, lit)
       IN  \/ /\ found = {}
              /\ Result("simple", <<>>, <<>>)
              /\ PutParamWorkspace
              /\ pc' = "done" /\ UNCHANGED pos
           \/ \E i \in found :
                 /\ ws' = [lits |-> Tail(ws.lits),
                           sql |-> Append(ws.sql \o SubSeq(text, pos, i - 1),
                                         [kind |-> "param", val |-> Len(ws.values) + 1,
                                          at |-> text[i].at]),
                           values |-> Append(ws.values, lit.val)]
                 /\ pos' = i + 1 /\ UNCHANGED <<pc, result>>
    /\ UNCHANGED query

\* The values are copied before the workspace is given back.
RewriteEnd ==
    /\ pc = "scan"
    /\ ws.lits = <<>>
    /\ Result("prepared", ws.sql \o SubSeq(TextOf(query), pos, Len(TextOf(query))), ws.values)
    /\ PutParamWorkspace
    /\ pc' = "done"
    /\ UNCHANGED <<query, pos>>

\* executeQuery has used the result.
NextQuery ==
    /\ pc = "done"
    /\ query' = None /\ pos' = 1 /\ pc' = "idle"
    /\ Result("none", <<>>, <<>>)
    /\ UNCHANGED ws

Init ==
    /\ query = None /\ pc = "idle" /\ pos = 1 /\ ws = Empty
    /\ result = [verdict |-> "none", sql |-> <<>>, values |-> <<>>]

Next ==
    \/ \E s \in Statements : Classify(s)
    \/ RewriteLiteral
    \/ RewriteEnd
    \/ NextQuery

Spec == Init /\ [][Next]_vars

----------------------------------------------------------------------------

\* The Bind that executeAsPrepared sends: the count is an Int16.
BuildBindBody(values) == [count |-> Len(values) % CountRange, values |-> values]

\* The server: the statement, with the bound values for its parameters.  It refuses
\* a Bind whose count is not the number of parameters.
Bound(sql, bind) ==
    [i \in DOMAIN sql |->
        IF sql[i].kind = "param" /\ sql[i].val \in 1 .. bind.count
        THEN Token("value", bind.values[sql[i].val])
        ELSE Token(sql[i].kind, sql[i].val)]

----------------------------------------------------------------------------
(* Properties. *)

\* Types.  The scan stays in the text, rewrites it token by token, and uses every
\* literal up: it is among those to come, or it has its value and its parameter
\* (rewriteLiteralsWS).  Between two queries the workspace is empty.
TypeOK ==
    /\ pc \in {"idle", "scan", "done"}
    /\ query \in Statements \cup {None} /\ (pc = "idle" => query = None)
    /\ ws \in [lits : Seq(Literals), sql : Seq(Tokens), values : Seq(Nat)]
    /\ result.sql \in Seq(Tokens) /\ result.values \in Seq(Nat)
    /\ pc # "scan" => ws = Empty
    /\ pc = "scan" =>
          /\ query \in Statements /\ IsDMLStatement(query)
          /\ pos \in 1 .. Len(TextOf(query)) + 1 /\ Len(ws.sql) = pos - 1
          /\ Len(ws.values) + Len(ws.lits) = Len(LiteralsOf(query))
          /\ \A k \in DOMAIN ws.values :
                \E i \in DOMAIN ws.sql : ws.sql[i].kind = "param" /\ ws.sql[i].val = k

\* A query that is served as a prepared statement is the client's query: with the
\* values for the parameters, and nothing else in their place, it reads like the
\* text that was sent, literal for literal (ClassifyAndParameterize,
\* executeAsPrepared).  Nothing of an earlier query is in it.
SameStatement ==
    result.verdict = "prepared" =>
        LET text == TextOf(query)
            bound == Bound(result.sql, BuildBindBody(result.values))
        IN  /\ Len(bound) = Len(text)
            /\ \A i \in DOMAIN text :
                  /\ bound[i].val = text[i].val
                  /\ IF bound[i].kind = "value" THEN text[i].kind \in LitKinds
                     ELSE bound[i].kind = text[i].kind
=============================================================================
