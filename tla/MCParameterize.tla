-------------------------- MODULE MCParameterize --------------------------
EXTENDS ParseTrees

Num(v) == Token("int", v)
Str(v) == Token("string", v)
Opt(S) == {<<>>} \cup {<<x>> : x \in S}
Node(k, cs) == [kind |-> k, clauses |-> cs]
Nums == {Num(1), Num(2)}
Words == {Token("comment", 1), Token("quoted", 1), Token("null", 0)}

\* A SELECT from a join, with literals that repeat, and numbers in the clauses
\* around them.
Selects ==
    {Node("select", [with |-> w, target |-> t, from |-> f, where |-> c, order |-> o,
                     limit |-> l]) :
        w \in Opt({Num(1)}),
        t \in Opt(Nums \cup Words \cup {Str(1)}),
        f \in Opt({Node("join", [on |-> <<x>>]) : x \in Nums}),
        c \in Opt({Num(2), Str(1), Token("float", 1), Token("param", 1), Token("dollar", 1)}),
        o \in Opt({Num(1)}), l \in Opt({Num(1), Num(2), Str(1)})}

\* SELECTs in other statements, with a clause of numbers of their own.
Inner ==
    {Node("select", [target |-> t, order |-> o]) : t \in Opt(Nums), o \in Opt({Num(1)})}

Sample ==
    Selects
    \cup {Node("union", [left |-> <<a>>, right |-> <<b>>, limit |-> l]) :
             a \in Inner, b \in Inner, l \in Opt({Num(2), Str(2)})}
    \cup {Node("select", [from |-> <<a>>, where |-> c, group |-> g, having |-> h]) :
             a \in Inner, c \in Opt(Nums), g \in Opt({Str(1)}), h \in Opt(Nums)}
    \cup {Node("select", [target |-> <<Node("swapped", [left |-> <<a>>, right |-> <<b>>])>>,
                          where |-> c]) :
             a \in Nums, b \in Nums, c \in Opt({Num(1), Token("pg_notify", 0)})}
    \cup {Node("insert", [query |-> <<Node("select", [values |-> v])>>, conflict |-> o,
                          returning |-> r]) :
             v \in {<<a, b>> : a \in Nums, b \in Nums \cup Words}, o \in Opt(Nums),
             r \in Opt(Nums)}
    \cup {Node("update", [set |-> s, from |-> f, where |-> c, returning |-> r]) :
             s \in Opt(Nums), f \in Opt({Node("aside", [rest |-> <<x>>]) : x \in Nums}),
             c \in Opt(Nums), r \in Opt(Nums)}
    \cup {Node("delete", [using |-> u, where |-> c]) :
             u \in Opt({Token("name", 3)}), c \in Opt(Nums)}
    \cup {[kind |-> k] : k \in {"listen", "unlisten", "notify", "simple"}}

\* Statements that are not served as they were sent: a name that ends in the literal
\* (SELECT ... FROM t1 WHERE id = 1), and a parameter that containsParam misses.
Decoys ==
    {Node("select", [from |-> <<Token("name", 1)>>, where |-> <<Num(1)>>]),
     Node("select", [where |-> <<Num(5)>>, limit |-> <<Token("param", 1)>>])}

\* GROUP BY 1.
Ordinals == {Node("select", [where |-> c, group |-> <<Num(1)>>]) : c \in Opt(Nums)}
============================================================================
