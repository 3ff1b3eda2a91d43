------------------------- MODULE MCDeferredListen -------------------------
EXTENDS DeferredListen

\* One statement at a time, and strings in which a transaction does not end before
\* the last statement.
Orderly ==
    {<<s>> : s \in {"begin", "commit", "rollback", "select", "fail"}}
    \cup {<<"select", "commit">>, <<"select", "rollback">>, <<"begin", "select">>,
          <<"select", "fail">>, <<"begin", "fail">>, <<"fail", "commit">>}

\* A transaction ends in the middle of a string.
Chained == Orderly \cup {<<"commit", "select">>, <<"rollback", "begin">>, <<"rollback", "commit">>}
===========================================================================
