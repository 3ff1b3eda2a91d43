------------------------- MODULE ParameterizeProofs -------------------------
(***************************************************************************)
(* Proofs about the rewriting of literals (rewriteLiteralsWS), for every   *)
(* set of statements, whatever their texts and whatever literals the walk  *)
(* over their trees collects: types; that a query which is served as a     *)
(* prepared statement is still the client's query; and that the scan finds *)
(* every literal in its place when the walk met them in the order of the   *)
(* text.                                                                   *)
(***************************************************************************)
EXTENDS Parameterize, SequenceTheorems, TLAPS

----------------------------------------------------------------------------
(* What the scan copies of the text. *)

LEMMA Copied ==
    ASSUME NEW S, NEW text \in Seq(S), NEW sql \in Seq(S),
           NEW from \in Nat, from = Len(sql) + 1,
           NEW to \in Nat, from <= to + 1, to <= Len(text)
    PROVE  LET new == sql \o SubSeq(text, from, to) IN
           /\ new \in Seq(S) /\ Len(new) = to
           /\ \A j \in 1..Len(sql) : new[j] = sql[j]
           /\ \A j \in from..to : new[j] = text[j]
<1> DEFINE part == SubSeq(text, from, to)
<1>1. /\ Len(text) \in Nat /\ Len(sql) \in Nat /\ from >= 1
      /\ \A j \in from..to : text[j] \in S
  OBVIOUS
<1>2. /\ part \in Seq(S) /\ Len(part) = to - from + 1
      /\ \A j \in 1..(to - from + 1) : part[j] = text[from + j - 1]
  BY <1>1, SubSeqProperties
<1> HIDE DEF part
<1>3. /\ sql \o part \in Seq(S) /\ Len(sql \o part) = to
      /\ \A j \in 1..to : (sql \o part)[j] = IF j <= Len(sql) THEN sql[j]
                                             ELSE part[j - Len(sql)]
  BY <1>1, <1>2, ConcatProperties
<1>4. \A j \in 1..Len(sql) : (sql \o part)[j] = sql[j]
  BY <1>1, <1>3
<1>5. \A j \in from..to : (sql \o part)[j] = text[j]
  <2> SUFFICES ASSUME NEW j \in from..to PROVE (sql \o part)[j] = text[j]
    OBVIOUS
  <2>1. /\ j \in 1..to /\ ~(j <= Len(sql))
        /\ j - Len(sql) \in 1..(to - from + 1) /\ from + (j - Len(sql)) - 1 = j
    BY <1>1
  <2> QED BY <1>2, <1>3, <2>1
<1> QED BY <1>3, <1>4, <1>5 DEF part

----------------------------------------------------------------------------
(* The steps of the scan. *)

NoResult == [verdict |-> "none", sql |-> <<>>, values |-> <<>>]

\* A literal is found at i.
Replaces(i) ==
    /\ pc = "scan" /\ ws.lits # <<>>
    /\ i \in FindNextLiteral(TextOf(query), pos, Head(ws.lits))
    /\ ws' = [lits |-> Tail(ws.lits),
              sql |-> Append(ws.sql \o SubSeq(TextOf(query), pos, i - 1),
                     [kind |-> "param", val |-> Len(ws.values) + 1,
                      at |-> TextOf(query)[i].at]),
              values |-> Append(ws.values, Head(ws.lits).val)]
    /\ pos' = i + 1
    /\ UNCHANGED <<query, pc, result>>

\* It is not found.
GivesUp ==
    /\ pc = "scan" /\ ws.lits # <<>>
    /\ FindNextLiteral(TextOf(query), pos, Head(ws.lits)) = {}
    /\ result' = [verdict |-> "simple", sql |-> <<>>, values |-> <<>>]
    /\ ws' = Empty /\ pc' = "done"
    /\ UNCHANGED <<query, pos>>

\* A query whose literals are to be replaced.
Begins(s) ==
    /\ pc = "idle" /\ s \in Statements
    /\ IsDMLStatement(s) /\ ~HasParam(s)
    /\ query' = s /\ pos' = 1 /\ pc' = "scan"
    /\ ws' = [ws EXCEPT !.lits = @ \o LiteralsOf(s), !.values = <<>>]
    /\ UNCHANGED result

\* One that is answered at once.
Answered(s) ==
    /\ pc = "idle" /\ s \in Statements
    /\ query' = s /\ pos' = 1 /\ pc' = "done"
    /\ UNCHANGED ws
    /\ \/ ~IsDMLStatement(s) /\ result' = [verdict |-> s.kind, sql |-> <<>>, values |-> <<>>]
       \/ result' = [verdict |-> "notify", sql |-> <<>>, values |-> <<>>]
       \/ IsDMLStatement(s) /\ result' = [verdict |-> "asis", sql |-> TextOf(s), values |-> <<>>]

LEMMA ClassifyCases == \A s \in Statements : Classify(s) => Begins(s) \/ Answered(s)
BY Zenon DEF Classify, Begins, Answered, Result

\* What a statement is, as far as the rewriting goes.
LEMMA StatementTypes ==
    ASSUME NEW s \in Statements, IsDMLStatement(s)
    PROVE  /\ TextOf(s) \in Seq(Tokens) /\ Len(TextOf(s)) \in Nat
           /\ DOMAIN TextOf(s) = 1..Len(TextOf(s))
           /\ \A i \in 1..Len(TextOf(s)) : TextOf(s)[i] \in Tokens
           /\ LiteralsOf(s) \in Seq(Literals) /\ Len(LiteralsOf(s)) \in Nat
           /\ DOMAIN LiteralsOf(s) = 1..Len(LiteralsOf(s))
           /\ \A k \in 1..Len(LiteralsOf(s)) : LiteralsOf(s)[k] \in Literals
<1>1. TextOf(s) \in Seq(Tokens) /\ LiteralsOf(s) \in Seq(Literals)
  BY ParameterizeAssumption
<1> QED BY <1>1

LEMMA RewriteLiteralCases ==
    ASSUME TypeOK, RewriteLiteral
    PROVE  GivesUp \/ \E i \in Nat : Replaces(i)
<1>1. GivesUp \/ \E i \in FindNextLiteral(TextOf(query), pos, Head(ws.lits)) : Replaces(i)
  BY Zenon DEF RewriteLiteral, GivesUp, Replaces, Result, PutParamWorkspace
<1>2. pc = "scan" /\ query \in Statements /\ IsDMLStatement(query) /\ pos \in Int
  BY DEF RewriteLiteral, TypeOK
<1>3. Len(TextOf(query)) \in Nat /\ pos \in 1..(Len(TextOf(query)) + 1)
  BY <1>2, StatementTypes DEF TypeOK
<1>4. FindNextLiteral(TextOf(query), pos, Head(ws.lits)) \subseteq Nat
  BY <1>3 DEF FindNextLiteral
<1> QED BY <1>1, <1>4

\* How the workspace grows by a literal.
LEMMA ReplacesWorkspace ==
    ASSUME TypeOK, NEW i \in Nat, Replaces(i)
    PROVE  LET text == TextOf(query)
               lit == Head(ws.lits)
               n == Len(ws.values)
           IN  /\ n \in Nat /\ pos \in Nat \ {0} /\ i \in pos..Len(text)
               /\ lit = ws.lits[1] /\ lit \in Literals /\ Len(ws.lits) \in Nat \ {0}
               /\ TakenFor(text[i], lit)
               /\ ws' \in [lits : Seq(Literals), sql : Seq(Tokens), values : Seq(Nat)]
               /\ Len(ws.sql) = pos - 1 /\ Len(ws'.sql) = i
               /\ \A j \in 1..(pos - 1) : ws'.sql[j] = ws.sql[j]
               /\ \A j \in pos..(i - 1) : ws'.sql[j] = text[j]
               /\ ws'.sql[i] = [kind |-> "param", val |-> n + 1, at |-> text[i].at]
               /\ Len(ws'.values) = n + 1 /\ ws'.values[n + 1] = lit.val
               /\ \A k \in 1..n : ws'.values[k] = ws.values[k]
               /\ Len(ws'.lits) = Len(ws.lits) - 1
               /\ \A k \in 1..(Len(ws.lits) - 1) : ws'.lits[k] = ws.lits[k + 1]
<1> DEFINE text == TextOf(query)
           lit == Head(ws.lits)
           n == Len(ws.values)
           tok == [kind |-> "param", val |-> n + 1, at |-> text[i].at]
<1>1. /\ query \in Statements /\ IsDMLStatement(query) /\ pos \in 1..(Len(text) + 1)
      /\ Len(ws.sql) = pos - 1 /\ ws.lits # <<>>
      /\ ws.lits \in Seq(Literals) /\ ws.sql \in Seq(Tokens) /\ ws.values \in Seq(Nat)
  BY DEF TypeOK, Replaces
<1>2. text \in Seq(Tokens) /\ Len(text) \in Nat /\ \A j \in 1..Len(text) : text[j] \in Tokens
  BY <1>1, StatementTypes
<1>3. n \in Nat /\ pos \in Nat \ {0} /\ i \in pos..Len(text) /\ TakenFor(text[i], lit)
  BY <1>1, <1>2 DEF Replaces, FindNextLiteral
<1>4. /\ lit = ws.lits[1] /\ lit \in Literals /\ Len(ws.lits) \in Nat \ {0}
      /\ Tail(ws.lits) \in Seq(Literals) /\ Len(Tail(ws.lits)) = Len(ws.lits) - 1
      /\ \A k \in 1..(Len(ws.lits) - 1) : Tail(ws.lits)[k] = ws.lits[k + 1]
  BY <1>1
<1>5. lit.val \in Nat
  BY <1>4 DEF Literals
<1>6. /\ Append(ws.values, lit.val) \in Seq(Nat) /\ Len(Append(ws.values, lit.val)) = n + 1
      /\ Append(ws.values, lit.val)[n + 1] = lit.val
      /\ \A k \in 1..n : Append(ws.values, lit.val)[k] = ws.values[k]
  BY <1>1, <1>5, AppendProperties
<1>7. tok \in Tokens
  <2>1. text[i] \in Tokens /\ n + 1 \in Nat
    BY <1>2, <1>3
  <2> QED BY <2>1 DEF Tokens, TokenKinds
<1>8. LET copy == ws.sql \o SubSeq(text, pos, i - 1) IN
      /\ copy \in Seq(Tokens) /\ Len(copy) = i - 1
      /\ \A j \in 1..(pos - 1) : copy[j] = ws.sql[j]
      /\ \A j \in pos..(i - 1) : copy[j] = text[j]
  <2>1. /\ pos \in Nat /\ pos = Len(ws.sql) + 1 /\ i - 1 \in Nat /\ pos <= (i - 1) + 1
        /\ i - 1 <= Len(text)
    BY <1>1, <1>2, <1>3
  <2>2. ws.sql \in Seq(Tokens) /\ text \in Seq(Tokens)
    BY <1>1, <1>2
  <2> HIDE DEF text
  <2>3. PICK from \in Nat, to \in Nat, sql \in Seq(Tokens), txt \in Seq(Tokens) :
          from = pos /\ to = i - 1 /\ sql = ws.sql /\ txt = text
    BY <2>1, <2>2
  <2>4. from = Len(sql) + 1 /\ from <= to + 1 /\ to <= Len(txt)
    BY <2>1, <2>3
  <2>5. LET copy == sql \o SubSeq(txt, from, to) IN
        /\ copy \in Seq(Tokens) /\ Len(copy) = to
        /\ \A j \in 1..Len(sql) : copy[j] = sql[j]
        /\ \A j \in from..to : copy[j] = txt[j]
    BY <2>4, Copied
  <2> QED BY <1>1, <2>3, <2>5
<1>9. LET new == Append(ws.sql \o SubSeq(text, pos, i - 1), tok) IN
      /\ new \in Seq(Tokens) /\ Len(new) = i /\ new[i] = tok
      /\ \A j \in 1..(pos - 1) : new[j] = ws.sql[j]
      /\ \A j \in pos..(i - 1) : new[j] = text[j]
  <2> DEFINE copy == ws.sql \o SubSeq(text, pos, i - 1)
  <2>1. copy \in Seq(Tokens) /\ Len(copy) = i - 1
    BY <1>8
  <2>2. /\ \A j \in 1..(pos - 1) : copy[j] = ws.sql[j]
        /\ \A j \in pos..(i - 1) : copy[j] = text[j]
    BY <1>8
  <2> HIDE DEF text, tok, copy
  <2>3. /\ Append(copy, tok) \in Seq(Tokens) /\ Len(Append(copy, tok)) = Len(copy) + 1
        /\ \A j \in 1..Len(copy) : Append(copy, tok)[j] = copy[j]
        /\ Append(copy, tok)[Len(copy) + 1] = tok
    BY <1>7, <2>1, AppendProperties
  <2>4. /\ Len(Append(copy, tok)) = i /\ Append(copy, tok)[i] = tok
        /\ \A j \in 1..(i - 1) : Append(copy, tok)[j] = copy[j]
    BY <2>1, <2>3
  <2>5. /\ \A j \in 1..(pos - 1) : j \in 1..(i - 1)
        /\ \A j \in pos..(i - 1) : j \in 1..(i - 1)
    BY <1>3
  <2> QED BY <2>2, <2>3, <2>4, <2>5 DEF copy
<1>10. /\ ws'.lits = Tail(ws.lits) /\ ws'.values = Append(ws.values, lit.val)
      /\ ws'.sql = Append(ws.sql \o SubSeq(text, pos, i - 1), tok)
      /\ ws' = [lits |-> ws'.lits, sql |-> ws'.sql, values |-> ws'.values]
  BY DEF Replaces
<1>11. ws' \in [lits : Seq(Literals), sql : Seq(Tokens), values : Seq(Nat)]
  BY <1>4, <1>6, <1>9, <1>10
<1>12. /\ Len(ws'.sql) = i
       /\ \A j \in 1..(pos - 1) : ws'.sql[j] = ws.sql[j]
       /\ \A j \in pos..(i - 1) : ws'.sql[j] = text[j]
       /\ ws'.sql[i] = tok
  BY <1>9, <1>10
<1>13. /\ Len(ws'.values) = n + 1 /\ ws'.values[n + 1] = lit.val
       /\ \A k \in 1..n : ws'.values[k] = ws.values[k]
       /\ Len(ws'.lits) = Len(ws.lits) - 1
       /\ \A k \in 1..(Len(ws.lits) - 1) : ws'.lits[k] = ws.lits[k + 1]
  BY <1>4, <1>6, <1>10
<1> QED BY <1>1, <1>3, <1>4, <1>11, <1>12, <1>13

\* What RewriteEnd makes of it.
LEMMA EndResult ==
    ASSUME TypeOK, RewriteEnd
    PROVE  LET text == TextOf(query) IN
           /\ result'.verdict = "prepared" /\ result'.values = ws.values
           /\ result'.sql \in Seq(Tokens) /\ Len(result'.sql) = Len(text)
           /\ \A j \in 1..(pos - 1) : result'.sql[j] = ws.sql[j]
           /\ \A j \in pos..Len(text) : result'.sql[j] = text[j]
           /\ Len(ws.values) = Len(LiteralsOf(query))
<1>1. /\ query \in Statements /\ IsDMLStatement(query)
      /\ pos \in 1..(Len(TextOf(query)) + 1)
      /\ Len(ws.sql) = pos - 1 /\ ws.lits = <<>> /\ ws.sql \in Seq(Tokens)
      /\ ws.values \in Seq(Nat)
      /\ Len(ws.values) + Len(ws.lits) = Len(LiteralsOf(query))
  BY DEF TypeOK, RewriteEnd
<1>2. TextOf(query) \in Seq(Tokens) /\ Len(TextOf(query)) \in Nat
  BY <1>1, StatementTypes
<1>3. /\ pos \in Nat /\ pos = Len(ws.sql) + 1 /\ pos <= Len(TextOf(query)) + 1
      /\ Len(TextOf(query)) \in Nat /\ Len(TextOf(query)) <= Len(TextOf(query))
  BY <1>1, <1>2
<1>4. LET new == ws.sql \o SubSeq(TextOf(query), pos, Len(TextOf(query))) IN
      /\ new \in Seq(Tokens) /\ Len(new) = Len(TextOf(query))
      /\ \A j \in 1..Len(ws.sql) : new[j] = ws.sql[j]
      /\ \A j \in pos..Len(TextOf(query)) : new[j] = TextOf(query)[j]
  <2>1. PICK from \in Nat, to \in Nat, sql \in Seq(Tokens), txt \in Seq(Tokens) :
          from = pos /\ to = Len(TextOf(query)) /\ sql = ws.sql /\ txt = TextOf(query)
    BY <1>1, <1>2, <1>3
  <2>2. from = Len(sql) + 1 /\ from <= to + 1 /\ to <= Len(txt)
    BY <1>3, <2>1
  <2>3. LET new == sql \o SubSeq(txt, from, to) IN
        /\ new \in Seq(Tokens) /\ Len(new) = to
        /\ \A j \in 1..Len(sql) : new[j] = sql[j]
        /\ \A j \in from..to : new[j] = txt[j]
    BY ONLY <2>2, Copied
  <2> QED BY <2>1, <2>3
<1>5. /\ result'.verdict = "prepared" /\ result'.values = ws.values
      /\ result'.sql = ws.sql \o SubSeq(TextOf(query), pos, Len(TextOf(query)))
  BY DEF RewriteEnd, Result
<1>6. Len(ws.values) = Len(LiteralsOf(query))
  BY <1>1
<1> QED BY <1>1, <1>4, <1>5, <1>6

----------------------------------------------------------------------------
(* Types. *)

LEMMA BeginsWorkspace ==
    ASSUME TypeOK, NEW s, Begins(s)
    PROVE  /\ ws = Empty
           /\ ws' = [lits |-> LiteralsOf(s), sql |-> <<>>, values |-> <<>>]
<1>1. ws = Empty /\ LiteralsOf(s) \in Seq(Literals)
  BY StatementTypes DEF TypeOK, Begins
<1>2. <<>> \o LiteralsOf(s) = LiteralsOf(s)
  BY <1>1
<1> QED BY <1>1, <1>2 DEF Begins, Empty

LEMMA TypeInit == Init => TypeOK
<1> SUFFICES ASSUME Init PROVE TypeOK
  OBVIOUS
<1>1. <<>> \in Seq(Literals) /\ <<>> \in Seq(Tokens) /\ <<>> \in Seq(Nat)
  OBVIOUS
<1> QED BY <1>1 DEF Init, TypeOK, Empty

LEMMA TypeStep == TypeOK /\ [Next]_vars => TypeOK'
<1> SUFFICES ASSUME TypeOK, [Next]_vars PROVE TypeOK'
  OBVIOUS
<1>0. /\ <<>> \in Seq(Literals) /\ <<>> \in Seq(Tokens) /\ <<>> \in Seq(Nat)
      /\ Empty \in [lits : Seq(Literals), sql : Seq(Tokens), values : Seq(Nat)]
  BY DEF Empty
<1>1. ASSUME NEW s, Begins(s) PROVE TypeOK'
  <2>1. ws' = [lits |-> LiteralsOf(s), sql |-> <<>>, values |-> <<>>]
    BY <1>1, BeginsWorkspace
  <2>2. /\ s \in Statements /\ IsDMLStatement(s) /\ query' = s /\ pos' = 1 /\ pc' = "scan"
        /\ result' = result /\ result.sql \in Seq(Tokens) /\ result.values \in Seq(Nat)
    BY <1>1 DEF Begins, TypeOK
  <2>3. /\ LiteralsOf(s) \in Seq(Literals) /\ Len(TextOf(s)) \in Nat
        /\ Len(LiteralsOf(s)) \in Nat
    BY <2>2, StatementTypes
  <2>4. /\ ws' \in [lits : Seq(Literals), sql : Seq(Tokens), values : Seq(Nat)]
        /\ Len(ws'.sql) = 0 /\ Len(ws'.values) = 0 /\ ws'.lits = LiteralsOf(s)
        /\ DOMAIN ws'.values = {}
    BY <1>0, <2>1, <2>3
  <2> QED BY <2>2, <2>3, <2>4 DEF TypeOK
<1>2. ASSUME NEW s, Answered(s) PROVE TypeOK'
  <2>1. /\ s \in Statements /\ query' = s /\ pc' = "done" /\ ws' = Empty
    BY <1>2 DEF Answered, TypeOK
  <2>2. result'.sql \in Seq(Tokens) /\ result'.values \in Seq(Nat)
    <3>1. CASE result' = [verdict |-> s.kind, sql |-> <<>>, values |-> <<>>]
      BY <1>0, <3>1
    <3>2. CASE result' = [verdict |-> "notify", sql |-> <<>>, values |-> <<>>]
      BY <1>0, <3>2
    <3>3. CASE /\ IsDMLStatement(s)
               /\ result' = [verdict |-> "asis", sql |-> TextOf(s), values |-> <<>>]
      <4>1. TextOf(s) \in Seq(Tokens)
        BY <2>1, <3>3, StatementTypes
      <4> QED BY <1>0, <3>3, <4>1
    <3> QED BY <1>2, <3>1, <3>2, <3>3, Zenon DEF Answered
  <2> QED BY <1>0, <2>1, <2>2 DEF TypeOK
<1>3. CASE GivesUp
  <2>1. query' = query /\ query \in Statements \cup {None} /\ pc' = "done" /\ ws' = Empty
    BY <1>3 DEF GivesUp, TypeOK
  <2>2. result'.sql \in Seq(Tokens) /\ result'.values \in Seq(Nat)
    BY <1>0, <1>3 DEF GivesUp
  <2> QED BY <1>0, <2>1, <2>2 DEF TypeOK
<1>4. ASSUME NEW i \in Nat, Replaces(i) PROVE TypeOK'
  <2>1. /\ pc' = "scan" /\ query' = query /\ pos' = i + 1 /\ result' = result
        /\ query \in Statements /\ IsDMLStatement(query)
        /\ result.sql \in Seq(Tokens) /\ result.values \in Seq(Nat)
        /\ Len(ws.values) + Len(ws.lits) = Len(LiteralsOf(query))
        /\ \A k \in DOMAIN ws.values :
              \E j \in DOMAIN ws.sql : ws.sql[j].kind = "param" /\ ws.sql[j].val = k
        /\ ws.values \in Seq(Nat) /\ ws.sql \in Seq(Tokens)
    BY <1>4 DEF Replaces, TypeOK
  <2>2. Len(TextOf(query)) \in Nat /\ Len(LiteralsOf(query)) \in Nat
    BY <2>1, StatementTypes
  <2>3. /\ Len(ws.values) \in Nat /\ pos \in Nat \ {0} /\ i \in pos..Len(TextOf(query))
        /\ Len(ws.lits) \in Nat \ {0}
        /\ ws' \in [lits : Seq(Literals), sql : Seq(Tokens), values : Seq(Nat)]
        /\ Len(ws.sql) = pos - 1 /\ Len(ws'.sql) = i
        /\ \A j \in 1..(pos - 1) : ws'.sql[j] = ws.sql[j]
        /\ ws'.sql[i] = [kind |-> "param", val |-> Len(ws.values) + 1,
                         at |-> TextOf(query)[i].at]
        /\ Len(ws'.values) = Len(ws.values) + 1
        /\ Len(ws'.lits) = Len(ws.lits) - 1
    BY <1>4, ReplacesWorkspace, Zenon
  <2>4. i + 1 \in 1..(Len(TextOf(query)) + 1) /\ i = (i + 1) - 1
    BY <2>2, <2>3
  <2>5. Len(ws'.values) + Len(ws'.lits) = Len(LiteralsOf(query))
    <3>1. PICK a \in Nat, b \in Nat : a = Len(ws.values) /\ b = Len(ws.lits)
      BY <2>3
    <3>2. Len(ws'.values) = a + 1 /\ Len(ws'.lits) = b - 1 /\ a + b = Len(LiteralsOf(query))
      BY <2>1, <2>3, <3>1
    <3>3. (a + 1) + (b - 1) = a + b
      OBVIOUS
    <3> QED BY <3>2, <3>3
  <2>6. ASSUME NEW k \in DOMAIN ws'.values
        PROVE  \E j \in DOMAIN ws'.sql : ws'.sql[j].kind = "param" /\ ws'.sql[j].val = k
    <3>1. /\ k \in 1..(Len(ws.values) + 1) /\ DOMAIN ws.values = 1..Len(ws.values)
          /\ DOMAIN ws'.sql = 1..i /\ DOMAIN ws.sql = 1..(pos - 1)
      <4>1. ws'.values \in Seq(Nat) /\ ws'.sql \in Seq(Tokens)
        BY <2>3
      <4>2. DOMAIN ws'.values = 1..Len(ws'.values) /\ DOMAIN ws'.sql = 1..Len(ws'.sql)
        BY <4>1
      <4>3. DOMAIN ws.values = 1..Len(ws.values) /\ DOMAIN ws.sql = 1..Len(ws.sql)
        BY <2>1
      <4> QED BY <2>3, <4>2, <4>3, Zenon
    <3>2. CASE k = Len(ws.values) + 1
      <4>1. i \in DOMAIN ws'.sql
        BY <2>3, <3>1
      <4>2. ws'.sql[i].kind = "param" /\ ws'.sql[i].val = k
        BY <2>3, <3>2
      <4> QED BY <4>1, <4>2
    <3>3. CASE k # Len(ws.values) + 1
      <4>1. k \in DOMAIN ws.values
        BY <2>3, <3>1, <3>3
      <4>2. PICK j \in 1..(pos - 1) : ws.sql[j].kind = "param" /\ ws.sql[j].val = k
        BY <2>1, <3>1, <4>1
      <4>3. j \in 1..i /\ ws'.sql[j] = ws.sql[j]
        BY <2>3, <4>2
      <4> QED BY <3>1, <4>2, <4>3
    <3> QED BY <3>2, <3>3
  <2> QED BY <2>1, <2>3, <2>4, <2>5, <2>6 DEF TypeOK
<1>5. CASE RewriteEnd
  <2>1. result'.sql \in Seq(Tokens) /\ result'.values = ws.values /\ ws.values \in Seq(Nat)
    BY <1>5, EndResult DEF TypeOK
  <2>2. query' = query /\ query \in Statements \cup {None} /\ pc' = "done" /\ ws' = Empty
    BY <1>5 DEF RewriteEnd, PutParamWorkspace, TypeOK
  <2> QED BY <1>0, <2>1, <2>2 DEF TypeOK
<1>6. CASE NextQuery
  <2>1. query' = None /\ pc' = "idle" /\ ws' = Empty
    BY <1>6 DEF NextQuery, TypeOK
  <2>2. result'.sql \in Seq(Tokens) /\ result'.values \in Seq(Nat)
    BY <1>0, <1>6 DEF NextQuery, Result
  <2> QED BY <1>0, <2>1, <2>2 DEF TypeOK
<1>7. CASE UNCHANGED vars
  BY <1>7 DEF TypeOK, vars
<1> QED BY <1>1, <1>2, <1>3, <1>4, <1>5, <1>6, <1>7, RewriteLiteralCases, ClassifyCases DEF Next

\* TypeOK of Parameterize in every reachable state, for any statements, texts and
\* literals: the scan of rewriteLiteralsWS stays in the text, uses every literal up
\* once, and the workspace that goes back to the pool is empty (putParamWorkspace).
THEOREM ParameterizeTypeCorrect == Spec => []TypeOK
BY TypeInit, TypeStep, PTL DEF Spec

----------------------------------------------------------------------------
(* The statement stays what it is. *)

\* Nothing in the text looks like a literal of the statement and is none: no $N that
\* containsParam misses, no name with the digits of a number.
NoLookalikes ==
    \A s \in Statements : IsDMLStatement(s) /\ ~HasParam(s) =>
        \A i \in 1..Len(TextOf(s)) :
            /\ TextOf(s)[i].kind # "param"
            /\ TextOf(s)[i].kind = "name" =>
                  \A k \in 1..Len(LiteralsOf(s)) : ~TakenFor(TextOf(s)[i], LiteralsOf(s)[k])

\* No statement has more literals than the count of a Bind can say.
CountsFit ==
    \A s \in Statements : IsDMLStatement(s) => Len(LiteralsOf(s)) < CountRange

\* The values are those of the first literals, and the others are still to come.
Used ==
    pc = "scan" =>
        /\ ~HasParam(query)
        /\ \A k \in 1..Len(ws.values) : ws.values[k] = LiteralsOf(query)[k].val
        /\ \A k \in 1..Len(ws.lits) : ws.lits[k] = LiteralsOf(query)[Len(ws.values) + k]

\* A token is copied, or a parameter with its value stands for a literal.
Stands(sql, values, text) ==
    \A i \in 1..Len(sql) :
        \/ sql[i] = text[i] /\ text[i].kind # "param"
        \/ /\ sql[i].kind = "param" /\ sql[i].val \in 1..Len(values)
           /\ text[i].kind \in LitKinds /\ values[sql[i].val] = text[i].val

\* There is no result while a query is rewritten.
Pending == pc # "done" => result = NoResult

SameInv ==
    /\ pc = "scan" => Stands(ws.sql, ws.values, TextOf(query))
    /\ result.verdict = "prepared" =>
          /\ query \in Statements /\ IsDMLStatement(query)
          /\ Len(result.sql) = Len(TextOf(query))
          /\ Len(result.values) = Len(LiteralsOf(query))
          /\ Stands(result.sql, result.values, TextOf(query))

LEMMA UsedStep ==
    ASSUME TypeOK, Used, Pending, [Next]_vars
    PROVE  Used' /\ Pending'
<1>1. ASSUME NEW s, Begins(s) PROVE Used' /\ Pending'
  <2>1. ws' = [lits |-> LiteralsOf(s), sql |-> <<>>, values |-> <<>>]
    BY <1>1, BeginsWorkspace
  <2>2. s \in Statements /\ IsDMLStatement(s) /\ ~HasParam(s) /\ query' = s /\ result' = result
    BY <1>1 DEF Begins
  <2>3. result = NoResult
    BY <1>1 DEF Begins, Pending
  <2>4. Len(LiteralsOf(s)) \in Nat /\ Len(<<>>) = 0
    BY <2>2, StatementTypes
  <2>5. \A k \in 1..Len(LiteralsOf(s)) : LiteralsOf(s)[k] = LiteralsOf(s)[0 + k]
    BY <2>4
  <2>6. \A k \in 1..0 : FALSE
    OBVIOUS
  <2>7. ws'.values = <<>> /\ ws'.lits = LiteralsOf(s) /\ Len(ws'.values) = 0
    BY <2>1
  <2> QED BY <2>2, <2>3, <2>5, <2>6, <2>7 DEF Used, Pending
<1>2. ASSUME NEW s, Answered(s) PROVE Used' /\ Pending'
  BY <1>2 DEF Answered, Used, Pending
<1>3. CASE GivesUp
  BY <1>3 DEF GivesUp, Used, Pending
<1>4. ASSUME NEW i \in Nat, Replaces(i) PROVE Used' /\ Pending'
  <2>1. /\ query' = query /\ pc = "scan" /\ pc' = "scan" /\ result' = result
        /\ ~HasParam(query)
        /\ \A k \in 1..Len(ws.values) : ws.values[k] = LiteralsOf(query)[k].val
        /\ \A k \in 1..Len(ws.lits) : ws.lits[k] = LiteralsOf(query)[Len(ws.values) + k]
    BY <1>4 DEF Replaces, Used
  <2>2. /\ Len(ws.values) \in Nat /\ Len(ws.lits) \in Nat \ {0}
        /\ Head(ws.lits) = ws.lits[1]
        /\ Len(ws'.values) = Len(ws.values) + 1
        /\ ws'.values[Len(ws.values) + 1] = Head(ws.lits).val
        /\ \A k \in 1..Len(ws.values) : ws'.values[k] = ws.values[k]
        /\ Len(ws'.lits) = Len(ws.lits) - 1
        /\ \A k \in 1..(Len(ws.lits) - 1) : ws'.lits[k] = ws.lits[k + 1]
    BY <1>4, ReplacesWorkspace, Zenon
  <2>3. PICK n \in Nat, m \in Nat : n = Len(ws.values) /\ m = Len(ws.lits) /\ m # 0
    BY <2>2
  <2>4. \A k \in 1..(n + 1) : ws'.values[k] = LiteralsOf(query)[k].val
    <3> SUFFICES ASSUME NEW k \in 1..(n + 1) PROVE ws'.values[k] = LiteralsOf(query)[k].val
      OBVIOUS
    <3>1. CASE k \in 1..n
      BY <2>1, <2>2, <2>3, <3>1
    <3>2. CASE k = n + 1
      <4>1. 1 \in 1..m
        BY <2>3
      <4>2. ws.lits[1] = LiteralsOf(query)[n + 1]
        BY <2>1, <2>3, <4>1
      <4> QED BY <2>2, <2>3, <3>2, <4>2
    <3>3. k \in 1..n \/ k = n + 1
      OBVIOUS
    <3> QED BY <3>1, <3>2, <3>3
  <2>5. \A k \in 1..(m - 1) : ws'.lits[k] = LiteralsOf(query)[(n + 1) + k]
    <3> SUFFICES ASSUME NEW k \in 1..(m - 1)
                 PROVE  ws'.lits[k] = LiteralsOf(query)[(n + 1) + k]
      OBVIOUS
    <3>1. k + 1 \in 1..m /\ n + (k + 1) = (n + 1) + k
      OBVIOUS
    <3>2. ws'.lits[k] = ws.lits[k + 1]
      BY <2>2, <2>3
    <3>3. ws.lits[k + 1] = LiteralsOf(query)[n + (k + 1)]
      BY <2>1, <2>3, <3>1
    <3> QED BY <3>1, <3>2, <3>3
  <2>6. Len(ws'.values) = n + 1 /\ Len(ws'.lits) = m - 1
    BY <2>2, <2>3
  <2>7. Used'
    BY <2>1, <2>4, <2>5, <2>6 DEF Used
  <2> QED BY <2>1, <2>7 DEF Pending
<1>5. CASE RewriteEnd
  BY <1>5 DEF RewriteEnd, Used, Pending
<1>6. CASE NextQuery
  BY <1>6 DEF NextQuery, Result, NoResult, Used, Pending
<1>7. CASE UNCHANGED vars
  BY <1>7 DEF Used, Pending, vars
<1> QED BY <1>1, <1>2, <1>3, <1>4, <1>5, <1>6, <1>7, RewriteLiteralCases, ClassifyCases DEF Next

\* What the scan takes for a literal then is one.
LEMMA TakenIsLiteral ==
    ASSUME NoLookalikes, NEW s \in Statements, IsDMLStatement(s), ~HasParam(s),
           NEW i \in 1..Len(TextOf(s)), NEW k \in 1..Len(LiteralsOf(s)),
           TakenFor(TextOf(s)[i], LiteralsOf(s)[k])
    PROVE  /\ TextOf(s)[i].kind \in LitKinds
           /\ TextOf(s)[i].val = LiteralsOf(s)[k].val
<1>1. LiteralsOf(s)[k].kind \in LitKinds
  BY StatementTypes DEF Literals
<1>2. TextOf(s)[i].kind \notin {"name", "param"}
  BY DEF NoLookalikes
<1> QED BY <1>1, <1>2 DEF TakenFor

LEMMA SameReplaces ==
    ASSUME NoLookalikes, TypeOK, Used, SameInv, NEW i \in Nat, Replaces(i)
    PROVE  Stands(ws'.sql, ws'.values, TextOf(query))
<1> DEFINE text == TextOf(query)
<1>1. /\ pc = "scan" /\ query \in Statements /\ IsDMLStatement(query) /\ ~HasParam(query)
      /\ Stands(ws.sql, ws.values, text)
      /\ Len(ws.values) + Len(ws.lits) = Len(LiteralsOf(query))
  BY DEF Replaces, TypeOK, Used, SameInv
<1>2. /\ Len(ws.values) \in Nat /\ pos \in Nat \ {0} /\ i \in pos..Len(text)
      /\ Head(ws.lits) = ws.lits[1] /\ Len(ws.lits) \in Nat \ {0}
      /\ TakenFor(text[i], Head(ws.lits))
      /\ Len(ws.sql) = pos - 1 /\ Len(ws'.sql) = i
      /\ \A j \in 1..(pos - 1) : ws'.sql[j] = ws.sql[j]
      /\ \A j \in pos..(i - 1) : ws'.sql[j] = text[j]
      /\ ws'.sql[i] = [kind |-> "param", val |-> Len(ws.values) + 1, at |-> text[i].at]
      /\ Len(ws'.values) = Len(ws.values) + 1
      /\ ws'.values[Len(ws.values) + 1] = Head(ws.lits).val
      /\ \A k \in 1..Len(ws.values) : ws'.values[k] = ws.values[k]
  BY ReplacesWorkspace, Zenon
<1>3. PICK n \in Nat, p \in Nat \ {0}, m \in Nat \ {0}, t \in Nat :
         n = Len(ws.values) /\ p = pos /\ m = Len(ws.lits) /\ t = Len(text)
  BY <1>1, <1>2, StatementTypes
<1>4. i \in p..t /\ n + m = Len(LiteralsOf(query))
  BY <1>1, <1>2, <1>3
<1>5. Head(ws.lits) = LiteralsOf(query)[n + 1] /\ n + 1 \in 1..Len(LiteralsOf(query))
  <2>1. 1 \in 1..m /\ n + 1 \in 1..(n + m)
    OBVIOUS
  <2>2. ws.lits[1] = LiteralsOf(query)[n + 1]
    <3>1. \A k \in 1..Len(ws.lits) : ws.lits[k] = LiteralsOf(query)[Len(ws.values) + k]
      BY <1>1 DEF Used
    <3> QED BY <1>3, <2>1, <3>1
  <2> QED BY <1>2, <1>4, <2>1, <2>2
<1>6. text[i].kind \in LitKinds /\ text[i].val = Head(ws.lits).val
  <2>1. i \in 1..Len(text)
    BY <1>3, <1>4
  <2>2. PICK k \in 1..Len(LiteralsOf(query)) : LiteralsOf(query)[k] = Head(ws.lits)
    BY <1>5
  <2>3. TakenFor(text[i], LiteralsOf(query)[k])
    BY <1>2, <2>2
  <2>4. text[i].kind \in LitKinds /\ text[i].val = LiteralsOf(query)[k].val
    BY <1>1, <2>1, <2>3, TakenIsLiteral
  <2> QED BY <2>2, <2>4
<1>7. ASSUME NEW j \in 1..i
      PROVE  \/ ws'.sql[j] = text[j] /\ text[j].kind # "param"
             \/ /\ ws'.sql[j].kind = "param" /\ ws'.sql[j].val \in 1..Len(ws'.values)
                /\ text[j].kind \in LitKinds /\ ws'.values[ws'.sql[j].val] = text[j].val
  <2>1. CASE j \in 1..(p - 1)
    <3>1. /\ j \in 1..Len(ws.sql) /\ ws'.sql[j] = ws.sql[j] /\ 1..n \subseteq 1..(n + 1)
      BY <1>2, <1>3, <2>1
    <3>2. \/ ws.sql[j] = text[j] /\ text[j].kind # "param"
          \/ /\ ws.sql[j].kind = "param" /\ ws.sql[j].val \in 1..Len(ws.values)
             /\ text[j].kind \in LitKinds /\ ws.values[ws.sql[j].val] = text[j].val
      BY <1>1, <3>1 DEF Stands
    <3>3. \A k \in 1..n : ws'.values[k] = ws.values[k] /\ k \in 1..Len(ws'.values)
      BY <1>2, <1>3, <3>1
    <3> QED BY <1>3, <3>1, <3>2, <3>3
  <2>2. CASE j \in p..(i - 1)
    <3>1. j \in 1..Len(text)
      BY <1>3, <1>4, <2>2
    <3>2. text[j].kind # "param"
      BY <1>1, <3>1 DEF NoLookalikes
    <3>3. ws'.sql[j] = text[j]
      BY <1>2, <1>3, <2>2
    <3> QED BY <3>2, <3>3
  <2>3. CASE j = i
    <3>1. n + 1 \in 1..Len(ws'.values)
      BY <1>2, <1>3
    <3>2. /\ ws'.sql[i].kind = "param" /\ ws'.sql[i].val = n + 1
          /\ ws'.values[n + 1] = text[i].val
      BY <1>2, <1>3, <1>6
    <3> QED BY <1>6, <2>3, <3>1, <3>2
  <2>4. j \in 1..(p - 1) \/ j \in p..(i - 1) \/ j = i
    BY <1>3, <1>4
  <2> QED BY <2>1, <2>2, <2>3, <2>4
<1> QED BY <1>2, <1>7 DEF Stands

LEMMA SameEnd ==
    ASSUME NoLookalikes, TypeOK, Used, SameInv, RewriteEnd
    PROVE  Stands(result'.sql, result'.values, TextOf(query))
<1> DEFINE text == TextOf(query)
<1>1. /\ pc = "scan" /\ query \in Statements /\ IsDMLStatement(query) /\ ~HasParam(query)
      /\ Stands(ws.sql, ws.values, text) /\ Len(ws.sql) = pos - 1
      /\ pos \in 1..(Len(text) + 1)
  BY DEF RewriteEnd, TypeOK, Used, SameInv
<1>2. /\ result'.values = ws.values /\ Len(result'.sql) = Len(text)
      /\ \A j \in 1..(pos - 1) : result'.sql[j] = ws.sql[j]
      /\ \A j \in pos..Len(text) : result'.sql[j] = text[j]
  BY EndResult, Zenon
<1>3. PICK p \in Nat \ {0}, t \in Nat : p = pos /\ t = Len(text)
  <2>1. Len(text) \in Nat
    BY <1>1, StatementTypes
  <2>2. pos \in Nat \ {0}
    BY <1>1, <2>1
  <2> QED BY <2>1, <2>2
<1>4. ASSUME NEW j \in 1..t
      PROVE  \/ result'.sql[j] = text[j] /\ text[j].kind # "param"
             \/ /\ result'.sql[j].kind = "param" /\ result'.sql[j].val \in 1..Len(ws.values)
                /\ text[j].kind \in LitKinds /\ ws.values[result'.sql[j].val] = text[j].val
  <2>1. CASE j \in 1..(p - 1)
    <3>1. j \in 1..Len(ws.sql) /\ result'.sql[j] = ws.sql[j]
      BY <1>1, <1>2, <1>3, <2>1
    <3> QED BY <1>1, <3>1 DEF Stands
  <2>2. CASE j \in p..t
    <3>1. text[j].kind # "param"
      BY <1>1, <1>3 DEF NoLookalikes
    <3>2. result'.sql[j] = text[j]
      BY <1>2, <1>3, <2>2
    <3> QED BY <3>1, <3>2
  <2>3. j \in 1..(p - 1) \/ j \in p..t
    BY <1>3
  <2> QED BY <2>1, <2>2, <2>3
<1> QED BY <1>2, <1>3, <1>4 DEF Stands

LEMMA SameStep ==
    ASSUME NoLookalikes, TypeOK, Used, Pending, SameInv, [Next]_vars
    PROVE  SameInv'
<1>1. ASSUME NEW s, Begins(s) PROVE SameInv'
  <2>1. ws' = [lits |-> LiteralsOf(s), sql |-> <<>>, values |-> <<>>]
    BY <1>1, BeginsWorkspace
  <2>2. result' = result /\ result = NoResult
    BY <1>1 DEF Begins, Pending
  <2>3. Len(ws'.sql) = 0 /\ \A j \in 1..0 : FALSE
    BY <2>1
  <2> QED BY <2>2, <2>3 DEF SameInv, Stands, NoResult
<1>2. ASSUME NEW s, Answered(s) PROVE SameInv'
  <2>1. result'.verdict # "prepared"
    <3>1. CASE ~IsDMLStatement(s) /\ result' = [verdict |-> s.kind, sql |-> <<>>, values |-> <<>>]
      <4>1. s.kind \in {"listen", "unlisten", "notify", "simple"}
        BY <1>2, <3>1, ParameterizeAssumption DEF Answered
      <4> QED BY <3>1, <4>1
    <3>2. CASE result' = [verdict |-> "notify", sql |-> <<>>, values |-> <<>>]
      BY <3>2
    <3>3. CASE result' = [verdict |-> "asis", sql |-> TextOf(s), values |-> <<>>]
      BY <3>3
    <3> QED BY <1>2, <3>1, <3>2, <3>3, Zenon DEF Answered
  <2> QED BY <1>2, <2>1 DEF Answered, SameInv
<1>3. CASE GivesUp
  BY <1>3 DEF GivesUp, SameInv
<1>4. ASSUME NEW i \in Nat, Replaces(i) PROVE SameInv'
  <2>1. Stands(ws'.sql, ws'.values, TextOf(query))
    BY <1>4, SameReplaces
  <2>2. query' = query /\ result' = result /\ result = NoResult
    BY <1>4 DEF Replaces, Pending
  <2> QED BY <2>1, <2>2 DEF SameInv, NoResult, Stands
<1>5. CASE RewriteEnd
  <2>1. Stands(result'.sql, result'.values, TextOf(query))
    BY <1>5, SameEnd
  <2>2. /\ query' = query /\ pc' = "done" /\ query \in Statements /\ IsDMLStatement(query)
    BY <1>5 DEF RewriteEnd, TypeOK
  <2>3. /\ result'.values = ws.values /\ Len(result'.sql) = Len(TextOf(query))
        /\ Len(ws.values) = Len(LiteralsOf(query))
    BY <1>5, EndResult, Zenon
  <2> QED BY <2>1, <2>2, <2>3 DEF SameInv, Stands
<1>6. CASE NextQuery
  BY <1>6 DEF NextQuery, Result, SameInv
<1>7. CASE UNCHANGED vars
  BY <1>7 DEF SameInv, vars
<1> QED BY <1>1, <1>2, <1>3, <1>4, <1>5, <1>6, <1>7, RewriteLiteralCases, ClassifyCases DEF Next

LEMMA SameInit == Init => Used /\ Pending /\ SameInv
BY DEF Init, Used, Pending, SameInv, NoResult

LEMMA SameImplies ==
    ASSUME CountsFit, TypeOK, SameInv
    PROVE  SameStatement
<1> SUFFICES ASSUME result.verdict = "prepared"
             PROVE  LET text == TextOf(query)
                        bound == Bound(result.sql, BuildBindBody(result.values))
                    IN  /\ Len(bound) = Len(text)
                        /\ \A i \in DOMAIN text :
                              /\ bound[i].val = text[i].val
                              /\ IF bound[i].kind = "value" THEN text[i].kind \in LitKinds
                                 ELSE bound[i].kind = text[i].kind
  BY DEF SameStatement
<1> DEFINE text == TextOf(query)
           sql == result.sql
           bind == BuildBindBody(result.values)
           bound == Bound(sql, bind)
<1>1. /\ query \in Statements /\ IsDMLStatement(query)
      /\ Len(sql) = Len(text) /\ Len(result.values) = Len(LiteralsOf(query))
      /\ Stands(sql, result.values, text)
      /\ sql \in Seq(Tokens) /\ result.values \in Seq(Nat)
  BY DEF SameInv, TypeOK
<1>2. /\ Len(text) \in Nat /\ DOMAIN text = 1..Len(text)
      /\ \A i \in 1..Len(text) : text[i] \in Tokens
  BY <1>1, StatementTypes
<1>3. DOMAIN sql = 1..Len(text)
  BY <1>1
<1>4. bind.count = Len(result.values) /\ bind.values = result.values
  <2>1. PICK n \in Nat, r \in Nat : n = Len(result.values) /\ r = CountRange
    BY <1>1, ParameterizeAssumption
  <2>2. n < r
    BY <1>1, <2>1 DEF CountsFit
  <2>3. n % r = n
    BY <2>2
  <2> QED BY <2>1, <2>3 DEF BuildBindBody
<1>5. bound = [i \in 1..Len(text) |->
                 IF sql[i].kind = "param" /\ sql[i].val \in 1..Len(result.values)
                 THEN Token("value", result.values[sql[i].val])
                 ELSE Token(sql[i].kind, sql[i].val)]
  BY <1>3, <1>4 DEF Bound
<1>6. Len(bound) = Len(text)
  BY <1>2, <1>5
<1>7. ASSUME NEW i \in 1..Len(text)
      PROVE  /\ bound[i].val = text[i].val
             /\ IF bound[i].kind = "value" THEN text[i].kind \in LitKinds
                ELSE bound[i].kind = text[i].kind
  <2>1. bound[i] = IF sql[i].kind = "param" /\ sql[i].val \in 1..Len(result.values)
                   THEN Token("value", result.values[sql[i].val])
                   ELSE Token(sql[i].kind, sql[i].val)
    BY <1>5
  <2> HIDE DEF bound
  <2>2. text[i].kind # "value"
    BY <1>2 DEF Tokens, TokenKinds, LitKinds
  <2>3. CASE sql[i] = text[i] /\ text[i].kind # "param"
    BY <2>1, <2>2, <2>3 DEF Token
  <2>4. CASE /\ sql[i].kind = "param" /\ sql[i].val \in 1..Len(result.values)
             /\ text[i].kind \in LitKinds /\ result.values[sql[i].val] = text[i].val
    BY <2>1, <2>4 DEF Token
  <2> QED BY <1>1, <2>3, <2>4 DEF Stands
<1> QED BY <1>2, <1>6, <1>7

\* A query that is served as a prepared statement (ClassifyAndParameterize,
\* executeAsPrepared) is the client's: with the values for the parameters it reads
\* like the text that was sent.  For every statement, of any length and in any order
\* of its literals, as long as no other token looks like one of them and the count of
\* the Bind does not overflow; the walk over the tree is not looked into.
THEOREM RewritingKeepsStatements ==
    ASSUME NoLookalikes, CountsFit
    PROVE  Spec => []SameStatement
<1>1. /\ TypeOK /\ Used /\ Pending /\ SameInv /\ [Next]_vars
      => Used' /\ Pending' /\ SameInv'
  BY UsedStep, SameStep
<1>2. TypeOK /\ SameInv => SameStatement
  BY SameImplies
<1> QED BY ParameterizeTypeCorrect, SameInit, <1>1, <1>2, PTL DEF Spec

----------------------------------------------------------------------------
(* Every literal in its place. *)

\* The places in which the literals of a statement stand, if the walk met them in
\* the order of the text and each is the first of its like after the one before.
Places(s) ==
    {f \in [DOMAIN LiteralsOf(s) -> DOMAIN TextOf(s)] :
        \A k \in DOMAIN LiteralsOf(s) :
            f[k] \in FindNextLiteral(TextOf(s), IF k = 1 THEN 1 ELSE f[k - 1] + 1,
                                     LiteralsOf(s)[k])}

\* The first n of these places have their parameters, the rest is the text.
Filled(sql, text, f, n) ==
    \A i \in 1..Len(sql) :
        /\ \A k \in 1..n :
              f[k] = i => sql[i] = [kind |-> "param", val |-> k, at |-> text[i].at]
        /\ (\A k \in 1..n : f[k] # i) => sql[i] = text[i]

\* The statement is served, with a parameter for each of its literals.
LiteralsReplaced ==
    /\ result.verdict \in {"prepared", "simple"} /\ query \in Statements
    /\ IsDMLStatement(query)
    => \A f \in Places(query) :
          /\ result.verdict = "prepared"
          /\ Len(result.sql) = Len(TextOf(query))
          /\ Filled(result.sql, TextOf(query), f, Len(LiteralsOf(query)))
          /\ Len(result.values) = Len(LiteralsOf(query))
          /\ \A k \in 1..Len(LiteralsOf(query)) :
                result.values[k] = LiteralsOf(query)[k].val

PlaceInv ==
    /\ pc = "scan" =>
          \A f \in Places(query) :
              /\ pos = IF Len(ws.values) = 0 THEN 1 ELSE f[Len(ws.values)] + 1
              /\ \A k \in 1..Len(ws.values) : f[k] < pos
              /\ Filled(ws.sql, TextOf(query), f, Len(ws.values))
    /\ LiteralsReplaced

\* A literal is found in one place.
LEMMA FoundOnce ==
    ASSUME NEW text, Len(text) \in Nat, NEW p \in Nat, NEW lit,
           NEW i \in FindNextLiteral(text, p, lit), NEW j \in FindNextLiteral(text, p, lit)
    PROVE  i = j /\ i \in p..Len(text)
<1>1. /\ i \in p..Len(text) /\ j \in p..Len(text)
      /\ TakenFor(text[i], lit) /\ TakenFor(text[j], lit)
      /\ \A k \in p..(i - 1) : ~TakenFor(text[k], lit)
      /\ \A k \in p..(j - 1) : ~TakenFor(text[k], lit)
  BY DEF FindNextLiteral
<1>2. ~(i < j) /\ ~(j < i)
  <2>1. i \in Int /\ j \in Int
    BY <1>1
  <2>2. i < j => i \in p..(j - 1)
    BY <1>1, <2>1
  <2>3. j < i => j \in p..(i - 1)
    BY <1>1, <2>1
  <2> QED BY <1>1, <2>2, <2>3
<1> QED BY <1>1, <1>2

\* The next literal of a query with places is found in its place.
LEMMA NextPlace ==
    ASSUME TypeOK, Used, PlaceInv, pc = "scan", ws.lits # <<>>,
           NEW f \in Places(query)
    PROVE  /\ Len(ws.values) \in Nat
           /\ f[Len(ws.values) + 1] \in FindNextLiteral(TextOf(query), pos, Head(ws.lits))
<1>1. /\ query \in Statements /\ IsDMLStatement(query)
      /\ ws.lits \in Seq(Literals) /\ ws.values \in Seq(Nat)
      /\ Len(ws.values) + Len(ws.lits) = Len(LiteralsOf(query))
      /\ pos = IF Len(ws.values) = 0 THEN 1 ELSE f[Len(ws.values)] + 1
      /\ \A k \in 1..Len(ws.lits) : ws.lits[k] = LiteralsOf(query)[Len(ws.values) + k]
  BY DEF TypeOK, Used, PlaceInv
<1>2. DOMAIN LiteralsOf(query) = 1..Len(LiteralsOf(query))
  BY <1>1, StatementTypes
<1>3. PICK n \in Nat, m \in Nat \ {0} : n = Len(ws.values) /\ m = Len(ws.lits)
  BY <1>1
<1>4. 1 \in 1..m /\ n + 1 \in 1..(n + m) /\ (n + 1) - 1 = n /\ (n + 1 = 1 <=> n = 0)
  OBVIOUS
<1>5. Head(ws.lits) = LiteralsOf(query)[n + 1]
  <2>1. Head(ws.lits) = ws.lits[1]
    BY <1>1
  <2>2. ws.lits[1] = LiteralsOf(query)[n + 1]
    BY <1>1, <1>3, <1>4
  <2> QED BY <2>1, <2>2
<1>6. n + 1 \in DOMAIN LiteralsOf(query)
  BY <1>1, <1>2, <1>3, <1>4
<1>7. f[n + 1] \in FindNextLiteral(TextOf(query), IF n + 1 = 1 THEN 1 ELSE f[(n + 1) - 1] + 1,
                                   LiteralsOf(query)[n + 1])
  BY <1>6 DEF Places
<1>8. pos = IF n + 1 = 1 THEN 1 ELSE f[(n + 1) - 1] + 1
  BY <1>1, <1>3, <1>4
<1> QED BY <1>3, <1>5, <1>7, <1>8

LEMMA PlaceReplaces ==
    ASSUME TypeOK, Used, PlaceInv, NEW i \in Nat, Replaces(i), NEW f \in Places(query)
    PROVE  /\ pos' = f[Len(ws'.values)] + 1 /\ Len(ws'.values) # 0
           /\ \A k \in 1..Len(ws'.values) : f[k] < pos'
           /\ Filled(ws'.sql, TextOf(query), f, Len(ws'.values))
<1> DEFINE text == TextOf(query)
<1>1. /\ pc = "scan" /\ ws.lits # <<>> /\ query \in Statements /\ IsDMLStatement(query)
      /\ pos' = i + 1
      /\ i \in FindNextLiteral(text, pos, Head(ws.lits))
  BY DEF Replaces, TypeOK
<1>2. /\ Len(ws.values) \in Nat /\ pos \in Nat \ {0} /\ i \in pos..Len(text)
      /\ Len(ws.sql) = pos - 1 /\ Len(ws'.sql) = i
      /\ \A j \in 1..(pos - 1) : ws'.sql[j] = ws.sql[j]
      /\ \A j \in pos..(i - 1) : ws'.sql[j] = text[j]
      /\ ws'.sql[i] = [kind |-> "param", val |-> Len(ws.values) + 1, at |-> text[i].at]
      /\ Len(ws'.values) = Len(ws.values) + 1
  BY ReplacesWorkspace, Zenon
<1>3. Len(text) \in Nat
  BY <1>1, StatementTypes
<1>4. PICK n \in Nat, p \in Nat \ {0}, t \in Nat :
         n = Len(ws.values) /\ p = pos /\ t = Len(text)
  BY <1>2, <1>3
<1>5. i \in p..t
  BY <1>2, <1>4
<1>6. f[n + 1] = i
  <2>1. f[n + 1] \in FindNextLiteral(text, p, Head(ws.lits))
    BY <1>1, <1>4, NextPlace
  <2>2. i \in FindNextLiteral(text, p, Head(ws.lits))
    BY <1>1, <1>4
  <2>3. PICK x, txt, lit : x = f[n + 1] /\ txt = text /\ lit = Head(ws.lits)
    OBVIOUS
  <2>4. /\ x \in FindNextLiteral(txt, p, lit) /\ i \in FindNextLiteral(txt, p, lit)
        /\ Len(txt) \in Nat /\ p \in Nat
    BY <1>3, <2>1, <2>2, <2>3
  <2>5. x = i
    BY <2>4, FoundOnce
  <2> QED BY <2>3, <2>5
<1>7. /\ \A k \in 1..n : f[k] < p
      /\ Filled(ws.sql, text, f, n)
  BY <1>1, <1>4 DEF PlaceInv
<1>8. \A k \in 1..n : f[k] \in Nat
  <2>1. /\ f \in [DOMAIN LiteralsOf(query) -> DOMAIN text] /\ DOMAIN text = 1..Len(text)
        /\ DOMAIN LiteralsOf(query) = 1..Len(LiteralsOf(query))
        /\ Len(LiteralsOf(query)) \in Nat
    BY <1>1, StatementTypes DEF Places
  <2>2. Len(ws.values) + Len(ws.lits) = Len(LiteralsOf(query)) /\ Len(ws.lits) \in Nat
    BY <1>1 DEF TypeOK
  <2>3. PICK a \in Nat, b \in Nat : a = Len(LiteralsOf(query)) /\ b = Len(ws.lits)
    BY <2>1, <2>2
  <2>4. n + b = a
    BY <1>4, <2>2, <2>3
  <2>5. 1..n \subseteq 1..a
    BY <2>4
  <2>6. \A k \in 1..a : f[k] \in 1..t
    BY <1>4, <2>1, <2>3
  <2> QED BY <2>5, <2>6
<1>9. \A k \in 1..(n + 1) : f[k] < i + 1
  <2> SUFFICES ASSUME NEW k \in 1..(n + 1) PROVE f[k] < i + 1
    OBVIOUS
  <2>1. CASE k \in 1..n
    <3>1. f[k] \in Nat /\ f[k] < p /\ p <= i
      BY <1>5, <1>7, <1>8, <2>1
    <3> QED BY <3>1
  <2>2. CASE k = n + 1
    BY <1>6, <2>2
  <2> QED BY <2>1, <2>2
<1>10. ASSUME NEW j \in 1..i
       PROVE  /\ \A k \in 1..(n + 1) :
                    f[k] = j => ws'.sql[j] = [kind |-> "param", val |-> k, at |-> text[j].at]
              /\ (\A k \in 1..(n + 1) : f[k] # j) => ws'.sql[j] = text[j]
  <2>1. CASE j \in 1..(p - 1)
    <3>1. j \in 1..Len(ws.sql) /\ ws'.sql[j] = ws.sql[j]
      BY <1>2, <1>4, <2>1
    <3>2. /\ \A k \in 1..n :
                f[k] = j => ws.sql[j] = [kind |-> "param", val |-> k, at |-> text[j].at]
          /\ (\A k \in 1..n : f[k] # j) => ws.sql[j] = text[j]
      BY <1>7, <3>1 DEF Filled
    <3>3. /\ \A k \in 1..(n + 1) : k \in 1..n \/ k = n + 1
          /\ \A k \in 1..n : k \in 1..(n + 1)
      OBVIOUS
    <3>4. f[n + 1] # j
      BY <1>5, <1>6, <2>1
    <3> QED BY <3>1, <3>2, <3>3, <3>4
  <2>2. CASE j \in p..(i - 1)
    <3>1. \A k \in 1..(n + 1) : f[k] # j
      <4> SUFFICES ASSUME NEW k \in 1..(n + 1) PROVE f[k] # j
        OBVIOUS
      <4>1. CASE k \in 1..n
        <5>1. f[k] \in Nat /\ f[k] < p
          BY <1>7, <1>8, <4>1
        <5> QED BY <2>2, <5>1
      <4>2. CASE k = n + 1
        BY <1>6, <2>2, <4>2
      <4> QED BY <4>1, <4>2
    <3>2. ws'.sql[j] = text[j]
      BY <1>2, <1>4, <2>2
    <3> QED BY <3>1, <3>2
  <2>3. CASE j = i
    <3>1. \A k \in 1..(n + 1) : f[k] = i => k = n + 1
      <4> SUFFICES ASSUME NEW k \in 1..n PROVE f[k] # i
        OBVIOUS
      <4>1. f[k] \in Nat /\ f[k] < p
        BY <1>7, <1>8
      <4> QED BY <1>5, <4>1
    <3>2. ws'.sql[i] = [kind |-> "param", val |-> n + 1, at |-> text[i].at]
      BY <1>2, <1>4
    <3>3. n + 1 \in 1..(n + 1)
      OBVIOUS
    <3> QED BY <1>6, <2>3, <3>1, <3>2, <3>3
  <2>4. j \in 1..(p - 1) \/ j \in p..(i - 1) \/ j = i
    BY <1>5
  <2> QED BY <2>1, <2>2, <2>3, <2>4
<1>11. Len(ws'.values) = n + 1 /\ Len(ws'.sql) = i /\ n + 1 # 0
  BY <1>2, <1>4
<1> QED BY <1>1, <1>6, <1>9, <1>10, <1>11 DEF Filled

LEMMA PlaceEnd ==
    ASSUME TypeOK, Used, PlaceInv, RewriteEnd, NEW f \in Places(query)
    PROVE  /\ Filled(result'.sql, TextOf(query), f, Len(LiteralsOf(query)))
           /\ \A k \in 1..Len(LiteralsOf(query)) :
                 result'.values[k] = LiteralsOf(query)[k].val
<1> DEFINE text == TextOf(query)
<1>1. /\ pc = "scan" /\ query \in Statements /\ IsDMLStatement(query)
      /\ Len(ws.sql) = pos - 1 /\ pos \in 1..(Len(text) + 1)
  BY DEF RewriteEnd, TypeOK
<1>2. /\ result'.values = ws.values /\ Len(result'.sql) = Len(text)
      /\ \A j \in 1..(pos - 1) : result'.sql[j] = ws.sql[j]
      /\ \A j \in pos..Len(text) : result'.sql[j] = text[j]
      /\ Len(ws.values) = Len(LiteralsOf(query))
  BY EndResult, Zenon
<1>3. PICK p \in Nat \ {0}, t \in Nat, n \in Nat :
         p = pos /\ t = Len(text) /\ n = Len(LiteralsOf(query))
  <2>1. Len(text) \in Nat /\ Len(LiteralsOf(query)) \in Nat
    BY <1>1, StatementTypes
  <2>2. pos \in Nat \ {0}
    BY <1>1, <2>1
  <2> QED BY <2>1, <2>2
<1>4. /\ \A k \in 1..n : f[k] < p
      /\ Filled(ws.sql, text, f, n)
  BY <1>1, <1>2, <1>3 DEF PlaceInv
<1>5. \A k \in 1..n : f[k] \in 1..t
  <2>1. /\ f \in [DOMAIN LiteralsOf(query) -> DOMAIN text] /\ DOMAIN text = 1..Len(text)
        /\ DOMAIN LiteralsOf(query) = 1..Len(LiteralsOf(query))
    BY <1>1, StatementTypes DEF Places
  <2> QED BY <1>3, <2>1
<1>6. ASSUME NEW j \in 1..t
      PROVE  /\ \A k \in 1..n : f[k] = j =>
                   result'.sql[j] = [kind |-> "param", val |-> k, at |-> text[j].at]
             /\ (\A k \in 1..n : f[k] # j) => result'.sql[j] = text[j]
  <2>1. CASE j \in 1..(p - 1)
    <3>1. j \in 1..Len(ws.sql) /\ result'.sql[j] = ws.sql[j]
      BY <1>1, <1>2, <1>3, <2>1
    <3> QED BY <1>4, <3>1 DEF Filled
  <2>2. CASE j \in p..t
    <3>1. \A k \in 1..n : f[k] # j
      <4> SUFFICES ASSUME NEW k \in 1..n PROVE f[k] # j
        OBVIOUS
      <4>1. f[k] \in 1..t /\ f[k] < p
        BY <1>4, <1>5
      <4> QED BY <2>2, <4>1
    <3>2. result'.sql[j] = text[j]
      BY <1>2, <1>3, <2>2
    <3> QED BY <3>1, <3>2
  <2>3. j \in 1..(p - 1) \/ j \in p..t
    OBVIOUS
  <2> QED BY <2>1, <2>2, <2>3
<1>7. Filled(result'.sql, text, f, n)
  BY <1>2, <1>3, <1>6 DEF Filled
<1>8. \A k \in 1..n : ws.values[k] = LiteralsOf(query)[k].val
  BY <1>1, <1>2, <1>3 DEF Used
<1> QED BY <1>2, <1>3, <1>7, <1>8

LEMMA PlaceStep ==
    ASSUME TypeOK, Used, Pending, PlaceInv, [Next]_vars
    PROVE  PlaceInv'
<1>1. ASSUME NEW s, Begins(s) PROVE PlaceInv'
  <2>1. ws' = [lits |-> LiteralsOf(s), sql |-> <<>>, values |-> <<>>]
    BY <1>1, BeginsWorkspace
  <2>2. result' = result /\ result = NoResult /\ pos' = 1
    BY <1>1 DEF Begins, Pending
  <2>3. Len(ws'.sql) = 0 /\ Len(ws'.values) = 0 /\ \A j \in 1..0 : FALSE
    BY <2>1
  <2>4. LiteralsReplaced'
    BY <2>2 DEF LiteralsReplaced, NoResult
  <2> QED BY <2>2, <2>3, <2>4 DEF PlaceInv, Filled
<1>2. ASSUME NEW s, Answered(s) PROVE PlaceInv'
  <2>1. pc' = "done" /\ query' = s /\ s \in Statements
    BY <1>2 DEF Answered
  <2>2. IsDMLStatement(s) => result'.verdict \notin {"prepared", "simple"}
    <3>1. CASE ~IsDMLStatement(s)
      BY <3>1
    <3>2. CASE result' = [verdict |-> "notify", sql |-> <<>>, values |-> <<>>]
      BY <3>2
    <3>3. CASE result' = [verdict |-> "asis", sql |-> TextOf(s), values |-> <<>>]
      BY <3>3
    <3> QED BY <1>2, <3>1, <3>2, <3>3, Zenon DEF Answered
  <2>3. LiteralsReplaced'
    BY <2>1, <2>2 DEF LiteralsReplaced
  <2> QED BY <2>1, <2>3 DEF PlaceInv
<1>3. CASE GivesUp
  <2>1. Places(query) = {}
    <3> SUFFICES ASSUME NEW f \in Places(query) PROVE FALSE
      OBVIOUS
    <3>1. f[Len(ws.values) + 1] \in FindNextLiteral(TextOf(query), pos, Head(ws.lits))
      BY <1>3, NextPlace DEF GivesUp
    <3> QED BY <1>3, <3>1 DEF GivesUp
  <2> QED BY <1>3, <2>1 DEF GivesUp, PlaceInv, LiteralsReplaced, Places
<1>4. ASSUME NEW i \in Nat, Replaces(i) PROVE PlaceInv'
  <2>1. query' = query /\ pc' = "scan" /\ result' = result /\ result = NoResult
    BY <1>4 DEF Replaces, Pending
  <2>2. ASSUME NEW f \in Places(query)
        PROVE  /\ pos' = f[Len(ws'.values)] + 1 /\ Len(ws'.values) # 0
               /\ \A k \in 1..Len(ws'.values) : f[k] < pos'
               /\ Filled(ws'.sql, TextOf(query), f, Len(ws'.values))
    BY <1>4, <2>2, PlaceReplaces
  <2>3. LiteralsReplaced'
    BY <2>1 DEF LiteralsReplaced, NoResult
  <2> QED BY <2>1, <2>2, <2>3 DEF PlaceInv, Places, Filled
<1>5. CASE RewriteEnd
  <2>1. query' = query /\ pc' = "done"
    BY <1>5 DEF RewriteEnd
  <2>2. /\ result'.verdict = "prepared" /\ Len(result'.sql) = Len(TextOf(query))
        /\ result'.values = ws.values /\ Len(ws.values) = Len(LiteralsOf(query))
    BY <1>5, EndResult, Zenon
  <2>3. ASSUME NEW f \in Places(query)
        PROVE  /\ Filled(result'.sql, TextOf(query), f, Len(LiteralsOf(query)))
               /\ \A k \in 1..Len(LiteralsOf(query)) :
                     result'.values[k] = LiteralsOf(query)[k].val
    BY <1>5, <2>3, PlaceEnd
  <2>4. LiteralsReplaced'
    BY <2>1, <2>2, <2>3 DEF LiteralsReplaced, Places, Filled
  <2> QED BY <2>1, <2>4 DEF PlaceInv
<1>6. CASE NextQuery
  BY <1>6 DEF NextQuery, Result, PlaceInv, LiteralsReplaced
<1>7. CASE UNCHANGED vars
  BY <1>7 DEF PlaceInv, LiteralsReplaced, vars
<1> QED BY <1>1, <1>2, <1>3, <1>4, <1>5, <1>6, <1>7, RewriteLiteralCases, ClassifyCases DEF Next

\* If collectLiterals has met the literals of a query in the order of its text, as its
\* comment says, and nothing in between looks like the next one, the scan
\* (findNextLiteral) finds each in its place: the query does not fall back to the
\* simple path, its canonical form is the text with $1, $2, ... in the places of the
\* literals and nowhere else, and the values are theirs.  For every statement.
THEOREM OrderedLiteralsReplaced == Spec => []LiteralsReplaced
<1>1. Init => PlaceInv
  BY DEF Init, PlaceInv, LiteralsReplaced
<1>2. TypeOK /\ Used /\ Pending /\ PlaceInv /\ [Next]_vars => Used' /\ Pending' /\ PlaceInv'
  BY UsedStep, PlaceStep
<1>3. PlaceInv => LiteralsReplaced
  BY DEF PlaceInv
<1> QED BY ParameterizeTypeCorrect, SameInit, <1>1, <1>2, <1>3, PTL DEF Spec
=============================================================================
