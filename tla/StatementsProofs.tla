-------------------------- MODULE StatementsProofs --------------------------
(***************************************************************************)
(* What each session has and what pgfox believes it has, for any number of *)
(* clients, connections, names and statements.                             *)
(***************************************************************************)
EXTENDS Statements, FiniteSetTheorems, TLAPS

\* A statement is described only in a pipeline that parses or binds it: only
\* for a Bind does executeExtendedPipeline deploy what the backend lacks.
DescribedInUse ==
    \A shape \in Shapes :
        Has(shape, "D") => Has(shape, "P") \/ Has(shape, "B")

\* A name is used for statements that can be shared or for ones that cannot,
\* not for both: a refused Parse leaves its name mapped.
OneKindPerName ==
    \A n \in Names : \A t1, t2 \in TextsFor[n] : HashOf[t1] = None => HashOf[t2] = None

\* Clients write parameters and not literals into statements that they name.
ParsedCanonical ==
    \A n \in Names : \A t \in TextsFor[n] :
        HashOf[t] # None => CanonicalSQL[HashOf[t]] = t

-----------------------------------------------------------------------------
(* The inductive invariant. *)

\* Messages as a pipeline has them, and what is left of them on the wire.
Formed(msgs) ==
    /\ Len(msgs) > 0
    /\ \A i \in 1..Len(msgs) :
          /\ msgs[i].type \in {"S", "H"} <=> i = Len(msgs)
          /\ msgs[i].type = "P" => i = 1
          /\ msgs[i].type = "C" => i = Len(msgs) - 1 /\ msgs[1].type # "P"

\* Parse, Bind and Describe name a statement; no Close names a shared one.
Aimed(msgs) ==
    \A i \in 1..Len(msgs) :
        /\ msgs[i].type \in {"P", "B", "D"} => msgs[i].target # None
        /\ msgs[i].type = "C" => msgs[i].target \notin Hashes

\* The pipeline of a handler at work; one that parses has a text.
Pipelined ==
    \A c \in Clients : pc[c] # "idle" =>
        /\ Formed(job[c].msgs) /\ Aimed(job[c].msgs)
        /\ job[c].msgs[1].type = "P" => job[c].text # None

\* A handler that injects, forwards or reads has a backend, the pinned one if
\* its client is pinned.
Holding ==
    \A c \in Clients :
        /\ pc[c] \in {"inject", "respond"} =>
              held[c] # None /\ pin[c] \in {held[c], None}
        /\ pc[c] \in {"idle", "acquire"} => held[c] = None

\* What the server still has to answer; sentParseHashes is in step with it.
InStep ==
    \A c \in Clients : pc[c] = "respond" =>
        /\ Formed(sent[c]) /\ Aimed(sent[c])
        /\ sent[c][1].type = "P" =>
              /\ sent[c][1] = job[c].msgs[1]
              /\ parses[c] = IF sent[c][1].target \in Hashes THEN <<sent[c][1].target>> ELSE <<>>

\* The part of the invariant that DeployedExact needs.
ExactInv == TypeOK /\ Pipelined /\ Holding /\ InStep /\ DeployedExact

\* No connection is held or pinned by two clients.
Apart ==
    \A c, d \in Clients : c # d =>
        ({held[c], pin[c]} \cap {held[d], pin[d]}) \subseteq {None}

\* Mapped names are names of shared statements.
Mapped(c) ==
    \A n \in Names :
        nameMap[c][n] # None => \E t \in TextsFor[n] : HashOf[t] = nameMap[c][n]

\* The passthrough statements a client knows to be prepared ...
Own(c) == {n \in Names : known[c][n] # None /\ nameMap[c][n] = None}

\* ... are in the session the client is pinned to.
OwnKept(c) == \A n \in Own(c) : pin[c] # None /\ stmts[pin[c]][n] = known[c][n]

\* The handler works on a pipeline with a Parse that passes through.
Adding(c) == pc[c] # "idle" /\ job[c].msgs[1].type = "P" /\ job[c].msgs[1].target \in Names

\* namedStmts counts them all, with the one about to be parsed.
Counted(c) == Own(c) \cup (IF Adding(c) THEN {job[c].name} ELSE {})
OwnCounted(c) == IsFiniteSet(Counted(c)) /\ Cardinality(Counted(c)) <= namedStmts[c]

\* A Parse goes out under the name that its acknowledgement is filed under; one
\* that passes through goes to the pinned backend.
Parsing(c) ==
    pc[c] # "idle" /\ job[c].msgs[1].type = "P" =>
        /\ job[c].name # None => job[c].msgs[1].target = Lookup(nameMap[c], job[c].name)
        /\ job[c].name = None => job[c].msgs[1].target \in Hashes
        /\ Adding(c) => job[c].pinned /\ (pc[c] # "acquire" => pin[c] = held[c])

\* The name in a Close is free already.
ClosesFree(c, msgs) ==
    \A i \in 1..Len(msgs) : msgs[i].type = "C" /\ msgs[i].target # None =>
        msgs[i].target = job[c].name /\ known[c][job[c].name] = None

Closing(c) ==
    /\ pc[c] \in {"acquire", "inject"} => ClosesFree(c, job[c].msgs)
    /\ pc[c] = "respond" => ClosesFree(c, sent[c])

\* A use of a statement that pgfox can be expected to find.
Due(m) == m.type \in {"B", "D"} /\ (m.target \in Names \/ DescribedInUse)

\* A statement x that a pipeline uses is parsed by it, or will be deployed before
\* it is forwarded, or is the client's own.
Provided(c, x) ==
    \/ job[c].msgs[1].type = "P" /\ job[c].msgs[1].target = x
    \/ x \in job[c].need
    \/ x \in Names /\ pin[c] # None /\ stmts[pin[c]][x] = job[c].text

Planned(c) ==
    pc[c] \in {"acquire", "inject"} => \A i \in 1..Len(job[c].msgs) :
        Due(job[c].msgs[i]) => job[c].text # None /\ Provided(c, job[c].msgs[i].target)

\* What is left on the wire finds its statements.
Ready(c, x) ==
    \/ sent[c][1].type = "P" /\ sent[c][1].target = x
    \/ stmts[held[c]][x] # None

Found(c) ==
    pc[c] = "respond" => \A i \in 1..Len(sent[c]) :
        Due(sent[c][i]) => Ready(c, sent[c][i].target)

ClientInv(c) ==
    /\ Mapped(c) /\ OwnKept(c) /\ OwnCounted(c) /\ Parsing(c)
    /\ Closing(c) /\ Planned(c) /\ Found(c)

FoundInv == ExactInv /\ Apart /\ \A c \in Clients : ClientInv(c)

\* A session has a shared statement in its canonical form ...
SharedCanonical ==
    \A b \in Backends, h \in Hashes : stmts[b][h] \in {None, CanonicalSQL[h]}

\* ... which is what a client that knows it has parsed ...
KnownCanonical(c) ==
    \A n \in Names : known[c][n] # None /\ nameMap[c][n] # None =>
        known[c][n] = CanonicalSQL[nameMap[c][n]]

\* ... and the text of a pipeline that parses or uses it.
PipelineText(c) ==
    pc[c] # "idle" => \A i \in 1..Len(job[c].msgs) :
        job[c].msgs[i].type \in {"P", "B", "D"} /\ job[c].msgs[i].target \in Hashes =>
            job[c].text = CanonicalSQL[job[c].msgs[i].target]

\* The statements used on the wire have that text.
WireText(c) ==
    pc[c] = "respond" => \A i \in 1..Len(sent[c]) : sent[c][i].type \in {"B", "D"} =>
        \/ sent[c][i].target \in Hashes /\ job[c].text = CanonicalSQL[sent[c][i].target]
        \/ sent[c][1].type = "P" /\ sent[c][1].target = sent[c][i].target
        \/ stmts[held[c]][sent[c][i].target] = job[c].text

ClientText(c) == KnownCanonical(c) /\ PipelineText(c) /\ WireText(c)

TextInv == FoundInv /\ SharedCanonical /\ \A c \in Clients : ClientText(c)

-----------------------------------------------------------------------------
(* Messages. *)

\* The facts about the constants that the proofs use, without the pipelines.
LEMMA Constant ==
    /\ None \notin Clients /\ None \notin Backends /\ None \notin Names
    /\ None \notin Texts /\ None \notin Hashes
    /\ Names \cap Hashes = {}
    /\ HashOf \in [Texts -> Hashes \cup {None}]
    /\ CanonicalSQL \in [Hashes -> Texts]
    /\ TextsFor \in [Names -> SUBSET Texts]
    /\ Queries \subseteq Texts
  BY StatementsAssumption

\* What is left after a message that does not end the pipeline.
LEMMA TailFormed ==
    ASSUME NEW msgs \in Seq(Messages), Formed(msgs), Aimed(msgs),
           msgs[1].type \notin {"S", "H"}
    PROVE  /\ Tail(msgs) \in Seq(Messages)
           /\ Formed(Tail(msgs)) /\ Aimed(Tail(msgs))
           /\ Tail(msgs)[1].type # "P"
           /\ Len(Tail(msgs)) = Len(msgs) - 1
           /\ \A i \in 1..Len(Tail(msgs)) : Tail(msgs)[i] = msgs[i + 1]
<1>1. Len(msgs) > 1 /\ 1 \in 1..Len(msgs) /\ Len(msgs) \in Nat
  BY DEF Formed
<1>2. /\ Tail(msgs) \in Seq(Messages)
      /\ Len(Tail(msgs)) = Len(msgs) - 1
      /\ \A i \in 1..Len(Tail(msgs)) : Tail(msgs)[i] = msgs[i + 1]
  BY <1>1
<1>3. \A i \in 1..Len(Tail(msgs)) : i + 1 \in 1..Len(msgs)
  BY <1>1, <1>2
<1>4. Aimed(Tail(msgs))
  BY <1>2, <1>3 DEF Aimed
<1>5. 1 \in 1..Len(Tail(msgs)) /\ Tail(msgs)[1].type # "P"
  <2>1. 1 \in 1..Len(Tail(msgs)) /\ 2 \in 1..Len(msgs)
    BY <1>1, <1>2
  <2>2. Tail(msgs)[1] = msgs[2]
    BY <1>2, <2>1
  <2> QED
    BY <2>1, <2>2 DEF Formed
<1>6. Formed(Tail(msgs))
  <2> Len(Tail(msgs)) > 0
    BY <1>1, <1>2
  <2>1. SUFFICES ASSUME NEW i \in 1..Len(Tail(msgs))
                 PROVE  /\ Tail(msgs)[i].type \in {"S", "H"} <=> i = Len(Tail(msgs))
                        /\ Tail(msgs)[i].type # "P"
                        /\ Tail(msgs)[i].type = "C" => i = Len(Tail(msgs)) - 1
    BY <1>5, Zenon DEF Formed
  <2>2. PICK j \in 1..Len(msgs) : j = i + 1
    BY <1>3
  <2>3. Tail(msgs)[i] = msgs[j] /\ Len(Tail(msgs)) = Len(msgs) - 1
    BY <1>2, <2>2
  <2>4. /\ msgs[j].type \in {"S", "H"} <=> j = Len(msgs)
        /\ msgs[j].type = "P" => j = 1
        /\ msgs[j].type = "C" => j = Len(msgs) - 1
    BY DEF Formed
  <2> QED
    BY <1>1, <2>2, <2>3, <2>4
<1> QED
  BY <1>2, <1>4, <1>5, <1>6

\* What is left after an error.
LEMMA EndFormed ==
    ASSUME NEW msgs \in Seq(Messages), Formed(msgs)
    PROVE  /\ <<Last(msgs)>> \in Seq(Messages)
           /\ Formed(<<Last(msgs)>>) /\ Aimed(<<Last(msgs)>>)
           /\ Last(msgs).type \in {"S", "H"}
<1>1. Len(msgs) \in 1..Len(msgs) /\ msgs[Len(msgs)] \in Messages
  BY DEF Formed
<1>2. Last(msgs).type \in {"S", "H"}
  BY <1>1 DEF Formed, Last
<1> QED
  BY <1>1, <1>2 DEF Formed, Aimed, Last

LEMMA ShapeFirst ==
    ASSUME NEW shape \in Shapes
    PROVE  WellFormed(shape) /\ DOMAIN shape = 1..Len(shape) /\ 1 \in 1..Len(shape)
<1>1. WellFormed(shape) /\ shape \in Seq({"P", "B", "D", "C", "S", "H"})
  BY StatementsAssumption DEF WellFormed
<1>2. Len(shape) > 0
  BY <1>1, Zenon DEF WellFormed
<1> QED
  BY <1>1, <1>2

\* The rewritten messages of a pipeline.
Rewritten(shape, n, t, map) ==
    [i \in DOMAIN shape |-> [type |-> shape[i], target |-> Rewrite(shape[i], n, t, map)]]

LEMMA RewrittenFormed ==
    ASSUME NEW shape \in Shapes, NEW n \in Names, NEW t \in Texts \cup {None},
           NEW map \in [Names -> Hashes \cup {None}],
           Has(shape, "P") => t \in Texts
    PROVE  /\ Rewritten(shape, n, t, map) \in Seq(Messages)
           /\ Len(Rewritten(shape, n, t, map)) = Len(shape)
           /\ \A i \in 1..Len(shape) :
                 /\ Rewritten(shape, n, t, map)[i].type = shape[i]
                 /\ Rewritten(shape, n, t, map)[i].target = Rewrite(shape[i], n, t, map)
           /\ Formed(Rewritten(shape, n, t, map))
           /\ Aimed(Rewritten(shape, n, t, map))
<1>1. WellFormed(shape) /\ DOMAIN shape = 1..Len(shape) /\ Len(shape) \in Nat
  BY StatementsAssumption DEF WellFormed
<1>2. \A i \in 1..Len(shape) : shape[i] \in {"P", "B", "D", "C", "S", "H"}
  <2>1. shape \in Seq({"P", "B", "D", "C", "S", "H"})
    BY <1>1 DEF WellFormed
  <2> QED
    BY <2>1
<1>3. ASSUME NEW i \in 1..Len(shape)
      PROVE  /\ Rewrite(shape[i], n, t, map) \in Targets \cup {None}
             /\ shape[i] \in {"P", "B", "D"} => Rewrite(shape[i], n, t, map) # None
             /\ shape[i] = "C" => Rewrite(shape[i], n, t, map) \notin Hashes
  <2>1. shape[i] = "P" => t \in Texts
    BY <1>1, <1>3 DEF Has
  <2>2. CASE shape[i] = "P"
    BY <2>1, <2>2, Constant DEF Rewrite, Targets
  <2>3. CASE shape[i] \in {"B", "D"}
    BY <2>3, Constant DEF Rewrite, Targets, Lookup
  <2>4. CASE shape[i] = "C"
    BY <2>4, Constant DEF Rewrite, Targets
  <2>5. CASE shape[i] \in {"S", "H"}
    BY <2>5, Constant DEF Rewrite, Targets
  <2> QED
    BY <1>2, <1>3, <2>2, <2>3, <2>4, <2>5
<1>4. ASSUME NEW i \in 1..Len(shape)
      PROVE  /\ Rewritten(shape, n, t, map)[i] \in Messages
             /\ Rewritten(shape, n, t, map)[i].type = shape[i]
             /\ Rewritten(shape, n, t, map)[i].target = Rewrite(shape[i], n, t, map)
  BY <1>1, <1>2, <1>3 DEF Rewritten, Messages
<1>5. /\ Rewritten(shape, n, t, map) \in Seq(Messages)
      /\ Len(Rewritten(shape, n, t, map)) = Len(shape)
  BY <1>1, <1>4 DEF Rewritten
<1>6. Formed(Rewritten(shape, n, t, map))
  <2>1. \A i \in 1..Len(shape) :
           /\ shape[i] \in {"S", "H"} <=> i = Len(shape)
           /\ shape[i] = "P" => i = 1
           /\ shape[i] = "C" => i = Len(shape) - 1 /\ shape[1] # "P"
    BY <1>1 DEF WellFormed
  <2>2. Len(shape) > 0 /\ 1 \in 1..Len(shape)
    <3>1. Len(shape) > 0
      BY <1>1, Zenon DEF WellFormed
    <3> QED
      BY <1>1, <3>1
  <2> DEFINE m == Rewritten(shape, n, t, map)
  <2>3. \A i \in 1..Len(m) :
           /\ m[i].type \in {"S", "H"} <=> i = Len(m)
           /\ m[i].type = "P" => i = 1
           /\ m[i].type = "C" => i = Len(m) - 1 /\ m[1].type # "P"
    <3> SUFFICES ASSUME NEW i \in 1..Len(shape)
                 PROVE  /\ m[i].type \in {"S", "H"} <=> i = Len(shape)
                        /\ m[i].type = "P" => i = 1
                        /\ m[i].type = "C" => i = Len(shape) - 1 /\ m[1].type # "P"
      BY <1>5
    <3>1. m[i].type = shape[i] /\ m[1].type = shape[1]
      BY <1>4, <2>2
    <3> HIDE DEF m
    <3> QED
      BY <2>1, <3>1
  <2>4. Len(m) > 0
    BY <1>5, <2>2
  <2> QED
    BY <2>3, <2>4, Zenon DEF Formed
<1>7. Aimed(Rewritten(shape, n, t, map))
  BY <1>3, <1>4, <1>5 DEF Aimed
<1> QED
  BY <1>4, <1>5, <1>6, <1>7

-----------------------------------------------------------------------------
(* The server's statements and deployedStmts. *)

LEMMA ExactInit == Init => ExactInv
<1> SUFFICES ASSUME Init PROVE ExactInv
  OBVIOUS
<1>1. NoJob \in Jobs
  BY DEF NoJob, Jobs
<1>2. TypeOK
  BY <1>1, Constant DEF Init, TypeOK, Targets
<1>3. Pipelined /\ Holding /\ InStep
  BY DEF Init, Pipelined, Holding, InStep
<1>4. DeployedExact
  BY Constant DEF Init, DeployedExact, Targets
<1> QED
  BY <1>2, <1>3, <1>4 DEF ExactInv

LEMMA ExactPipeline ==
    ASSUME ExactInv, NEW c \in Clients, NEW shape \in Shapes, NEW n \in Names,
           NEW t \in Texts \cup {None}, ExecuteExtendedPipeline(c, shape, n, t)
    PROVE  ExactInv'
<1> DEFINE parse == Has(shape, "P")
           h == IF parse THEN HashOf[t] ELSE None
           passthrough == parse /\ h = None
           map == IF h # None THEN MapStmtName(nameMap[c], n, h) ELSE nameMap[c]
           msgs == Rewritten(shape, n, t, map)
           pipeline == [name |-> n, text |-> t, msgs |-> msgs,
                        need |-> Missing(shape, n, t, map),
                        pinned |-> pin[c] # None \/ passthrough]
<1>1. parse => t \in Texts
  BY Constant DEF ExecuteExtendedPipeline, Sensible
<1>2. h \in Hashes \cup {None}
  BY <1>1, Constant
<1>3. map \in [Names -> Hashes \cup {None}]
  BY <1>2 DEF ExactInv, TypeOK, MapStmtName
<1>4. msgs \in Seq(Messages) /\ Formed(msgs) /\ Aimed(msgs)
  BY <1>1, <1>3, RewrittenFormed
<1>4a. msgs[1].type = "P" => t # None
  <2>1. WellFormed(shape) /\ DOMAIN shape = 1..Len(shape) /\ 1 \in 1..Len(shape)
    BY ShapeFirst
  <2>2. msgs[1].type = shape[1]
    BY <1>1, <1>3, <2>1, RewrittenFormed
  <2> QED
    BY <1>1, <2>1, <2>2, Constant DEF Has
<1>5. Missing(shape, n, t, map) \in SUBSET Hashes
  BY <1>3 DEF Missing
<1>6. /\ job' = [job EXCEPT ![c] = pipeline]
      /\ pc' = [pc EXCEPT ![c] = "acquire"]
      /\ pc[c] = "idle"
      /\ cache' = cache \cup ({h} \ {None})
      /\ nameMap' = [nameMap EXCEPT ![c] = IF Has(shape, "C") THEN [map EXCEPT ![n] = None] ELSE map]
      /\ known' = IF Has(shape, "C") THEN [known EXCEPT ![c][n] = None] ELSE known
      /\ UNCHANGED <<held, sent, parses, failed, pin, backendVars>>
  BY DEF ExecuteExtendedPipeline, GetOrRegister, Rewritten
<1>7. namedStmts' \in [Clients -> Nat]
  BY DEF ExecuteExtendedPipeline, ExactInv, TypeOK
<1> HIDE DEF msgs, map, h, passthrough, parse
<1>8. pipeline \in Jobs
  BY <1>4, <1>5 DEF Jobs
<1>9. pipeline.msgs = msgs /\ pipeline.text = t
  OBVIOUS
<1> HIDE DEF pipeline
<1>10. TypeOK'
  BY <1>2, <1>3, <1>6, <1>7, <1>8 DEF ExactInv, TypeOK, backendVars
<1>11. Pipelined'
  BY <1>4, <1>6, <1>9, <1>4a DEF ExactInv, TypeOK, Pipelined
<1>12. Holding' /\ InStep'
  BY <1>6 DEF ExactInv, TypeOK, Holding, InStep
<1>13. DeployedExact'
  BY <1>6 DEF ExactInv, DeployedExact, backendVars
<1> QED
  BY <1>10, <1>11, <1>12, <1>13 DEF ExactInv

\* The three messages of executeAsPrepared.
Prepared(h) == <<[type |-> "P", target |-> h], [type |-> "B", target |-> h],
                 [type |-> "S", target |-> None]>>

LEMMA PreparedFormed ==
    ASSUME NEW h \in Hashes
    PROVE  Prepared(h) \in Seq(Messages) /\ Formed(Prepared(h)) /\ Aimed(Prepared(h))
<1>1. Prepared(h) \in Seq(Messages) /\ Len(Prepared(h)) = 3
  BY DEF Prepared, Messages, Targets
<1>2. /\ Prepared(h)[1].type = "P" /\ Prepared(h)[1].target = h
      /\ Prepared(h)[2].type = "B" /\ Prepared(h)[2].target = h
      /\ Prepared(h)[3].type = "S" /\ Prepared(h)[3].target = None
  BY DEF Prepared
<1>3. 1..Len(Prepared(h)) = {1, 2, 3}
  BY <1>1
<1> QED
  BY <1>1, <1>2, <1>3, Constant DEF Formed, Aimed

LEMMA ExactPrepared ==
    ASSUME ExactInv, NEW c \in Clients, NEW t \in Queries, ExecuteAsPrepared(c, t)
    PROVE  ExactInv'
<1> DEFINE h == HashOf[t]
           pipeline == [name |-> None, text |-> CanonicalSQL[h], msgs |-> Prepared(h),
                        need |-> {}, pinned |-> FALSE]
<1>1. h \in Hashes
  BY Constant DEF ExecuteAsPrepared
<1>2. /\ job' = [job EXCEPT ![c] = pipeline]
      /\ pc' = [pc EXCEPT ![c] = "acquire"]
      /\ pc[c] = "idle"
      /\ cache' = cache \cup {h}
      /\ UNCHANGED <<held, sent, parses, failed, clientVars, backendVars>>
  BY DEF ExecuteAsPrepared, GetOrRegister, Prepared
<1>3. pipeline \in Jobs
  BY <1>1, PreparedFormed, Constant DEF Jobs
<1>4. pipeline.msgs = Prepared(h) /\ pipeline.text # None
  BY <1>1, Constant
<1> HIDE DEF pipeline, h
<1>5. TypeOK'
  BY <1>1, <1>2, <1>3 DEF ExactInv, TypeOK, backendVars, clientVars
<1>6. Pipelined'
  BY <1>1, <1>2, <1>4, PreparedFormed DEF ExactInv, TypeOK, Pipelined
<1>7. Holding' /\ InStep'
  BY <1>2 DEF ExactInv, TypeOK, Holding, InStep, clientVars
<1>8. DeployedExact'
  BY <1>2 DEF ExactInv, DeployedExact, backendVars
<1> QED
  BY <1>5, <1>6, <1>7, <1>8 DEF ExactInv

\* A handler that is done.
LEMMA DoneExact ==
    ASSUME ExactInv, NEW c \in Clients, Done(c),
           failed' \in [Clients -> BOOLEAN],
           pin' \in [Clients -> Backends \cup {None}],
           \A d \in Clients \ {c} : pin'[d] = pin[d],
           known' \in [Clients -> [Names -> Texts \cup {None}]],
           UNCHANGED <<nameMap, namedStmts, cache>>,
           deployed' \in [Backends -> SUBSET Hashes],
           stmts' \in [Backends -> [Targets -> Texts \cup {None}]],
           DeployedExact'
    PROVE  ExactInv'
<1>1. NoJob \in Jobs
  BY DEF NoJob, Jobs
<1>2. TypeOK'
  <2>1. <<>> \in Seq(Messages) /\ <<>> \in Seq(Hashes)
    OBVIOUS
  <2>2. /\ pc' \in [Clients -> {"idle", "acquire", "inject", "respond"}]
        /\ job' \in [Clients -> Jobs]
        /\ held' \in [Clients -> Backends \cup {None}]
    BY <1>1 DEF ExactInv, TypeOK, Done
  <2>3. sent' \in [Clients -> Seq(Messages)] /\ parses' \in [Clients -> Seq(Hashes)]
    BY <2>1 DEF ExactInv, TypeOK, Done
  <2> QED
    BY <2>2, <2>3 DEF ExactInv, TypeOK
<1>3. Pipelined' /\ InStep'
  BY DEF ExactInv, TypeOK, Done, Pipelined, InStep
<1>4. Holding'
  BY DEF ExactInv, TypeOK, Done, Holding
<1> QED
  BY <1>2, <1>3, <1>4 DEF ExactInv

LEMMA RenewExact ==
    ASSUME ExactInv, NEW b \in Backends, Renew(b)
    PROVE  /\ deployed' \in [Backends -> SUBSET Hashes]
           /\ stmts' \in [Backends -> [Targets -> Texts \cup {None}]]
           /\ DeployedExact'
<1>1. deployed' \in [Backends -> SUBSET Hashes] /\ stmts' \in [Backends -> [Targets -> Texts \cup {None}]]
  BY DEF ExactInv, TypeOK, Renew
<1>2. \A a \in Backends \ {b} : deployed'[a] = deployed[a] /\ stmts'[a] = stmts[a]
  BY DEF ExactInv, TypeOK, Renew
<1>3. deployed'[b] = {} /\ \A h \in Hashes : stmts'[b][h] = None
  BY DEF ExactInv, TypeOK, Renew, Targets
<1> QED
  BY <1>1, <1>2, <1>3 DEF ExactInv, DeployedExact

LEMMA ReleaseExact ==
    ASSUME ExactInv, NEW c \in Clients, held[c] \in Backends, ReleaseHeld(c)
    PROVE  ExactInv'
<1>1. /\ deployed' \in [Backends -> SUBSET Hashes]
      /\ stmts' \in [Backends -> [Targets -> Texts \cup {None}]]
      /\ DeployedExact'
  BY RenewExact DEF ReleaseHeld
<1>2. known' \in [Clients -> [Names -> Texts \cup {None}]]
  BY DEF ReleaseHeld, ExactInv, TypeOK
<1>3. /\ failed' \in [Clients -> BOOLEAN]
      /\ pin' \in [Clients -> Backends \cup {None}]
      /\ \A d \in Clients \ {c} : pin'[d] = pin[d]
  BY DEF ReleaseHeld, ExactInv, TypeOK
<1> QED
  BY <1>1, <1>2, <1>3, DoneExact DEF ReleaseHeld

LEMMA ExactAcquire ==
    ASSUME ExactInv, NEW c \in Clients, NEW b \in Backends, Acquire(c, b)
    PROVE  ExactInv'
<1>1. TypeOK'
  BY DEF ExactInv, TypeOK, Acquire, backendVars
<1>2. Pipelined'
  BY DEF ExactInv, TypeOK, Acquire, Pipelined
<1>3. Holding' /\ InStep'
  BY Constant DEF ExactInv, TypeOK, Acquire, Holding, InStep
<1>4. DeployedExact'
  BY DEF ExactInv, Acquire, DeployedExact, backendVars
<1> QED
  BY <1>1, <1>2, <1>3, <1>4 DEF ExactInv

LEMMA ExactAcquireFails ==
    ASSUME ExactInv, NEW c \in Clients, AcquireFails(c)
    PROVE  ExactInv'
<1>1. UNCHANGED <<failed, pin, nameMap, namedStmts, known, cache, deployed, stmts>> /\ Done(c)
  BY DEF AcquireFails, clientVars, backendVars
<1>2. DeployedExact'
  BY <1>1 DEF ExactInv, DeployedExact
<1> QED
  BY <1>1, <1>2, DoneExact DEF ExactInv, TypeOK

LEMMA ExactInject ==
    ASSUME ExactInv, NEW c \in Clients, NEW h \in Hashes, Inject(c, h)
    PROVE  ExactInv'
<1>1. held[c] \in Backends
  BY DEF ExactInv, Holding, Inject, TypeOK
<1>2. CanonicalSQL[h] \in Texts /\ CanonicalSQL[h] # None
  BY Constant
<1>3. UNCHANGED <<pc, job, held, sent, parses, failed, pin, nameMap, namedStmts, known, cache>>
  BY DEF Inject, handlerVars, clientVars
<1>4. deployed' \in [Backends -> SUBSET Hashes] /\ stmts' \in [Backends -> [Targets -> Texts \cup {None}]]
  BY <1>1, <1>2 DEF ExactInv, TypeOK, Inject, MarkStmt, Targets
<1>5. TypeOK'
  BY <1>3, <1>4 DEF ExactInv, TypeOK
<1>6. Pipelined' /\ Holding' /\ InStep'
  BY <1>3 DEF ExactInv, Pipelined, Holding, InStep
<1>7. DeployedExact'
  <2>1. \A a \in Backends \ {held[c]} : deployed'[a] = deployed[a] /\ stmts'[a] = stmts[a]
    BY <1>1 DEF ExactInv, TypeOK, Inject, MarkStmt
  <2>2. /\ deployed'[held[c]] = deployed[held[c]] \cup {h}
        /\ \A g \in Hashes \ {h} : stmts'[held[c]][g] = stmts[held[c]][g]
        /\ stmts'[held[c]][h] = CanonicalSQL[h]
    BY <1>1 DEF ExactInv, TypeOK, Inject, MarkStmt, Targets
  <2> QED
    BY <1>2, <2>1, <2>2 DEF ExactInv, DeployedExact
<1> QED
  BY <1>5, <1>6, <1>7 DEF ExactInv

LEMMA ExactInjectFails ==
    ASSUME ExactInv, NEW c \in Clients, NEW h \in Hashes, InjectFails(c, h)
    PROVE  ExactInv'
  BY ReleaseExact DEF ExactInv, TypeOK, Holding, InjectFails

LEMMA ExactForwardFails ==
    ASSUME ExactInv, NEW c \in Clients, ForwardFails(c)
    PROVE  ExactInv'
  BY ReleaseExact DEF ExactInv, TypeOK, Holding, ForwardFails

\* What Forward leaves on the wire.
LEMMA Forwarded ==
    ASSUME ExactInv, NEW c \in Clients, Forward(c)
    PROVE  /\ sent'[c] \in Seq(Messages) /\ Formed(sent'[c]) /\ Aimed(sent'[c])
           /\ parses'[c] \in Seq(Hashes)
           /\ \/ /\ sent'[c] = job[c].msgs
                 /\ known' = known
                 /\ job[c].msgs[1].type = "P" => job[c].msgs[1].target \notin deployed[held[c]]
              \/ /\ sent'[c] = Tail(job[c].msgs)
                 /\ Acknowledge(c)
                 /\ job[c].msgs[1].type = "P"
                 /\ job[c].msgs[1].target \in deployed[held[c]]
           /\ sent'[c][1].type = "P" =>
              /\ sent'[c][1] = job[c].msgs[1]
              /\ parses'[c] = IF sent'[c][1].target \in Hashes THEN <<sent'[c][1].target>> ELSE <<>>
<1>1. job[c].msgs \in Seq(Messages) /\ Formed(job[c].msgs) /\ Aimed(job[c].msgs)
  BY DEF ExactInv, TypeOK, Pipelined, Forward, Jobs
<1>2. Head(job[c].msgs) = job[c].msgs[1]
  BY <1>1 DEF Formed
<1>3. CASE Skipped(c, Head(job[c].msgs))
  <2>1. sent'[c] = Tail(job[c].msgs) /\ parses'[c] = <<>> /\ Acknowledge(c)
    BY <1>3 DEF Forward, ExactInv, TypeOK
  <2>2. job[c].msgs[1].type = "P" /\ job[c].msgs[1].target \in deployed[held[c]]
    BY <1>2, <1>3 DEF Skipped
  <2>3. /\ Tail(job[c].msgs) \in Seq(Messages)
        /\ Formed(Tail(job[c].msgs)) /\ Aimed(Tail(job[c].msgs))
        /\ Tail(job[c].msgs)[1].type # "P"
    BY <1>1, <2>2, TailFormed
  <2>4. parses'[c] \in Seq(Hashes)
    BY <2>1
  <2> QED
    BY <2>1, <2>2, <2>3, <2>4, Zenon
<1>4. CASE ~Skipped(c, Head(job[c].msgs))
  <2>1. /\ sent'[c] = job[c].msgs /\ known' = known
        /\ parses'[c] = IF job[c].msgs[1].type = "P" /\ job[c].msgs[1].target \in Hashes
                          THEN <<job[c].msgs[1].target>> ELSE <<>>
    BY <1>2, <1>4 DEF Forward, ExactInv, TypeOK
  <2>2. job[c].msgs[1].type = "P" => job[c].msgs[1].target \notin deployed[held[c]]
    BY <1>2, <1>4 DEF Skipped
  <2> QED
    BY <1>1, <2>1, <2>2
<1> QED
  BY <1>3, <1>4

\* An acknowledgement is filed with the client's statements.
LEMMA AcknowledgeType ==
    ASSUME TypeOK, NEW c \in Clients, Acknowledge(c)
    PROVE  known' \in [Clients -> [Names -> Texts \cup {None}]]
<1>1. job[c].name \in Names \cup {None} /\ job[c].text \in Texts \cup {None}
  BY DEF TypeOK, Jobs
<1> QED
  BY <1>1 DEF TypeOK, Acknowledge

LEMMA ExactForward ==
    ASSUME ExactInv, NEW c \in Clients, Forward(c)
    PROVE  ExactInv'
<1>1. known' \in [Clients -> [Names -> Texts \cup {None}]]
  BY AcknowledgeType, Forwarded DEF ExactInv, TypeOK
<1>2. /\ UNCHANGED <<job, held, failed, pin, nameMap, namedStmts, cache, deployed, stmts>>
      /\ pc' = [pc EXCEPT ![c] = "respond"] /\ pc[c] = "inject"
      /\ sent' = [sent EXCEPT ![c] = sent'[c]]
      /\ parses' = [parses EXCEPT ![c] = parses'[c]]
  BY DEF Forward, backendVars, ExactInv, TypeOK
<1>3. TypeOK'
  BY <1>1, <1>2, Forwarded DEF ExactInv, TypeOK
<1>4. Pipelined' /\ Holding'
  BY <1>2 DEF ExactInv, TypeOK, Pipelined, Holding
<1>5. InStep'
  BY <1>2, Forwarded DEF ExactInv, TypeOK, InStep
<1>6. DeployedExact'
  BY <1>2 DEF ExactInv, DeployedExact
<1> QED
  BY <1>3, <1>4, <1>5, <1>6 DEF ExactInv

\* A message that is answered.
LEMMA Answered ==
    ASSUME ExactInv, NEW c \in Clients, Running(c)
    PROVE  /\ Current(c) = sent[c][1]
           /\ sent[c] \in Seq(Messages) /\ Formed(sent[c]) /\ Aimed(sent[c])
           /\ sent[c][1] \in Messages
           /\ sent[c][1].type \notin {"S", "H"}
           /\ held[c] \in Backends
<1>1. sent[c] \in Seq(Messages) /\ Formed(sent[c]) /\ Aimed(sent[c])
  BY DEF ExactInv, TypeOK, InStep, Running
<1>2. Current(c) = sent[c][1] /\ 1 \in 1..Len(sent[c])
  BY <1>1 DEF Formed, Current
<1>3. sent[c][1] \in Messages
  BY <1>1, <1>2
<1> QED
  BY <1>1, <1>2, <1>3 DEF Running, ExactInv, TypeOK, Holding

\* The invariant after an answer, but for the statements.
LEMMA AnswerExact ==
    ASSUME ExactInv, NEW c \in Clients, Running(c),
           sent' = [sent EXCEPT ![c] = Tail(@)],
           UNCHANGED <<pc, job, held, failed, pin, nameMap, namedStmts, cache>>,
           parses' \in [Clients -> Seq(Hashes)],
           \A d \in Clients \ {c} : parses'[d] = parses[d],
           known' \in [Clients -> [Names -> Texts \cup {None}]],
           deployed' \in [Backends -> SUBSET Hashes],
           stmts' \in [Backends -> [Targets -> Texts \cup {None}]],
           DeployedExact'
    PROVE  ExactInv'
<1>1. /\ Tail(sent[c]) \in Seq(Messages)
      /\ Formed(Tail(sent[c])) /\ Aimed(Tail(sent[c]))
      /\ Tail(sent[c])[1].type # "P"
  BY Answered, TailFormed
<1>2. TypeOK'
  BY <1>1 DEF ExactInv, TypeOK
<1>3. Pipelined' /\ Holding'
  BY DEF ExactInv, Pipelined, Holding
<1>4. InStep'
  BY <1>1 DEF ExactInv, TypeOK, InStep
<1> QED
  BY <1>2, <1>3, <1>4 DEF ExactInv

\* ParseComplete marks the statement that the server has just prepared.
LEMMA ExactAnswerParse ==
    ASSUME ExactInv, NEW c \in Clients, AnswerParse(c)
    PROVE  ExactInv'
<1> DEFINE b == held[c]
           x == sent[c][1].target
<1>1. Running(c) /\ Current(c) = sent[c][1] /\ sent[c][1].type = "P" /\ b \in Backends
  BY Answered DEF AnswerParse
<1>2. x \in Targets
  BY <1>1, Answered DEF Messages, Aimed, Formed
<1>3. parses[c] = IF x \in Hashes THEN <<x>> ELSE <<>>
  BY <1>1 DEF ExactInv, InStep, Running
<1>4. job[c].text \in Texts \cup {None} /\ job[c].text # None
  BY <1>1 DEF ExactInv, TypeOK, Jobs, Pipelined, InStep, Running
<1>5. stmts' = [stmts EXCEPT ![b][x] = job[c].text]
  BY <1>1 DEF AnswerParse
<1>6. /\ UNCHANGED <<pc, job, held, failed, pin, nameMap, namedStmts, cache>>
      /\ sent' = [sent EXCEPT ![c] = Tail(@)]
      /\ known' \in [Clients -> [Names -> Texts \cup {None}]]
  BY AcknowledgeType DEF AnswerParse, ExactInv
<1>7. stmts' \in [Backends -> [Targets -> Texts \cup {None}]]
  BY <1>1, <1>2, <1>4, <1>5 DEF ExactInv, TypeOK
<1>8. /\ \A a \in Backends \ {b} : stmts'[a] = stmts[a]
      /\ stmts'[b][x] = job[c].text
      /\ \A g \in Targets \ {x} : stmts'[b][g] = stmts[b][g]
  BY <1>1, <1>2, <1>5 DEF ExactInv, TypeOK
<1>9. /\ parses' \in [Clients -> Seq(Hashes)]
      /\ \A d \in Clients \ {c} : parses'[d] = parses[d]
      /\ deployed' \in [Backends -> SUBSET Hashes]
      /\ DeployedExact'
  <2>1. CASE x \in Hashes
    <3>1. parses[c] = <<x>> /\ parses[c] # <<>> /\ Head(parses[c]) = x /\ Tail(parses[c]) = <<>>
      BY <1>3, <2>1
    <3>2. deployed' = [deployed EXCEPT ![b] = @ \cup {x}] /\ parses' = [parses EXCEPT ![c] = <<>>]
      BY <3>1 DEF AnswerParse, ParseComplete, MarkStmt
    <3>3. <<>> \in Seq(Hashes)
      OBVIOUS
    <3>4. parses' \in [Clients -> Seq(Hashes)] /\ \A d \in Clients \ {c} : parses'[d] = parses[d]
      BY <3>2, <3>3 DEF ExactInv, TypeOK
    <3>5. deployed' \in [Backends -> SUBSET Hashes]
      BY <2>1, <3>2 DEF ExactInv, TypeOK
    <3>6. deployed'[b] = deployed[b] \cup {x} /\ \A a \in Backends \ {b} : deployed'[a] = deployed[a]
      BY <1>1, <3>2 DEF ExactInv, TypeOK
    <3>7. \A g \in Hashes : stmts'[b][g] # None <=> g = x \/ stmts[b][g] # None
      BY <1>4, <1>8 DEF Targets
    <3>8. DeployedExact'
      BY <1>8, <2>1, <3>6, <3>7 DEF ExactInv, DeployedExact
    <3> QED
      BY <3>4, <3>5, <3>8
  <2>2. CASE x \notin Hashes
    <3>1. UNCHANGED <<parses, deployed>>
      BY <1>3, <2>2 DEF AnswerParse, ParseComplete
    <3>2. \A a \in Backends, g \in Hashes : stmts'[a][g] = stmts[a][g]
      BY <1>8, <2>2 DEF Targets
    <3>3. DeployedExact'
      BY <3>1, <3>2 DEF ExactInv, DeployedExact
    <3> QED
      BY <3>1, <3>3 DEF ExactInv, TypeOK
  <2> QED
    BY <2>1, <2>2
<1> QED
  BY <1>1, <1>6, <1>7, <1>9, AnswerExact

LEMMA ExactAnswerUse ==
    ASSUME ExactInv, NEW c \in Clients, AnswerUse(c)
    PROVE  ExactInv'
<1>1. /\ Running(c) /\ sent' = [sent EXCEPT ![c] = Tail(@)]
      /\ UNCHANGED <<pc, job, held, parses, failed, pin, nameMap, namedStmts, known, cache, deployed, stmts>>
  BY DEF AnswerUse, clientVars, backendVars
<1>2. DeployedExact'
  BY <1>1 DEF ExactInv, DeployedExact
<1> QED
  BY <1>1, <1>2, AnswerExact DEF ExactInv, TypeOK

\* A Close that reaches the server is about no shared statement.
LEMMA ExactAnswerClose ==
    ASSUME ExactInv, NEW c \in Clients, AnswerClose(c)
    PROVE  ExactInv'
<1> DEFINE b == held[c]
           x == sent[c][1].target
<1>1. Running(c) /\ Current(c) = sent[c][1] /\ sent[c][1].type = "C" /\ b \in Backends
  BY Answered DEF AnswerClose
<1>2. x \in Names \cup {None}
  BY <1>1, Answered DEF Messages, Aimed, Formed, Targets
<1>3. /\ sent' = [sent EXCEPT ![c] = Tail(@)]
      /\ UNCHANGED <<pc, job, held, parses, failed, pin, nameMap, namedStmts, known, cache, deployed>>
      /\ stmts' = IF x = None THEN stmts ELSE [stmts EXCEPT ![b][x] = None]
  BY <1>1 DEF AnswerClose, clientVars
<1>4. stmts' \in [Backends -> [Targets -> Texts \cup {None}]]
  BY <1>1, <1>2, <1>3 DEF ExactInv, TypeOK, Targets
<1>5. \A a \in Backends, g \in Hashes : stmts'[a][g] = stmts[a][g]
  BY <1>1, <1>2, <1>3, Constant DEF ExactInv, TypeOK, Targets
<1>6. DeployedExact'
  BY <1>3, <1>5 DEF ExactInv, DeployedExact
<1> QED
  BY <1>1, <1>3, <1>4, <1>6, AnswerExact DEF ExactInv, TypeOK

LEMMA ExactAnswerError ==
    ASSUME ExactInv, NEW c \in Clients, AnswerError(c)
    PROVE  ExactInv'
<1>1. /\ <<Last(sent[c])>> \in Seq(Messages)
      /\ Formed(<<Last(sent[c])>>) /\ Aimed(<<Last(sent[c])>>)
      /\ <<Last(sent[c])>>[1].type # "P"
  BY Answered, EndFormed DEF AnswerError
<1>2. /\ failed' = [failed EXCEPT ![c] = TRUE]
      /\ sent' = [sent EXCEPT ![c] = <<Last(sent[c])>>]
      /\ UNCHANGED <<pc, job, held, parses, pin, nameMap, namedStmts, known, cache, deployed, stmts>>
  BY DEF AnswerError, clientVars, backendVars
<1>3. TypeOK'
  BY <1>1, <1>2 DEF ExactInv, TypeOK
<1>4. Pipelined' /\ Holding'
  BY <1>2 DEF ExactInv, Pipelined, Holding
<1>5. InStep'
  BY <1>1, <1>2 DEF ExactInv, TypeOK, InStep
<1>6. DeployedExact'
  BY <1>2 DEF ExactInv, DeployedExact
<1> QED
  BY <1>3, <1>4, <1>5, <1>6 DEF ExactInv

LEMMA ExactFinish ==
    ASSUME ExactInv, NEW c \in Clients, FinishSync(c) \/ FinishFlush(c)
    PROVE  ExactInv'
<1>1. held[c] \in Backends \cup {None}
  BY DEF ExactInv, TypeOK
<1>2. /\ Done(c) /\ failed' \in [Clients -> BOOLEAN]
      /\ UNCHANGED <<nameMap, namedStmts, known, cache, deployed, stmts>>
  BY DEF FinishSync, FinishFlush, backendVars, ExactInv, TypeOK
<1>3. \E v \in Backends \cup {None} : pin' = [pin EXCEPT ![c] = v]
  BY <1>1 DEF FinishSync, FinishFlush, Reconcile
<1>4. /\ pin' \in [Clients -> Backends \cup {None}]
      /\ \A d \in Clients \ {c} : pin'[d] = pin[d]
  BY <1>3 DEF ExactInv, TypeOK
<1>5. DeployedExact'
  BY <1>2 DEF ExactInv, DeployedExact
<1> QED
  BY <1>2, <1>4, <1>5, DoneExact DEF ExactInv, TypeOK

LEMMA ExactDisconnect ==
    ASSUME ExactInv, NEW c \in Clients, Disconnect(c)
    PROVE  ExactInv'
<1>1. /\ deployed' \in [Backends -> SUBSET Hashes]
      /\ stmts' \in [Backends -> [Targets -> Texts \cup {None}]]
      /\ DeployedExact'
  <2>1. CASE pin[c] # None
    BY <2>1, RenewExact DEF Disconnect, ExactInv, TypeOK
  <2>2. CASE pin[c] = None
    BY <2>2 DEF Disconnect, ExactInv, TypeOK, backendVars, DeployedExact
  <2> QED
    BY <2>1, <2>2
<1>2. UNCHANGED <<pc, job, held, sent, parses, cache>>
  BY DEF Disconnect
<1>3. TypeOK'
  BY <1>1, <1>2 DEF ExactInv, TypeOK, Disconnect
<1>4. Pipelined' /\ InStep'
  BY <1>2 DEF ExactInv, Pipelined, InStep
<1>5. Holding'
  BY <1>2 DEF ExactInv, TypeOK, Holding, Disconnect
<1> QED
  BY <1>1, <1>3, <1>4, <1>5 DEF ExactInv

LEMMA ExactReap ==
    ASSUME ExactInv, NEW b \in Backends, Reap(b)
    PROVE  ExactInv'
<1>1. /\ deployed' \in [Backends -> SUBSET Hashes]
      /\ stmts' \in [Backends -> [Targets -> Texts \cup {None}]]
      /\ DeployedExact'
  BY RenewExact DEF Reap
<1>2. UNCHANGED <<pc, job, held, sent, parses, failed, pin, nameMap, namedStmts, known, cache>>
  BY DEF Reap, handlerVars, clientVars
<1> QED
  BY <1>1, <1>2 DEF ExactInv, TypeOK, Pipelined, Holding, InStep

LEMMA ExactNext == ExactInv /\ [Next]_vars => ExactInv'
<1> SUFFICES ASSUME ExactInv, [Next]_vars PROVE ExactInv'
  OBVIOUS
<1>1. CASE UNCHANGED vars
  BY <1>1 DEF vars, handlerVars, clientVars, backendVars, ExactInv, TypeOK, Pipelined,
              Holding, InStep, DeployedExact
<1>2. ASSUME NEW b \in Backends, Reap(b) PROVE ExactInv'
  BY <1>2, ExactReap
<1>3. ASSUME NEW c \in Clients, NEW shape \in Shapes, NEW n \in Names, NEW t \in Texts \cup {None},
             ExecuteExtendedPipeline(c, shape, n, t)
      PROVE  ExactInv'
  BY <1>3, ExactPipeline
<1>4. ASSUME NEW c \in Clients, NEW t \in Queries, ExecuteAsPrepared(c, t) PROVE ExactInv'
  BY <1>4, ExactPrepared
<1>5. ASSUME NEW c \in Clients, HandlerStep(c) PROVE ExactInv'
  BY <1>5, ExactAcquire, ExactAcquireFails, ExactInject, ExactInjectFails, ExactForward,
     ExactForwardFails, ExactAnswerParse, ExactAnswerUse, ExactAnswerClose, ExactAnswerError,
     ExactFinish DEF HandlerStep
<1>6. ASSUME NEW c \in Clients, Disconnect(c) PROVE ExactInv'
  BY <1>6, ExactDisconnect
<1> QED
  BY <1>1, <1>2, <1>3, <1>4, <1>5, <1>6 DEF Next

\* Every variable keeps its type; a handler that injects, forwards or reads has a
\* backend, and what it reads ends with a Sync or a Flush, whatever is refused or
\* breaks on the way.
THEOREM StatementsTypeCorrect == Spec => []TypeOK
  BY ExactInit, ExactNext, PTL DEF Spec, ExactInv

\* deployedStmts of a backend is what its session has of the shared statements:
\* pgfox never skips the Parse of a statement that is not there and never parses
\* one that is, however pipelines fail, connections break and sessions end.
THEOREM DeployedIsExact == Spec => []DeployedExact
  BY ExactInit, ExactNext, PTL DEF Spec, ExactInv

-----------------------------------------------------------------------------
(* Statements are found. *)

\* A step of somebody else.
Untouched(d) ==
    /\ pc'[d] = pc[d] /\ job'[d] = job[d] /\ held'[d] = held[d] /\ sent'[d] = sent[d]
    /\ pin'[d] = pin[d] /\ nameMap'[d] = nameMap[d]
    /\ namedStmts'[d] = namedStmts[d] /\ known'[d] = known[d]
    /\ \A b \in {held[d], pin[d]} \ {None} : stmts'[b] = stmts[b]

LEMMA UntouchedClient ==
    ASSUME ExactInv, NEW d \in Clients, Untouched(d), ClientInv(d)
    PROVE  ClientInv(d)'
<1>1. Mapped(d)'
  BY DEF ClientInv, Untouched, Mapped
<1>2. Own(d)' = Own(d) /\ Adding(d)' = Adding(d)
  BY DEF Own, Adding, Untouched
<1>3. OwnKept(d)'
  <2> SUFFICES ASSUME NEW n \in Own(d)
               PROVE  pin'[d] # None /\ stmts'[pin'[d]][n] = known'[d][n]
    BY <1>2, Zenon DEF OwnKept
  <2>1. pin[d] # None /\ stmts[pin[d]][n] = known[d][n]
    BY DEF ClientInv, OwnKept
  <2> QED
    BY <2>1 DEF Untouched
<1>4. OwnCounted(d)'
  <2>1. Counted(d)' = Counted(d)
    BY <1>2 DEF Counted, Untouched
  <2> QED
    BY <2>1 DEF ClientInv, OwnCounted, Untouched
<1>5. Parsing(d)'
  <2>1. pc'[d] = pc[d] /\ job'[d] = job[d] /\ held'[d] = held[d] /\ pin'[d] = pin[d] /\ nameMap'[d] = nameMap[d]
    BY DEF Untouched
  <2> QED
    BY <1>2, <2>1, Zenon DEF ClientInv, Parsing, Lookup
<1>6. Closing(d)'
  <2>1. pc'[d] = pc[d] /\ job'[d] = job[d] /\ sent'[d] = sent[d] /\ known'[d] = known[d]
    BY DEF Untouched
  <2> QED
    BY <2>1 DEF ClientInv, Closing, ClosesFree
<1>7. Planned(d)'
  <2> SUFFICES ASSUME pc[d] \in {"acquire", "inject"}, NEW i \in 1..Len(job[d].msgs),
                      Due(job[d].msgs[i])
               PROVE  job[d].text # None /\ Provided(d, job[d].msgs[i].target)'
    BY DEF Planned, Untouched, Due
  <2>1. job[d].text # None /\ Provided(d, job[d].msgs[i].target)
    BY DEF ClientInv, Planned
  <2> QED
    BY <2>1 DEF Provided, Untouched
<1>8. Found(d)'
  <2> SUFFICES ASSUME pc[d] = "respond", NEW i \in 1..Len(sent[d]), Due(sent[d][i])
               PROVE  Ready(d, sent[d][i].target)'
    BY DEF Found, Untouched, Due
  <2>1. Ready(d, sent[d][i].target) /\ held[d] # None
    BY DEF ClientInv, Found, ExactInv, Holding
  <2> QED
    BY <2>1 DEF Ready, Untouched
<1> QED
  BY <1>1, <1>3, <1>4, <1>5, <1>6, <1>7, <1>8 DEF ClientInv

\* What a handler does with its own backends is nothing to the others.
LEMMA Others ==
    ASSUME FoundInv, NEW c \in Clients,
           \A d \in Clients \ {c} :
              /\ pc'[d] = pc[d] /\ job'[d] = job[d] /\ held'[d] = held[d] /\ sent'[d] = sent[d]
              /\ pin'[d] = pin[d] /\ nameMap'[d] = nameMap[d]
              /\ namedStmts'[d] = namedStmts[d] /\ known'[d] = known[d],
           \A b \in Backends \ {held[c], pin[c]} : stmts'[b] = stmts[b]
    PROVE  \A d \in Clients \ {c} : ClientInv(d)'
<1> SUFFICES ASSUME NEW d \in Clients \ {c} PROVE ClientInv(d)'
  OBVIOUS
<1>1. \A b \in {held[d], pin[d]} \ {None} : b \in Backends \ {held[c], pin[c]}
  <2>1. held[d] \in Backends \cup {None} /\ pin[d] \in Backends \cup {None}
    BY DEF FoundInv, ExactInv, TypeOK
  <2>2. ({held[c], pin[c]} \cap {held[d], pin[d]}) \subseteq {None}
    BY DEF FoundInv, Apart
  <2> QED
    BY <2>1, <2>2
<1>2. Untouched(d)
  BY <1>1 DEF Untouched
<1> QED
  BY <1>2, UntouchedClient DEF FoundInv

\* The connections stay apart when nobody gets one that he did not have.
LEMMA StayApart ==
    ASSUME FoundInv, NEW c \in Clients,
           held' \in [Clients -> Backends \cup {None}], pin' \in [Clients -> Backends \cup {None}],
           \A d \in Clients \ {c} : held'[d] = held[d] /\ pin'[d] = pin[d],
           {held'[c], pin'[c]} \subseteq {held[c], pin[c], None}
    PROVE  Apart'
  BY DEF FoundInv, Apart

\* A count that still covers what it counts.
LEMMA CountCovers ==
    ASSUME NEW c \in Clients, OwnCounted(c), Counted(c)' \subseteq Counted(c),
           namedStmts'[c] = namedStmts[c], TypeOK
    PROVE  OwnCounted(c)'
<1>1. IsFiniteSet(Counted(c)') /\ Cardinality(Counted(c)') <= Cardinality(Counted(c))
  BY FS_Subset DEF OwnCounted
<1>2. Cardinality(Counted(c)) \in Nat /\ Cardinality(Counted(c)') \in Nat /\ namedStmts[c] \in Nat
  BY <1>1, FS_CardinalityType DEF OwnCounted, TypeOK
<1> QED
  BY <1>1, <1>2 DEF OwnCounted

LEMMA FoundInit == Init => FoundInv
<1> SUFFICES ASSUME Init PROVE FoundInv
  OBVIOUS
<1>1. ExactInv
  BY ExactInit
<1>2. Apart
  BY DEF Init, Apart
<1>3. ASSUME NEW c \in Clients PROVE ClientInv(c)
  <2>1. Own(c) = {} /\ ~Adding(c) /\ pc[c] = "idle" /\ namedStmts[c] = 0
    BY DEF Init, Own, Adding
  <2>2. Counted(c) = {}
    BY <2>1 DEF Counted
  <2>3. OwnCounted(c)
    BY <2>1, <2>2, FS_EmptySet DEF OwnCounted
  <2>4. Mapped(c)
    BY DEF Init, Mapped
  <2> QED
    BY <2>1, <2>3, <2>4 DEF ClientInv, OwnKept, Parsing, Closing, Planned, Found
<1> QED
  BY <1>1, <1>2, <1>3 DEF FoundInv

\* Phase 1 plans for every statement that its pipeline uses.
LEMMA FoundPipeline ==
    ASSUME OneKindPerName, FoundInv, NEW c \in Clients, NEW shape \in Shapes,
           NEW n \in Names, NEW t \in Texts \cup {None}, ExecuteExtendedPipeline(c, shape, n, t)
    PROVE  FoundInv'
<1> DEFINE parse == Has(shape, "P")
           h == IF parse THEN HashOf[t] ELSE None
           passthrough == parse /\ h = None
           map == IF h # None THEN MapStmtName(nameMap[c], n, h) ELSE nameMap[c]
           msgs == Rewritten(shape, n, t, map)
<1>1. /\ parse => t \in Texts /\ t \in TextsFor[n] /\ known[c][n] = None
      /\ ~parse => t = known[c][n]
      /\ shape # <<"S">> => t # None
  BY Constant DEF ExecuteExtendedPipeline, Sensible
<1>2. h \in Hashes \cup {None}
  BY <1>1, Constant
<1>3. map \in [Names -> Hashes \cup {None}]
  BY <1>2 DEF FoundInv, ExactInv, TypeOK, MapStmtName
<1>4. /\ Len(msgs) = Len(shape) /\ Formed(msgs) /\ 1 \in 1..Len(shape)
      /\ DOMAIN shape = 1..Len(shape)
      /\ \A i \in 1..Len(shape) :
            msgs[i].type = shape[i] /\ msgs[i].target = Rewrite(shape[i], n, t, map)
  BY <1>1, <1>3, RewrittenFormed, ShapeFirst
<1>5. /\ job'[c].name = n /\ job'[c].text = t /\ job'[c].msgs = msgs
      /\ job'[c].need = Missing(shape, n, t, map)
      /\ job'[c].pinned = (pin[c] # None \/ passthrough)
      /\ pc'[c] = "acquire" /\ pc[c] = "idle"
      /\ nameMap'[c] = IF Has(shape, "C") THEN [map EXCEPT ![n] = None] ELSE map
      /\ known'[c] = IF Has(shape, "C") THEN [known[c] EXCEPT ![n] = None] ELSE known[c]
      /\ namedStmts'[c] = IF passthrough THEN namedStmts[c] + 1
                          ELSE IF Has(shape, "C") /\ map[n] = None /\ namedStmts[c] > 0
                               THEN namedStmts[c] - 1 ELSE namedStmts[c]
      /\ UNCHANGED <<held, sent, pin, stmts>>
  BY DEF ExecuteExtendedPipeline, Rewritten, FoundInv, ExactInv, TypeOK, backendVars
<1>6. \A d \in Clients \ {c} :
         /\ pc'[d] = pc[d] /\ job'[d] = job[d] /\ nameMap'[d] = nameMap[d]
         /\ namedStmts'[d] = namedStmts[d] /\ known'[d] = known[d]
  BY DEF ExecuteExtendedPipeline, FoundInv, ExactInv, TypeOK
<1>7. /\ \A m \in Names \ {n} : map[m] = nameMap[c][m]
      /\ h # None => map[n] = h
      /\ h = None => map = nameMap[c]
  BY DEF MapStmtName, FoundInv, ExactInv, TypeOK
<1>8. h # None => parse /\ h = HashOf[t]
  OBVIOUS
<1>9. h = None /\ parse => HashOf[t] = None /\ passthrough
  OBVIOUS
<1>10. passthrough => parse /\ h = None
  OBVIOUS
<1> HIDE DEF msgs, map, h, passthrough, parse
<1>11. ClientInv(c) /\ known[c] \in [Names -> Texts \cup {None}] /\ nameMap[c] \in [Names -> Hashes \cup {None}]
       /\ namedStmts[c] \in Nat
  BY DEF FoundInv, ExactInv, TypeOK
<1>12. \A m \in Names : map[m] # None => \E text \in TextsFor[m] : HashOf[text] = map[m]
  BY <1>1, <1>7, <1>8, <1>11 DEF ClientInv, Mapped
<1>13. parse /\ h = None => map[n] = None
  BY <1>1, <1>9, <1>12 DEF OneKindPerName
<1>14. shape[1] = "P" <=> parse
  <2>1. WellFormed(shape)
    BY ShapeFirst
  <2> QED
    BY <1>4, <2>1 DEF parse, Has, WellFormed
<1>15. Has(shape, "C") => ~parse /\ t # None
  <2>1. WellFormed(shape)
    BY ShapeFirst
  <2>2. Has(shape, "C") => shape[1] # "P"
    BY <1>4, <2>1 DEF Has, WellFormed
  <2>3. Has(shape, "C") => shape # <<"S">>
    BY <1>4 DEF Has
  <2> QED
    BY <1>1, <1>14, <2>2, <2>3
<1>16. Own(c)' = IF Has(shape, "C") THEN Own(c) \ {n} ELSE Own(c)
  BY <1>1, <1>3, <1>5, <1>7, <1>8, <1>11, <1>15 DEF Own
<1>17. msgs[1].type = "P" <=> parse
  BY <1>4, <1>14
<1>18. parse => msgs[1].target = Lookup(map, n)
  BY <1>3, <1>4, <1>7, <1>8, <1>9, <1>13, <1>14, Constant DEF Rewrite, Lookup
<1>19. parse => (msgs[1].target \in Names <=> passthrough)
  BY <1>2, <1>7, <1>8, <1>10, <1>13, <1>18, Constant DEF Lookup, passthrough
<1>20. Adding(c)' <=> passthrough
  BY <1>5, <1>10, <1>17, <1>19 DEF Adding
<1>21. Mapped(c)'
  BY <1>3, <1>5, <1>12 DEF Mapped
<1>22. OwnKept(c)'
  BY <1>5, <1>11, <1>16 DEF ClientInv, OwnKept, Own
<1>23. OwnCounted(c)'
  <2>1. Counted(c) = Own(c) /\ IsFiniteSet(Own(c)) /\ Cardinality(Own(c)) <= namedStmts[c]
    BY <1>5, <1>11 DEF Counted, Adding, ClientInv, OwnCounted
  <2>2. Cardinality(Own(c)) \in Nat
    BY <2>1, FS_CardinalityType
  <2>3. CASE passthrough
    <3>1. Counted(c)' = Own(c) \cup {n}
      BY <1>5, <1>10, <1>15, <1>16, <1>20, <2>3 DEF Counted
    <3>2. n \notin Own(c)
      BY <1>1, <1>10, <2>3 DEF Own
    <3>3. IsFiniteSet(Own(c) \cup {n}) /\ Cardinality(Own(c) \cup {n}) = Cardinality(Own(c)) + 1
      BY <2>1, <3>2, FS_AddElement
    <3> QED
      BY <1>5, <1>11, <2>1, <2>2, <2>3, <3>1, <3>3 DEF OwnCounted
  <2>4. CASE ~passthrough /\ Has(shape, "C") /\ map[n] = None /\ namedStmts[c] > 0
    <3>1. Counted(c)' = Own(c) \ {n}
      BY <1>16, <1>20, <2>4 DEF Counted
    <3>2. n \in Own(c)
      BY <1>1, <1>7, <1>8, <1>15, <2>4 DEF Own
    <3>3. IsFiniteSet(Own(c) \ {n}) /\ Cardinality(Own(c) \ {n}) = Cardinality(Own(c)) - 1
      BY <2>1, <3>2, FS_RemoveElement
    <3> QED
      BY <1>5, <1>11, <2>1, <2>2, <2>4, <3>1, <3>3 DEF OwnCounted
  <2>5. CASE ~passthrough /\ ~(Has(shape, "C") /\ map[n] = None /\ namedStmts[c] > 0)
    <3>1. Counted(c)' \subseteq Counted(c)
      BY <1>16, <1>20, <2>1, <2>5 DEF Counted
    <3> QED
      BY <1>5, <1>11, <2>5, <3>1, CountCovers DEF ClientInv, FoundInv, ExactInv
  <2> QED
    BY <2>3, <2>4, <2>5
<1>24. Parsing(c)'
  <2>1. parse => nameMap'[c] = map
    BY <1>5, <1>15
  <2> QED
    BY <1>5, <1>17, <1>18, <1>20, <2>1, Constant DEF Parsing
<1>25. Closing(c)'
  <2>1. ASSUME NEW i \in 1..Len(shape), shape[i] = "C", msgs[i].target # None
        PROVE  msgs[i].target = n /\ known'[c][n] = None
    <3>1. msgs[i].target = n
      BY <1>4, <2>1 DEF Rewrite
    <3>2. Has(shape, "C")
      BY <1>4, <2>1 DEF Has
    <3> QED
      BY <1>5, <1>11, <3>1, <3>2
  <2> QED
    BY <1>4, <1>5, <2>1 DEF Closing, ClosesFree
<1>26. Planned(c)'
  <2> SUFFICES ASSUME NEW i \in 1..Len(shape), Due(msgs[i]),
                      NEW x, x = msgs[i].target
               PROVE  t # None /\ Provided(c, x)'
    BY <1>4, <1>5 DEF Planned, Due, Provided
  <2>1. shape[i] \in {"B", "D"} /\ x = Lookup(map, n)
    BY <1>4 DEF Due, Rewrite
  <2>2. t # None
    BY <1>1, <2>1
  <2>3. CASE parse
    BY <1>5, <1>17, <1>18, <2>1, <2>2, <2>3 DEF Provided
  <2>4. CASE ~parse /\ map[n] = None
    <3>1. n \in Own(c) /\ known[c][n] = t
      BY <1>1, <1>7, <1>8, <2>2, <2>4 DEF Own
    <3>2. pin[c] # None /\ stmts[pin[c]][n] = t
      BY <1>11, <3>1 DEF ClientInv, OwnKept
    <3>3. x = n
      BY <2>1, <2>4 DEF Lookup
    <3> QED
      BY <1>5, <2>2, <3>2, <3>3 DEF Provided
  <2>5. CASE ~parse /\ map[n] # None
    <3>1. x = map[n] /\ map[n] \in Hashes
      BY <1>3, <2>1, <2>5 DEF Lookup
    <3>2. DescribedInUse
      BY <3>1, Constant DEF Due
    <3>3. Has(shape, "B")
      BY <1>4, <2>1, <2>5, <3>2 DEF DescribedInUse, Has, parse
    <3>4. map[n] \in Missing(shape, n, t, map)
      BY <2>5, <3>3 DEF Missing, parse
    <3> QED
      BY <1>5, <2>2, <3>1, <3>4 DEF Provided
  <2> QED
    BY <2>3, <2>4, <2>5
<1>27. Found(c)'
  BY <1>5 DEF Found
<1>28. ClientInv(c)'
  BY <1>21, <1>22, <1>23, <1>24, <1>25, <1>26, <1>27 DEF ClientInv
<1>29. \A d \in Clients \ {c} : ClientInv(d)'
  BY <1>5, <1>6, Others
<1>30. Apart'
  BY <1>5 DEF FoundInv, Apart
<1>31. ExactInv'
  BY ExactPipeline DEF FoundInv
<1> QED
  BY <1>28, <1>29, <1>30, <1>31 DEF FoundInv

LEMMA FoundPrepared ==
    ASSUME FoundInv, NEW c \in Clients, NEW t \in Queries, ExecuteAsPrepared(c, t)
    PROVE  FoundInv'
<1> DEFINE h == HashOf[t]
<1>1. h \in Hashes /\ CanonicalSQL[h] # None
  BY Constant DEF ExecuteAsPrepared
<1>2. /\ job'[c].name = None /\ job'[c].text = CanonicalSQL[h] /\ job'[c].msgs = Prepared(h)
      /\ pc'[c] = "acquire" /\ pc[c] = "idle"
      /\ UNCHANGED <<held, sent, pin, nameMap, namedStmts, known, stmts>>
      /\ \A d \in Clients \ {c} : pc'[d] = pc[d] /\ job'[d] = job[d]
  BY DEF ExecuteAsPrepared, Prepared, FoundInv, ExactInv, TypeOK, clientVars, backendVars
<1>3. /\ 1..Len(Prepared(h)) = {1, 2, 3}
      /\ Prepared(h)[1].type = "P" /\ Prepared(h)[1].target = h
      /\ Prepared(h)[2].type = "B" /\ Prepared(h)[2].target = h
      /\ Prepared(h)[3].type = "S"
  BY DEF Prepared
<1> HIDE DEF h
<1>4. ClientInv(c)
  BY DEF FoundInv
<1>5. Own(c)' = Own(c) /\ ~Adding(c)'
  BY <1>1, <1>2, <1>3, Constant DEF Own, Adding
<1>6. Mapped(c)' /\ Parsing(c)' /\ Found(c)'
  BY <1>1, <1>2, <1>3, <1>4, <1>5 DEF ClientInv, Mapped, Parsing, Found
<1>7. OwnKept(c)'
  BY <1>2, <1>4, <1>5 DEF ClientInv, OwnKept
<1>8. OwnCounted(c)'
  <2>1. Counted(c)' \subseteq Counted(c)
    BY <1>5 DEF Counted
  <2> QED
    BY <1>2, <1>4, <2>1, CountCovers DEF ClientInv, FoundInv, ExactInv
<1>9. Closing(c)'
  BY <1>2, <1>3 DEF Closing, ClosesFree
<1>10. Planned(c)'
  <2>1. \A i \in 1..Len(job'[c].msgs) : job'[c].msgs[i].type \in {"B", "D"} => job'[c].msgs[i].target = h
    BY <1>2, <1>3
  <2> QED
    BY <1>1, <1>2, <1>3, <2>1 DEF Planned, Due, Provided
<1>11. \A d \in Clients \ {c} : ClientInv(d)'
  BY <1>2, Others
<1>12. Apart'
  BY <1>2 DEF FoundInv, Apart
<1>13. ExactInv'
  BY ExactPrepared DEF FoundInv
<1> QED
  BY <1>6, <1>7, <1>8, <1>9, <1>10, <1>11, <1>12, <1>13 DEF FoundInv, ClientInv

\* A handler that is done, with its client's own statements where they were.
LEMMA DoneFound ==
    ASSUME FoundInv, ExactInv', NEW c \in Clients, Done(c),
           UNCHANGED <<nameMap, namedStmts>>,
           Own(c)' \subseteq Own(c),
           OwnKept(c)',
           {pin'[c]} \subseteq {held[c], pin[c], None},
           \A d \in Clients \ {c} : pin'[d] = pin[d] /\ known'[d] = known[d],
           \A b \in Backends \ {held[c], pin[c]} : stmts'[b] = stmts[b]
    PROVE  FoundInv'
<1>1. /\ pc'[c] = "idle" /\ held'[c] = None
      /\ \A d \in Clients \ {c} : /\ pc'[d] = pc[d] /\ job'[d] = job[d]
                                  /\ held'[d] = held[d] /\ sent'[d] = sent[d]
  BY DEF Done, FoundInv, ExactInv, TypeOK
<1>2. ClientInv(c)
  BY DEF FoundInv
<1>3. ~Adding(c)'
  BY <1>1 DEF Adding
<1>4. OwnCounted(c)'
  <2>1. Counted(c)' \subseteq Counted(c)
    BY <1>3 DEF Counted
  <2> QED
    BY <1>2, <2>1, CountCovers DEF ClientInv, FoundInv, ExactInv
<1>5. Mapped(c)' /\ Parsing(c)' /\ Closing(c)' /\ Planned(c)' /\ Found(c)'
  BY <1>1, <1>2 DEF ClientInv, Mapped, Parsing, Closing, Planned, Found
<1>6. ClientInv(c)'
  BY <1>4, <1>5 DEF ClientInv
<1>7. \A d \in Clients \ {c} : ClientInv(d)'
  BY <1>1, Others
<1>8. Apart'
  <2>1. held' \in [Clients -> Backends \cup {None}] /\ pin' \in [Clients -> Backends \cup {None}]
    BY DEF ExactInv, TypeOK
  <2> QED
    BY <1>1, <2>1, StayApart
<1> QED
  BY <1>6, <1>7, <1>8 DEF FoundInv

LEMMA FoundRelease ==
    ASSUME FoundInv, NEW c \in Clients, held[c] \in Backends, ReleaseHeld(c)
    PROVE  FoundInv'
<1>1. ExactInv'
  BY ReleaseExact DEF FoundInv
<1>2. /\ known'[c] = [n \in Names |-> IF nameMap[c][n] = None THEN None ELSE known[c][n]]
      /\ \A d \in Clients \ {c} : pin'[d] = pin[d] /\ known'[d] = known[d]
      /\ pin'[c] = None
      /\ UNCHANGED <<nameMap, namedStmts>>
      /\ \A b \in Backends \ {held[c]} : stmts'[b] = stmts[b]
  BY DEF ReleaseHeld, Renew, FoundInv, ExactInv, TypeOK
<1>3. Own(c)' = {}
  BY <1>2 DEF Own
<1> QED
  BY <1>1, <1>2, <1>3, DoneFound DEF OwnKept, ReleaseHeld

LEMMA FoundAcquireFails ==
    ASSUME FoundInv, NEW c \in Clients, AcquireFails(c)
    PROVE  FoundInv'
<1>1. ExactInv'
  BY ExactAcquireFails DEF FoundInv
<1>2. Done(c) /\ UNCHANGED <<pin, nameMap, namedStmts, known, stmts>>
  BY DEF AcquireFails, clientVars, backendVars
<1>3. Own(c)' = Own(c)
  BY <1>2 DEF Own
<1>4. OwnKept(c)'
  BY <1>2, <1>3 DEF FoundInv, ClientInv, OwnKept
<1> QED
  BY <1>1, <1>2, <1>3, <1>4, DoneFound

\* A client that has statements of its own stays pinned.
LEMMA FoundFinish ==
    ASSUME FoundInv, NEW c \in Clients, FinishSync(c) \/ FinishFlush(c)
    PROVE  FoundInv'
<1>1. ExactInv'
  BY ExactFinish DEF FoundInv
<1>2. /\ Done(c) /\ UNCHANGED <<nameMap, namedStmts, known, stmts>>
      /\ pc[c] = "respond"
  BY DEF FinishSync, FinishFlush, backendVars
<1>3. Own(c)' = Own(c)
  BY <1>2 DEF Own
<1>4. /\ pin'[c] \in {held[c], None}
      /\ namedStmts[c] > 0 => pin'[c] = held[c]
      /\ \A d \in Clients \ {c} : pin'[d] = pin[d]
  BY DEF FinishSync, FinishFlush, Reconcile, FoundInv, ExactInv, TypeOK
<1>5. ClientInv(c) /\ held[c] # None /\ pin[c] \in {held[c], None} /\ namedStmts[c] \in Nat
  BY <1>2 DEF FoundInv, ExactInv, Holding, TypeOK
<1>6. OwnKept(c)'
  <2> SUFFICES ASSUME NEW n \in Own(c)
               PROVE  pin'[c] # None /\ stmts'[pin'[c]][n] = known'[c][n]
    BY <1>3, Zenon DEF OwnKept
  <2>1. pin[c] = held[c] /\ stmts[pin[c]][n] = known[c][n]
    BY <1>5 DEF ClientInv, OwnKept
  <2>2. namedStmts[c] > 0
    <3>1. IsFiniteSet(Counted(c)) /\ Cardinality(Counted(c)) <= namedStmts[c] /\ n \in Counted(c)
      BY <1>5 DEF ClientInv, OwnCounted, Counted
    <3>2. Cardinality(Counted(c)) \in Nat /\ Cardinality(Counted(c)) # 0
      BY <3>1, FS_CardinalityType, FS_EmptySet
    <3> QED
      BY <1>5, <3>1, <3>2
  <2> QED
    BY <1>2, <1>4, <1>5, <2>1, <2>2
<1> QED
  BY <1>1, <1>2, <1>3, <1>4, <1>6, DoneFound

LEMMA FoundAcquire ==
    ASSUME FoundInv, NEW c \in Clients, NEW b \in Backends, Acquire(c, b)
    PROVE  FoundInv'
<1>1. ExactInv'
  BY ExactAcquire DEF FoundInv
<1>2. /\ pc[c] = "acquire" /\ pc'[c] = "inject" /\ held'[c] = b
      /\ pin[c] # None => b = pin[c] /\ pin'[c] = pin[c]
      /\ pin[c] = None => Free(b) /\ pin'[c] \in {b, None}
      /\ job[c].pinned => pin'[c] = b
      /\ UNCHANGED <<job, sent, nameMap, namedStmts, known, stmts>>
      /\ \A d \in Clients \ {c} : pc'[d] = pc[d] /\ held'[d] = held[d] /\ pin'[d] = pin[d]
  BY DEF Acquire, backendVars, FoundInv, ExactInv, TypeOK
<1>3. ClientInv(c)
  BY DEF FoundInv
<1>4. Own(c)' = Own(c) /\ Adding(c)' = Adding(c)
  BY <1>2 DEF Own, Adding
<1>5. OwnKept(c)'
  BY <1>2, <1>3, <1>4 DEF ClientInv, OwnKept
<1>6. OwnCounted(c)'
  <2>1. Counted(c)' \subseteq Counted(c)
    BY <1>2, <1>4 DEF Counted
  <2> QED
    BY <1>2, <1>3, <2>1, CountCovers DEF ClientInv, FoundInv, ExactInv
<1>7. Mapped(c)' /\ Parsing(c)' /\ Found(c)'
  BY <1>2, <1>3, <1>4 DEF ClientInv, Mapped, Parsing, Found
<1>8. Closing(c)'
  BY <1>2, <1>3 DEF ClientInv, Closing, ClosesFree
<1>9. Planned(c)'
  <2> SUFFICES ASSUME NEW i \in 1..Len(job[c].msgs), Due(job[c].msgs[i]),
                      NEW x, x = job[c].msgs[i].target
               PROVE  job[c].text # None /\ Provided(c, x)'
    BY <1>2 DEF Planned, Due, Provided
  <2>1. job[c].text # None /\ Provided(c, x)
    BY <1>2, <1>3 DEF ClientInv, Planned
  <2> QED
    BY <1>2, <2>1 DEF Provided
<1>10. \A d \in Clients \ {c} : ClientInv(d)'
  BY <1>2, Others
<1>11. Apart'
  <2>1. \A d \in Clients \ {c} : b \notin {held[d], pin[d]}
    <3>1. CASE pin[c] = None
      BY <1>2, <3>1 DEF Free
    <3>2. CASE pin[c] # None
      BY <1>2, <3>2, Constant DEF FoundInv, Apart
    <3> QED
      BY <3>1, <3>2
  <2>2. {held'[c], pin'[c]} \subseteq {b, None}
    BY <1>2
  <2>3. \A d, e \in Clients \ {c} : d # e =>
           ({held'[d], pin'[d]} \cap {held'[e], pin'[e]}) \subseteq {None}
    BY <1>2 DEF FoundInv, Apart
  <2> QED
    BY <1>2, <2>1, <2>2, <2>3 DEF Apart
<1> QED
  BY <1>1, <1>5, <1>6, <1>7, <1>8, <1>9, <1>10, <1>11 DEF FoundInv, ClientInv

LEMMA FoundInject ==
    ASSUME FoundInv, NEW c \in Clients, NEW h \in Hashes, Inject(c, h)
    PROVE  FoundInv'
<1>1. ExactInv'
  BY ExactInject DEF FoundInv
<1>2. /\ pc[c] = "inject"
      /\ UNCHANGED <<pc, job, held, sent, pin, nameMap, namedStmts, known>>
      /\ stmts' = [stmts EXCEPT ![held[c]][h] = CanonicalSQL[h]]
  BY DEF Inject, handlerVars, clientVars
<1>3. ClientInv(c) /\ held[c] \in Backends
  BY <1>2 DEF FoundInv, ExactInv, Holding, TypeOK
<1>4. /\ \A b \in Backends \ {held[c]} : stmts'[b] = stmts[b]
      /\ \A b \in Backends, n \in Names : stmts'[b][n] = stmts[b][n]
  BY <1>2, <1>3, Constant DEF FoundInv, ExactInv, TypeOK, Targets
<1>5. Own(c)' = Own(c) /\ Adding(c)' = Adding(c)
  BY <1>2 DEF Own, Adding
<1>6. pin[c] \in Backends \cup {None}
  BY DEF FoundInv, ExactInv, TypeOK
<1>7. OwnKept(c)'
  BY <1>2, <1>3, <1>4, <1>5, <1>6 DEF ClientInv, OwnKept, Own
<1>8. OwnCounted(c)'
  <2>1. Counted(c)' \subseteq Counted(c)
    BY <1>2, <1>5 DEF Counted
  <2> QED
    BY <1>2, <1>3, <2>1, CountCovers DEF ClientInv, FoundInv, ExactInv
<1>9. Mapped(c)' /\ Parsing(c)' /\ Found(c)'
  BY <1>2, <1>3, <1>5 DEF ClientInv, Mapped, Parsing, Found
<1>10. Closing(c)'
  BY <1>2, <1>3 DEF ClientInv, Closing, ClosesFree
<1>11. Planned(c)'
  <2> SUFFICES ASSUME NEW i \in 1..Len(job[c].msgs), Due(job[c].msgs[i]),
                      NEW x, x = job[c].msgs[i].target
               PROVE  job[c].text # None /\ Provided(c, x)'
    BY <1>2 DEF Planned, Due, Provided
  <2>1. job[c].text # None /\ Provided(c, x)
    BY <1>2, <1>3 DEF ClientInv, Planned
  <2> QED
    BY <1>2, <1>4, <1>6, <2>1 DEF Provided
<1>12. \A d \in Clients \ {c} : ClientInv(d)'
  BY <1>2, <1>4, Others
<1>13. Apart'
  BY <1>2 DEF FoundInv, Apart
<1> QED
  BY <1>1, <1>7, <1>8, <1>9, <1>10, <1>11, <1>12, <1>13 DEF FoundInv, ClientInv

\* An acknowledged Parse of a shared statement leaves the client's own ones alone.
LEMMA SharedAcknowledged ==
    ASSUME FoundInv, NEW c \in Clients, pc[c] # "idle", job[c].msgs[1].type = "P",
           job[c].msgs[1].target \in Hashes, Acknowledge(c), nameMap'[c] = nameMap[c]
    PROVE  /\ Own(c)' = Own(c)
           /\ \A n \in Own(c) : known'[c][n] = known[c][n]
           /\ \A d \in Clients \ {c} : known'[d] = known[d]
<1>1. job[c].name \in Names \cup {None}
  BY DEF FoundInv, ExactInv, TypeOK, Jobs
<1>2. job[c].name # None => nameMap[c][job[c].name] # None
  BY <1>1, Constant DEF FoundInv, ClientInv, Parsing, Lookup
<1> QED
  BY <1>1, <1>2 DEF Own, Acknowledge, FoundInv, ExactInv, TypeOK

\* A step that leaves connections with the clients that have them.
LEMMA FoundSame ==
    ASSUME FoundInv, ExactInv', NEW c \in Clients, ClientInv(c)',
           UNCHANGED <<held, pin>>,
           \A d \in Clients \ {c} :
              /\ pc'[d] = pc[d] /\ job'[d] = job[d] /\ sent'[d] = sent[d]
              /\ nameMap'[d] = nameMap[d] /\ namedStmts'[d] = namedStmts[d] /\ known'[d] = known[d],
           \A b \in Backends \ {held[c], pin[c]} : stmts'[b] = stmts[b]
    PROVE  FoundInv'
<1>1. Apart'
  BY DEF FoundInv, Apart
<1>2. \A d \in Clients \ {c} : ClientInv(d)'
  BY Others
<1> QED
  BY <1>1, <1>2 DEF FoundInv

\* What phase 1 planned is there when the pipeline is forwarded.
LEMMA FoundForward ==
    ASSUME FoundInv, NEW c \in Clients, Forward(c)
    PROVE  FoundInv'
<1> DEFINE msgs == job[c].msgs
<1>1. ExactInv'
  BY ExactForward DEF FoundInv
<1>2. /\ pc[c] = "inject" /\ pc'[c] = "respond"
      /\ UNCHANGED <<job, held, pin, nameMap, namedStmts, deployed, stmts>>
      /\ job[c].need \subseteq deployed[held[c]]
      /\ \A d \in Clients \ {c} : pc'[d] = pc[d] /\ sent'[d] = sent[d]
  BY DEF Forward, ToInject, backendVars, FoundInv, ExactInv, TypeOK
<1>3. ClientInv(c) /\ held[c] \in Backends /\ pin[c] \in {held[c], None}
  BY <1>2 DEF FoundInv, ExactInv, Holding, TypeOK
<1>4. msgs \in Seq(Messages) /\ Formed(msgs) /\ Aimed(msgs) /\ 1 \in 1..Len(msgs)
  BY <1>2 DEF FoundInv, ExactInv, TypeOK, Jobs, Pipelined, Formed
<1>5. \A h \in deployed[held[c]] : h \in Hashes /\ stmts[held[c]][h] # None
  BY <1>3 DEF FoundInv, ExactInv, DeployedExact
<1>6. \/ /\ sent'[c] = msgs
         /\ known' = known
      \/ /\ sent'[c] = Tail(msgs)
         /\ Acknowledge(c)
         /\ msgs[1].type = "P"
         /\ msgs[1].target \in deployed[held[c]]
  BY Forwarded DEF FoundInv
<1>7. /\ Own(c)' = Own(c)
      /\ \A n \in Own(c) : known'[c][n] = known[c][n]
      /\ \A d \in Clients \ {c} : known'[d] = known[d]
  <2>1. CASE known' = known
    BY <1>2, <2>1 DEF Own
  <2>2. CASE Acknowledge(c) /\ msgs[1].type = "P" /\ msgs[1].target \in deployed[held[c]]
    BY <1>2, <1>5, <2>2, SharedAcknowledged
  <2> QED
    BY <1>6, <2>1, <2>2
<1>8. Adding(c)' = Adding(c)
  BY <1>2 DEF Adding
<1>9. OwnKept(c)'
  BY <1>2, <1>3, <1>7 DEF ClientInv, OwnKept
<1>10. OwnCounted(c)'
  <2>1. Counted(c)' \subseteq Counted(c)
    BY <1>2, <1>7, <1>8 DEF Counted
  <2> QED
    BY <1>2, <1>3, <2>1, CountCovers DEF ClientInv, FoundInv, ExactInv
<1>11. Mapped(c)' /\ Parsing(c)' /\ Planned(c)'
  BY <1>2, <1>3, <1>8 DEF ClientInv, Mapped, Parsing, Planned
<1>12. \A i \in 1..Len(msgs) : Due(msgs[i]) =>
          \/ msgs[1].type = "P" /\ msgs[1].target = msgs[i].target
          \/ stmts[held[c]][msgs[i].target] # None
  BY <1>2, <1>3, <1>5 DEF ClientInv, Planned, Provided
<1>13. CASE sent'[c] = msgs /\ known' = known
  <2>1. Closing(c)'
    BY <1>2, <1>3, <1>13 DEF ClientInv, Closing, ClosesFree
  <2>2. Found(c)'
    BY <1>2, <1>12, <1>13 DEF Found, Ready, Due
  <2> QED
    BY <2>1, <2>2, <1>1, <1>2, <1>7, <1>9, <1>10, <1>11, FoundSame DEF ClientInv
<1>14. CASE sent'[c] = Tail(msgs) /\ msgs[1].type = "P" /\ msgs[1].target \in deployed[held[c]]
  <2>1. /\ Len(Tail(msgs)) = Len(msgs) - 1
        /\ \A i \in 1..Len(Tail(msgs)) : Tail(msgs)[i] = msgs[i + 1]
        /\ Len(msgs) \in Nat
    BY <1>4, <1>14, TailFormed
  <2>2. \A i \in 1..Len(Tail(msgs)) : \E j \in 1..Len(msgs) : Tail(msgs)[i] = msgs[j]
    BY <2>1
  <2>3. \A j \in 1..Len(msgs) : msgs[j].type # "C"
    BY <1>4, <1>14 DEF Formed
  <2>4. Closing(c)'
    BY <1>2, <1>14, <2>2, <2>3 DEF Closing, ClosesFree
  <2>5. \A j \in 1..Len(msgs) : Due(msgs[j]) => stmts[held[c]][msgs[j].target] # None
    BY <1>5, <1>12, <1>14
  <2>6. Found(c)'
    BY <1>2, <1>14, <2>2, <2>5 DEF Found, Ready, Due
  <2> QED
    BY <2>4, <2>6, <1>1, <1>2, <1>7, <1>9, <1>10, <1>11, FoundSame DEF ClientInv
<1> QED
  BY <1>6, <1>13, <1>14

\* The messages that are left after an answer were there before it.
LEMMA LeftOver ==
    ASSUME ExactInv, NEW c \in Clients, Running(c), sent' = [sent EXCEPT ![c] = Tail(@)]
    PROVE  /\ \A i \in 1..Len(sent'[c]) : \E j \in 1..Len(sent[c]) : sent'[c][i] = sent[c][j]
           /\ \A d \in Clients \ {c} : sent'[d] = sent[d]
<1>1. /\ Len(Tail(sent[c])) = Len(sent[c]) - 1
      /\ \A i \in 1..Len(Tail(sent[c])) : Tail(sent[c])[i] = sent[c][i + 1]
      /\ Len(sent[c]) \in Nat
  BY Answered, TailFormed
<1>2. sent'[c] = Tail(sent[c]) /\ \A d \in Clients \ {c} : sent'[d] = sent[d]
  BY DEF ExactInv, TypeOK
<1> QED
  BY <1>1, <1>2

LEMMA FoundAnswerParse ==
    ASSUME FoundInv, NEW c \in Clients, AnswerParse(c)
    PROVE  FoundInv'
<1> DEFINE b == held[c]
           x == sent[c][1].target
           text == job[c].text
<1>1. ExactInv'
  BY ExactAnswerParse DEF FoundInv
<1>2. /\ Running(c) /\ Current(c) = sent[c][1] /\ sent[c][1].type = "P"
      /\ b \in Backends /\ Formed(sent[c]) /\ sent[c][1] \in Messages
      /\ pc[c] = "respond"
  BY Answered DEF AnswerParse, FoundInv, Running
<1>3. sent[c][1] = job[c].msgs[1] /\ text # None /\ x \in Targets
  <2>1. sent[c][1] = job[c].msgs[1] /\ text # None
    BY <1>2 DEF FoundInv, ExactInv, InStep, Pipelined
  <2>2. x # None /\ x \in Targets \cup {None}
    BY <1>2, Answered DEF Messages, Aimed, Formed, FoundInv
  <2> QED
    BY <2>1, <2>2
<1>4. /\ UNCHANGED <<pc, job, held, pin, nameMap, namedStmts>>
      /\ sent' = [sent EXCEPT ![c] = Tail(@)]
      /\ Acknowledge(c)
      /\ stmts' = [stmts EXCEPT ![b][x] = text]
  BY <1>2 DEF AnswerParse
<1>5. /\ \A a \in Backends \ {b} : stmts'[a] = stmts[a]
      /\ stmts'[b][x] = text
      /\ \A y \in Targets \ {x} : stmts'[b][y] = stmts[b][y]
  BY <1>2, <1>3, <1>4 DEF FoundInv, ExactInv, TypeOK
<1>6. /\ \A i \in 1..Len(sent'[c]) : \E j \in 1..Len(sent[c]) : sent'[c][i] = sent[c][j]
      /\ \A d \in Clients \ {c} : sent'[d] = sent[d]
  BY <1>2, <1>4, LeftOver DEF FoundInv
<1>7. ClientInv(c) /\ pin[c] \in {b, None} /\ b # None
  BY <1>2 DEF FoundInv, ExactInv, Holding
<1>8. /\ \A d \in Clients \ {c} : known'[d] = known[d]
      /\ Counted(c)' \subseteq Counted(c)
      /\ OwnKept(c)'
  <2>1. CASE x \in Hashes
    <3>1. /\ Own(c)' = Own(c)
          /\ \A n \in Own(c) : known'[c][n] = known[c][n]
          /\ \A d \in Clients \ {c} : known'[d] = known[d]
      BY <1>2, <1>3, <1>4, <2>1, SharedAcknowledged
    <3>2. Counted(c)' \subseteq Counted(c)
      BY <1>4, <3>1 DEF Counted, Adding
    <3>3. \A n \in Names : stmts'[b][n] = stmts[b][n]
      BY <1>5, <2>1, Constant DEF Targets
    <3>4. OwnKept(c)'
      BY <1>4, <1>7, <3>1, <3>3 DEF ClientInv, OwnKept, Own
    <3> QED
      BY <3>1, <3>2, <3>4
  <2>2. CASE x \in Names
    <3>1. job[c].name \in Names \cup {None} /\ Adding(c)
      BY <1>2, <1>3, <2>2 DEF FoundInv, ExactInv, TypeOK, Jobs, Adding
    <3>2. job[c].name # None /\ x = Lookup(nameMap[c], job[c].name) /\ pin[c] = b
      BY <1>2, <1>3, <1>7, <2>2, <3>1, Constant DEF ClientInv, Parsing
    <3>3. x = job[c].name /\ nameMap[c][x] = None
      BY <2>2, <3>1, <3>2, Constant DEF Lookup, FoundInv, ExactInv, TypeOK
    <3>4. known' = [known EXCEPT ![c][x] = text]
      BY <1>4, <3>2, <3>3 DEF Acknowledge
    <3>5. /\ known'[c][x] = text
          /\ \A n \in Names \ {x} : known'[c][n] = known[c][n]
          /\ \A d \in Clients \ {c} : known'[d] = known[d]
      BY <2>2, <3>4 DEF FoundInv, ExactInv, TypeOK
    <3>6. Own(c)' = Own(c) \cup {x}
      BY <1>3, <1>4, <2>2, <3>3, <3>5 DEF Own
    <3>7. Counted(c)' \subseteq Counted(c)
      BY <1>4, <3>1, <3>3, <3>6 DEF Counted, Adding
    <3>8. \A n \in Names \ {x} : stmts'[b][n] = stmts[b][n]
      BY <1>5 DEF Targets
    <3>9. OwnKept(c)'
      BY <1>4, <1>5, <1>7, <3>2, <3>5, <3>6, <3>8 DEF ClientInv, OwnKept, Own
    <3> QED
      BY <3>5, <3>7, <3>9
  <2> QED
    BY <1>3, <2>1, <2>2 DEF Targets
<1>9. OwnCounted(c)'
  BY <1>4, <1>7, <1>8, CountCovers DEF ClientInv, FoundInv, ExactInv
<1>10. Mapped(c)' /\ Parsing(c)' /\ Planned(c)'
  BY <1>2, <1>4, <1>7 DEF ClientInv, Mapped, Parsing, Planned, Adding
<1>11. Closing(c)'
  <2>1. \A j \in 1..Len(sent[c]) : sent[c][j].type # "C"
    BY <1>2 DEF Formed
  <2> QED
    BY <1>2, <1>4, <1>6, <2>1 DEF Closing, ClosesFree
<1>12. Found(c)'
  <2>1. \A j \in 1..Len(sent[c]) : Due(sent[c][j]) => stmts'[b][sent[c][j].target] # None
    <3> SUFFICES ASSUME NEW j \in 1..Len(sent[c]), Due(sent[c][j])
                 PROVE  stmts'[b][sent[c][j].target] # None
      OBVIOUS
    <3>1. x = sent[c][j].target \/ stmts[b][sent[c][j].target] # None
      BY <1>2, <1>7 DEF ClientInv, Found, Ready
    <3>2. sent[c][j].target \in Targets
      <4>1. sent[c][j] \in Messages /\ Aimed(sent[c])
        BY <1>2, Answered DEF FoundInv
      <4> QED
        BY <4>1 DEF Messages, Aimed, Due
    <3> QED
      BY <1>3, <1>5, <3>1, <3>2
  <2> QED
    BY <1>2, <1>4, <1>6, <2>1 DEF Found, Ready, Due
<1> QED
  BY <1>1, <1>4, <1>5, <1>6, <1>8, <1>9, <1>10, <1>11, <1>12, FoundSame DEF ClientInv

\* An answer that changes no statement, or an error.
LEMMA FoundAnswerQuiet ==
    ASSUME FoundInv, NEW c \in Clients, AnswerUse(c) \/ AnswerError(c)
    PROVE  FoundInv'
<1>1. ExactInv'
  BY ExactAnswerUse, ExactAnswerError DEF FoundInv
<1>2. /\ Running(c) /\ pc[c] = "respond"
      /\ UNCHANGED <<pc, job, held, pin, nameMap, namedStmts, known, stmts>>
      /\ \A d \in Clients \ {c} : sent'[d] = sent[d]
  BY DEF AnswerUse, AnswerError, Running, clientVars, backendVars, FoundInv, ExactInv, TypeOK
<1>3. ClientInv(c)
  BY DEF FoundInv
<1>4. Own(c)' = Own(c) /\ Adding(c)' = Adding(c)
  BY <1>2 DEF Own, Adding
<1>5. OwnKept(c)'
  BY <1>2, <1>3, <1>4 DEF ClientInv, OwnKept
<1>6. OwnCounted(c)'
  <2>1. Counted(c)' \subseteq Counted(c)
    BY <1>2, <1>4 DEF Counted
  <2> QED
    BY <1>2, <1>3, <2>1, CountCovers DEF ClientInv, FoundInv, ExactInv
<1>7. Mapped(c)' /\ Parsing(c)' /\ Planned(c)'
  BY <1>2, <1>3, <1>4 DEF ClientInv, Mapped, Parsing, Planned
<1>8. Closing(c)' /\ Found(c)'
  <2>1. CASE AnswerUse(c)
    <3>1. sent[c][1].type # "P" /\ sent' = [sent EXCEPT ![c] = Tail(@)]
      BY <2>1, Answered DEF AnswerUse, FoundInv
    <3>2. \A i \in 1..Len(sent'[c]) : \E j \in 1..Len(sent[c]) : sent'[c][i] = sent[c][j]
      BY <1>2, <3>1, LeftOver DEF FoundInv
    <3>3. Closing(c)'
      BY <1>2, <1>3, <3>2 DEF ClientInv, Closing, ClosesFree
    <3>4. \A j \in 1..Len(sent[c]) : Due(sent[c][j]) => stmts[held[c]][sent[c][j].target] # None
      BY <1>2, <1>3, <3>1 DEF ClientInv, Found, Ready
    <3>5. Found(c)'
      BY <1>2, <3>2, <3>4 DEF Found, Ready, Due
    <3> QED
      BY <3>3, <3>5
  <2>2. CASE AnswerError(c)
    <3>1. sent'[c] = <<Last(sent[c])>>
      BY <2>2 DEF AnswerError, FoundInv, ExactInv, TypeOK
    <3>2. Last(sent[c]).type \in {"S", "H"}
      BY <1>2, Answered, EndFormed DEF FoundInv
    <3>3. \A i \in 1..Len(sent'[c]) : sent'[c][i].type \in {"S", "H"}
      BY <3>1, <3>2
    <3> QED
      BY <1>2, <3>3 DEF Closing, ClosesFree, Found, Due
  <2> QED
    BY <2>1, <2>2
<1> QED
  BY <1>1, <1>2, <1>5, <1>6, <1>7, <1>8, FoundSame DEF ClientInv

\* Nothing but Sync or Flush follows a Close.
LEMMA CloseEnds ==
    ASSUME ExactInv, NEW c \in Clients, AnswerClose(c)
    PROVE  \A i \in 1..Len(sent'[c]) : sent'[c][i].type \in {"S", "H"}
<1>1. /\ sent[c][1].type = "C" /\ sent[c] \in Seq(Messages) /\ Formed(sent[c]) /\ Aimed(sent[c])
  BY Answered DEF AnswerClose
<1>2. sent'[c] = Tail(sent[c])
  BY DEF AnswerClose, ExactInv, TypeOK
<1>3. Len(sent[c]) = 2
  <2>1. Len(sent[c]) \in Nat /\ 1 \in 1..Len(sent[c])
    BY <1>1 DEF Formed
  <2>2. 1 = Len(sent[c]) - 1
    BY <1>1, <2>1, Zenon DEF Formed
  <2> QED
    BY <2>1, <2>2
<1>4. Formed(Tail(sent[c])) /\ Len(Tail(sent[c])) = Len(sent[c]) - 1
  BY <1>1, TailFormed
<1>5. Len(sent'[c]) = 1 /\ Formed(sent'[c])
  BY <1>2, <1>3, <1>4
<1>6. \A i \in 1..1 : i = 1
  OBVIOUS
<1>7. \A i \in 1..Len(sent'[c]) : i = Len(sent'[c])
  BY <1>5, <1>6, Zenon
<1> QED
  BY <1>5, <1>7, Zenon DEF Formed

\* A Close ends its pipeline, and its name is free already.
LEMMA FoundAnswerClose ==
    ASSUME FoundInv, NEW c \in Clients, AnswerClose(c)
    PROVE  FoundInv'
<1> DEFINE b == held[c]
           x == sent[c][1].target
<1>1. ExactInv'
  BY ExactAnswerClose DEF FoundInv
<1>2. /\ Running(c) /\ Current(c) = sent[c][1] /\ sent[c][1].type = "C"
      /\ b \in Backends /\ Formed(sent[c]) /\ sent[c] \in Seq(Messages) /\ pc[c] = "respond"
  BY Answered DEF AnswerClose, FoundInv, Running
<1>3. /\ UNCHANGED <<pc, job, held, pin, nameMap, namedStmts, known>>
      /\ sent' = [sent EXCEPT ![c] = Tail(@)]
      /\ stmts' = IF x = None THEN stmts ELSE [stmts EXCEPT ![b][x] = None]
  BY <1>2 DEF AnswerClose, clientVars
<1>4. /\ \A a \in Backends \ {b} : stmts'[a] = stmts[a]
      /\ \A n \in Names : n # x => stmts'[b][n] = stmts[b][n]
  BY <1>2, <1>3 DEF FoundInv, ExactInv, TypeOK, Targets
<1>5. ClientInv(c) /\ pin[c] \in {b, None}
  BY <1>2 DEF FoundInv, ExactInv, Holding
<1>6. x # None => x = job[c].name /\ known[c][x] = None
  BY <1>2, <1>5 DEF ClientInv, Closing, ClosesFree, Formed
<1>7. Own(c)' = Own(c) /\ Adding(c)' = Adding(c) /\ x \notin Own(c)
  BY <1>3, <1>6, Constant DEF Own, Adding
<1>8. OwnKept(c)'
  BY <1>3, <1>4, <1>5, <1>7 DEF ClientInv, OwnKept, Own
<1>9. OwnCounted(c)'
  <2>1. Counted(c)' \subseteq Counted(c)
    BY <1>3, <1>7 DEF Counted
  <2> QED
    BY <1>3, <1>5, <2>1, CountCovers DEF ClientInv, FoundInv, ExactInv
<1>10. Mapped(c)' /\ Parsing(c)' /\ Planned(c)'
  BY <1>2, <1>3, <1>5, <1>7 DEF ClientInv, Mapped, Parsing, Planned
<1>11. Closing(c)' /\ Found(c)'
  <2>1. \A i \in 1..Len(sent'[c]) : sent'[c][i].type \in {"S", "H"}
    BY CloseEnds DEF FoundInv
  <2> QED
    BY <1>2, <1>3, <2>1 DEF Closing, ClosesFree, Found, Due
<1>12. \A d \in Clients \ {c} : sent'[d] = sent[d]
  BY <1>3 DEF FoundInv, ExactInv, TypeOK
<1> QED
  BY <1>1, <1>3, <1>4, <1>8, <1>9, <1>10, <1>11, <1>12, FoundSame DEF ClientInv

LEMMA FoundDisconnect ==
    ASSUME FoundInv, NEW c \in Clients, Disconnect(c)
    PROVE  FoundInv'
<1>1. ExactInv'
  BY ExactDisconnect DEF FoundInv
<1>2. /\ pc[c] = "idle" /\ UNCHANGED <<pc, job, held, sent>>
      /\ pin'[c] = None /\ namedStmts'[c] = 0
      /\ nameMap'[c] = [n \in Names |-> None] /\ known'[c] = [n \in Names |-> None]
      /\ \A d \in Clients \ {c} : /\ pin'[d] = pin[d] /\ nameMap'[d] = nameMap[d]
                                  /\ namedStmts'[d] = namedStmts[d] /\ known'[d] = known[d]
  BY DEF Disconnect, FoundInv, ExactInv, TypeOK
<1>3. \A b \in Backends \ {held[c], pin[c]} : stmts'[b] = stmts[b]
  BY DEF Disconnect, Renew, backendVars, FoundInv, ExactInv, TypeOK
<1>4. Own(c)' = {} /\ ~Adding(c)'
  BY <1>2 DEF Own, Adding
<1>5. OwnKept(c)' /\ Mapped(c)' /\ Parsing(c)' /\ Closing(c)' /\ Planned(c)' /\ Found(c)'
  BY <1>2, <1>4 DEF OwnKept, Mapped, Parsing, Closing, Planned, Found
<1>6. OwnCounted(c)'
  <2>1. Counted(c)' = {}
    BY <1>4 DEF Counted
  <2> QED
    BY <1>2, <2>1, FS_EmptySet DEF OwnCounted
<1>7. \A d \in Clients \ {c} : ClientInv(d)'
  BY <1>2, <1>3, Others
<1>8. Apart'
  <2>1. held' \in [Clients -> Backends \cup {None}] /\ pin' \in [Clients -> Backends \cup {None}]
    BY <1>1 DEF ExactInv, TypeOK
  <2> QED
    BY <1>2, <2>1, StayApart
<1> QED
  BY <1>1, <1>5, <1>6, <1>7, <1>8 DEF FoundInv, ClientInv

LEMMA FoundReap ==
    ASSUME FoundInv, NEW b \in Backends, Reap(b)
    PROVE  FoundInv'
<1>1. ExactInv'
  BY ExactReap DEF FoundInv
<1>2. /\ UNCHANGED <<pc, job, held, sent, pin, nameMap, namedStmts, known>>
      /\ Free(b)
      /\ \A a \in Backends \ {b} : stmts'[a] = stmts[a]
  BY DEF Reap, Renew, handlerVars, clientVars, FoundInv, ExactInv, TypeOK
<1>3. ASSUME NEW d \in Clients PROVE ClientInv(d)'
  <2>1. \A a \in {held[d], pin[d]} \ {None} : a \in Backends \ {b}
    BY <1>2 DEF Free, FoundInv, ExactInv, TypeOK
  <2>2. Untouched(d)
    BY <1>2, <2>1 DEF Untouched
  <2> QED
    BY <2>2, UntouchedClient DEF FoundInv
<1>4. Apart'
  BY <1>2 DEF FoundInv, Apart
<1> QED
  BY <1>1, <1>3, <1>4 DEF FoundInv

LEMMA FoundNext == OneKindPerName /\ FoundInv /\ [Next]_vars => FoundInv'
<1> SUFFICES ASSUME OneKindPerName, FoundInv, [Next]_vars PROVE FoundInv'
  OBVIOUS
<1>1. CASE UNCHANGED vars
  <2>1. UNCHANGED <<pc, job, held, sent, pin, nameMap, namedStmts, known, stmts>>
    BY <1>1 DEF vars, handlerVars, clientVars, backendVars
  <2>2. \A d \in Clients : Untouched(d)
    BY <2>1 DEF Untouched
  <2>3. \A d \in Clients : ClientInv(d)'
    BY <2>2, UntouchedClient DEF FoundInv
  <2>4. Apart'
    BY <2>1 DEF FoundInv, Apart
  <2>5. ExactInv'
    BY <1>1, ExactNext DEF FoundInv
  <2> QED
    BY <2>3, <2>4, <2>5 DEF FoundInv
<1>2. ASSUME NEW b \in Backends, Reap(b) PROVE FoundInv'
  BY <1>2, FoundReap
<1>3. ASSUME NEW c \in Clients, NEW shape \in Shapes, NEW n \in Names, NEW t \in Texts \cup {None},
             ExecuteExtendedPipeline(c, shape, n, t)
      PROVE  FoundInv'
  BY <1>3, FoundPipeline
<1>4. ASSUME NEW c \in Clients, NEW t \in Queries, ExecuteAsPrepared(c, t) PROVE FoundInv'
  BY <1>4, FoundPrepared
<1>5. ASSUME NEW c \in Clients, HandlerStep(c) PROVE FoundInv'
  <2>1. pc[c] = "inject" => held[c] \in Backends
    BY DEF FoundInv, ExactInv, Holding, TypeOK
  <2>2. ASSUME NEW h \in Hashes, InjectFails(c, h) PROVE FoundInv'
    BY <2>1, <2>2, FoundRelease DEF InjectFails
  <2>3. CASE ForwardFails(c)
    BY <2>1, <2>3, FoundRelease DEF ForwardFails
  <2> QED
    BY <1>5, <2>2, <2>3, FoundAcquire, FoundAcquireFails, FoundInject, FoundForward,
       FoundAnswerParse, FoundAnswerQuiet, FoundAnswerClose, FoundFinish DEF HandlerStep
<1>6. ASSUME NEW c \in Clients, Disconnect(c) PROVE FoundInv'
  BY <1>6, FoundDisconnect
<1> QED
  BY <1>1, <1>2, <1>3, <1>4, <1>5, <1>6 DEF Next

LEMMA FoundMeans == DescribedInUse /\ FoundInv => StatementFound
<1> SUFFICES ASSUME DescribedInUse, FoundInv, NEW c \in Clients, Running(c),
                    Current(c).type \in {"B", "D"}
             PROVE  stmts[held[c]][Current(c).target] # None
  BY DEF StatementFound
<1>1. Current(c) = sent[c][1] /\ 1 \in 1..Len(sent[c]) /\ pc[c] = "respond"
  BY Answered DEF FoundInv, Formed, Running
<1>2. Due(sent[c][1]) /\ sent[c][1].type # "P"
  BY <1>1 DEF Due
<1> QED
  BY <1>1, <1>2 DEF FoundInv, ClientInv, Found, Ready

\* A Bind or Describe finds its statement on whichever connection it is sent to,
\* in any interleaving of clients that share connections: a Parse acknowledged to a
\* client is never followed by "prepared statement does not exist".  The provisos
\* are those of the code: only what a Bind needs is deployed, and a refused Parse
\* leaves its name mapped.
THEOREM StatementsAreFound ==
    ASSUME DescribedInUse, OneKindPerName
    PROVE  Spec => []StatementFound
<1>1. FoundInv /\ [Next]_vars => FoundInv'
  BY FoundNext
<1>2. FoundInv => StatementFound
  BY FoundMeans
<1> QED
  BY FoundInit, <1>1, <1>2, PTL DEF Spec

-----------------------------------------------------------------------------
(* Statements have their client's text. *)

LEMMA UntouchedText ==
    ASSUME ExactInv, NEW d \in Clients, Untouched(d), ClientText(d)
    PROVE  ClientText(d)'
<1>1. KnownCanonical(d)' /\ PipelineText(d)'
  BY DEF ClientText, KnownCanonical, PipelineText, Untouched
<1>2. pc[d] = "respond" => held[d] # None
  BY DEF ExactInv, Holding
<1>3. WireText(d)'
  BY <1>2 DEF ClientText, WireText, Untouched
<1> QED
  BY <1>1, <1>3 DEF ClientText

LEMMA OtherTexts ==
    ASSUME TextInv, NEW c \in Clients,
           \A d \in Clients \ {c} :
              /\ pc'[d] = pc[d] /\ job'[d] = job[d] /\ held'[d] = held[d] /\ sent'[d] = sent[d]
              /\ pin'[d] = pin[d] /\ nameMap'[d] = nameMap[d]
              /\ namedStmts'[d] = namedStmts[d] /\ known'[d] = known[d],
           \A b \in Backends \ {held[c], pin[c]} : stmts'[b] = stmts[b]
    PROVE  \A d \in Clients \ {c} : ClientText(d)'
<1> SUFFICES ASSUME NEW d \in Clients \ {c} PROVE ClientText(d)'
  OBVIOUS
<1>1. \A b \in {held[d], pin[d]} \ {None} : b \in Backends \ {held[c], pin[c]}
  <2>1. held[d] \in Backends \cup {None} /\ pin[d] \in Backends \cup {None}
    BY DEF TextInv, FoundInv, ExactInv, TypeOK
  <2>2. ({held[c], pin[c]} \cap {held[d], pin[d]}) \subseteq {None}
    BY DEF TextInv, FoundInv, Apart
  <2> QED
    BY <2>1, <2>2
<1>2. Untouched(d)
  BY <1>1 DEF Untouched
<1> QED
  BY <1>2, UntouchedText DEF TextInv, FoundInv

LEMMA TextPipeline ==
    ASSUME OneKindPerName, ParsedCanonical, TextInv, NEW c \in Clients, NEW shape \in Shapes,
           NEW n \in Names, NEW t \in Texts \cup {None}, ExecuteExtendedPipeline(c, shape, n, t)
    PROVE  TextInv'
<1> DEFINE parse == Has(shape, "P")
           h == IF parse THEN HashOf[t] ELSE None
           map == IF h # None THEN MapStmtName(nameMap[c], n, h) ELSE nameMap[c]
           msgs == Rewritten(shape, n, t, map)
<1>1. /\ parse => t \in Texts /\ t \in TextsFor[n] /\ known[c][n] = None
      /\ ~parse => t = known[c][n]
      /\ shape # <<"S">> => t # None
  BY Constant DEF ExecuteExtendedPipeline, Sensible
<1>2. h \in Hashes \cup {None}
  BY <1>1, Constant
<1>3. map \in [Names -> Hashes \cup {None}]
  BY <1>2 DEF TextInv, FoundInv, ExactInv, TypeOK, MapStmtName
<1>4. /\ Len(msgs) = Len(shape) /\ DOMAIN shape = 1..Len(shape)
      /\ \A i \in 1..Len(shape) :
            msgs[i].type = shape[i] /\ msgs[i].target = Rewrite(shape[i], n, t, map)
  BY <1>1, <1>3, RewrittenFormed, ShapeFirst
<1>5. /\ job'[c].text = t /\ job'[c].msgs = msgs
      /\ pc'[c] = "acquire"
      /\ nameMap'[c] = IF Has(shape, "C") THEN [map EXCEPT ![n] = None] ELSE map
      /\ known'[c] = IF Has(shape, "C") THEN [known[c] EXCEPT ![n] = None] ELSE known[c]
      /\ UNCHANGED <<held, sent, pin, stmts>>
  BY DEF ExecuteExtendedPipeline, Rewritten, TextInv, FoundInv, ExactInv, TypeOK, backendVars
<1>6. \A d \in Clients \ {c} :
         /\ pc'[d] = pc[d] /\ job'[d] = job[d] /\ nameMap'[d] = nameMap[d]
         /\ namedStmts'[d] = namedStmts[d] /\ known'[d] = known[d]
  BY DEF ExecuteExtendedPipeline, TextInv, FoundInv, ExactInv, TypeOK
<1>7. /\ \A m \in Names \ {n} : map[m] = nameMap[c][m]
      /\ h # None => map[n] = h /\ parse /\ h = HashOf[t]
      /\ h = None => map = nameMap[c]
      /\ h = None /\ parse => HashOf[t] = None
  BY DEF MapStmtName, TextInv, FoundInv, ExactInv, TypeOK
<1> HIDE DEF msgs, map, h
<1>8. /\ ClientText(c) /\ Mapped(c)
      /\ known[c] \in [Names -> Texts \cup {None}] /\ nameMap[c] \in [Names -> Hashes \cup {None}]
  BY DEF TextInv, FoundInv, ClientInv, ExactInv, TypeOK
<1>9. h # None => t = CanonicalSQL[h]
  BY <1>1, <1>7 DEF ParsedCanonical
<1>10. parse /\ h = None => map[n] = None
  BY <1>1, <1>7, <1>8 DEF OneKindPerName, Mapped
<1>11. t # None /\ map[n] # None => t = CanonicalSQL[map[n]]
  <2>1. CASE parse
    BY <1>7, <1>9, <1>10, <2>1
  <2>2. CASE ~parse
    BY <1>1, <1>7, <1>8, <2>2 DEF ClientText, KnownCanonical
  <2> QED
    BY <2>1, <2>2
<1>12. KnownCanonical(c)'
  BY <1>1, <1>3, <1>5, <1>7, <1>8 DEF ClientText, KnownCanonical
<1>13. PipelineText(c)'
  <2> SUFFICES ASSUME NEW i \in 1..Len(shape), shape[i] \in {"P", "B", "D"},
                      msgs[i].target \in Hashes
               PROVE  t = CanonicalSQL[msgs[i].target]
    BY <1>4, <1>5 DEF PipelineText
  <2>1. t # None
    BY <1>1
  <2>2. CASE shape[i] = "P"
    <3>1. parse
      BY <1>4, <2>2 DEF Has
    <3>2. msgs[i].target = HashOf[t] /\ HashOf[t] # None
      BY <1>4, <2>2, Constant DEF Rewrite
    <3> QED
      BY <1>7, <1>9, <3>1, <3>2
  <2>3. CASE shape[i] \in {"B", "D"}
    <3>1. msgs[i].target = Lookup(map, n)
      BY <1>4, <2>3 DEF Rewrite
    <3>2. map[n] # None /\ msgs[i].target = map[n]
      BY <3>1, Constant DEF Lookup
    <3> QED
      BY <1>11, <2>1, <3>2
  <2> QED
    BY <2>2, <2>3
<1>14. WireText(c)'
  BY <1>5 DEF WireText
<1>15. \A d \in Clients \ {c} : ClientText(d)'
  BY <1>5, <1>6, OtherTexts
<1>16. SharedCanonical'
  BY <1>5 DEF TextInv, SharedCanonical
<1>17. FoundInv'
  BY FoundPipeline DEF TextInv
<1> QED
  BY <1>12, <1>13, <1>14, <1>15, <1>16, <1>17 DEF TextInv, ClientText

LEMMA TextPrepared ==
    ASSUME TextInv, NEW c \in Clients, NEW t \in Queries, ExecuteAsPrepared(c, t)
    PROVE  TextInv'
<1> DEFINE h == HashOf[t]
<1>1. /\ job'[c].text = CanonicalSQL[h] /\ job'[c].msgs = Prepared(h)
      /\ pc'[c] = "acquire"
      /\ UNCHANGED <<held, sent, pin, nameMap, namedStmts, known, stmts>>
      /\ \A d \in Clients \ {c} : pc'[d] = pc[d] /\ job'[d] = job[d]
  BY DEF ExecuteAsPrepared, Prepared, TextInv, FoundInv, ExactInv, TypeOK, clientVars, backendVars
<1>2. /\ 1..Len(Prepared(h)) = {1, 2, 3}
      /\ Prepared(h)[1].target = h /\ Prepared(h)[2].target = h /\ Prepared(h)[3].type = "S"
  BY DEF Prepared
<1> HIDE DEF h
<1>3. KnownCanonical(c)'
  BY <1>1 DEF TextInv, ClientText, KnownCanonical
<1>4. PipelineText(c)' /\ WireText(c)'
  BY <1>1, <1>2 DEF PipelineText, WireText
<1>5. \A d \in Clients \ {c} : ClientText(d)'
  BY <1>1, OtherTexts
<1>6. SharedCanonical'
  BY <1>1 DEF TextInv, SharedCanonical
<1>7. FoundInv'
  BY FoundPrepared DEF TextInv
<1> QED
  BY <1>3, <1>4, <1>5, <1>6, <1>7 DEF TextInv, ClientText

LEMMA RenewText ==
    ASSUME TextInv, NEW b \in Backends, stmts' = [stmts EXCEPT ![b] = [x \in Targets |-> None]]
    PROVE  SharedCanonical'
<1>1. \A a \in Backends \ {b} : stmts'[a] = stmts[a]
  BY DEF TextInv, FoundInv, ExactInv, TypeOK
<1>2. \A h \in Hashes : stmts'[b][h] = None
  BY DEF TextInv, FoundInv, ExactInv, TypeOK, Targets
<1> QED
  BY <1>1, <1>2 DEF TextInv, SharedCanonical

\* A handler that is done, for whatever reason.
LEMMA DoneText ==
    ASSUME TextInv, FoundInv', NEW c \in Clients, Done(c), SharedCanonical',
           UNCHANGED <<nameMap, namedStmts>>,
           \A n \in Names : known'[c][n] \in {known[c][n], None},
           \A d \in Clients \ {c} : pin'[d] = pin[d] /\ known'[d] = known[d],
           \A b \in Backends \ {held[c], pin[c]} : stmts'[b] = stmts[b]
    PROVE  TextInv'
<1>1. /\ pc'[c] = "idle"
      /\ \A d \in Clients \ {c} : /\ pc'[d] = pc[d] /\ job'[d] = job[d]
                                  /\ held'[d] = held[d] /\ sent'[d] = sent[d]
  BY DEF Done, TextInv, FoundInv, ExactInv, TypeOK
<1>2. KnownCanonical(c)'
  BY DEF TextInv, ClientText, KnownCanonical
<1>3. PipelineText(c)' /\ WireText(c)'
  BY <1>1 DEF PipelineText, WireText
<1>4. \A d \in Clients \ {c} : ClientText(d)'
  BY <1>1, OtherTexts
<1> QED
  BY <1>2, <1>3, <1>4 DEF TextInv, ClientText

LEMMA TextRelease ==
    ASSUME TextInv, NEW c \in Clients, held[c] \in Backends, ReleaseHeld(c)
    PROVE  TextInv'
<1>1. FoundInv'
  BY FoundRelease DEF TextInv
<1>2. /\ known'[c] = [n \in Names |-> IF nameMap[c][n] = None THEN None ELSE known[c][n]]
      /\ \A d \in Clients \ {c} : pin'[d] = pin[d] /\ known'[d] = known[d]
      /\ UNCHANGED <<nameMap, namedStmts>>
      /\ stmts' = [stmts EXCEPT ![held[c]] = [x \in Targets |-> None]]
      /\ \A b \in Backends \ {held[c]} : stmts'[b] = stmts[b]
  BY DEF ReleaseHeld, Renew, TextInv, FoundInv, ExactInv, TypeOK
<1>3. SharedCanonical'
  BY <1>2, RenewText
<1> QED
  BY <1>1, <1>2, <1>3, DoneText DEF ReleaseHeld

LEMMA TextDone ==
    ASSUME TextInv, NEW c \in Clients, AcquireFails(c) \/ FinishSync(c) \/ FinishFlush(c)
    PROVE  TextInv'
<1>1. FoundInv'
  BY FoundAcquireFails, FoundFinish DEF TextInv
<1>2. /\ Done(c) /\ UNCHANGED <<nameMap, namedStmts, known, stmts>>
      /\ \A d \in Clients \ {c} : pin'[d] = pin[d]
  BY DEF AcquireFails, FinishSync, FinishFlush, Reconcile, clientVars, backendVars,
         TextInv, FoundInv, ExactInv, TypeOK
<1>3. SharedCanonical'
  BY <1>2 DEF TextInv, SharedCanonical
<1> QED
  BY <1>1, <1>2, <1>3, DoneText

LEMMA TextAcquire ==
    ASSUME TextInv, NEW c \in Clients, NEW b \in Backends, Acquire(c, b)
    PROVE  TextInv'
<1>1. FoundInv'
  BY FoundAcquire DEF TextInv
<1>2. /\ pc[c] = "acquire" /\ pc'[c] = "inject"
      /\ UNCHANGED <<job, sent, nameMap, namedStmts, known, stmts>>
      /\ \A d \in Clients \ {c} : pc'[d] = pc[d] /\ held'[d] = held[d] /\ pin'[d] = pin[d]
  BY DEF Acquire, backendVars, TextInv, FoundInv, ExactInv, TypeOK
<1>3. ClientText(c)'
  BY <1>2 DEF TextInv, ClientText, KnownCanonical, PipelineText, WireText
<1>4. \A d \in Clients \ {c} : ClientText(d)'
  BY <1>2, OtherTexts
<1>5. SharedCanonical'
  BY <1>2 DEF TextInv, SharedCanonical
<1> QED
  BY <1>1, <1>3, <1>4, <1>5 DEF TextInv

\* An injected Parse has the canonical text from the cache.
LEMMA TextInject ==
    ASSUME TextInv, NEW c \in Clients, NEW h \in Hashes, Inject(c, h)
    PROVE  TextInv'
<1>1. FoundInv'
  BY FoundInject DEF TextInv
<1>2. /\ pc[c] = "inject"
      /\ UNCHANGED <<pc, job, held, sent, pin, nameMap, namedStmts, known>>
      /\ stmts' = [stmts EXCEPT ![held[c]][h] = CanonicalSQL[h]]
  BY DEF Inject, handlerVars, clientVars
<1>3. held[c] \in Backends
  BY <1>2 DEF TextInv, FoundInv, ExactInv, Holding, TypeOK
<1>4. /\ \A b \in Backends \ {held[c]} : stmts'[b] = stmts[b]
      /\ stmts'[held[c]][h] = CanonicalSQL[h]
      /\ \A g \in Hashes \ {h} : stmts'[held[c]][g] = stmts[held[c]][g]
  BY <1>2, <1>3 DEF TextInv, FoundInv, ExactInv, TypeOK, Targets
<1>5. SharedCanonical'
  BY <1>3, <1>4 DEF TextInv, SharedCanonical
<1>6. ClientText(c)'
  BY <1>2 DEF TextInv, ClientText, KnownCanonical, PipelineText, WireText
<1>7. \A d \in Clients \ {c} : ClientText(d)'
  BY <1>2, <1>4, OtherTexts
<1> QED
  BY <1>1, <1>5, <1>6, <1>7 DEF TextInv

\* A client that gets ParseComplete for a shared statement knows its canonical text.
LEMMA AcknowledgedCanonical ==
    ASSUME TextInv, NEW c \in Clients, pc[c] # "idle", job[c].msgs[1].type = "P",
           Acknowledge(c), nameMap'[c] = nameMap[c]
    PROVE  KnownCanonical(c)'
<1>1. job[c].name \in Names \cup {None} /\ 1 \in 1..Len(job[c].msgs)
  BY DEF TextInv, FoundInv, ExactInv, TypeOK, Jobs, Pipelined, Formed
<1>2. job[c].name # None /\ nameMap[c][job[c].name] # None =>
         job[c].text = CanonicalSQL[nameMap[c][job[c].name]]
  <2> SUFFICES ASSUME job[c].name # None, nameMap[c][job[c].name] # None
               PROVE  job[c].text = CanonicalSQL[nameMap[c][job[c].name]]
    OBVIOUS
  <2>1. job[c].msgs[1].target = nameMap[c][job[c].name]
    BY DEF TextInv, FoundInv, ClientInv, Parsing, Lookup
  <2>2. job[c].msgs[1].target \in Hashes
    BY <1>1, <2>1 DEF TextInv, FoundInv, ExactInv, TypeOK
  <2> QED
    BY <1>1, <2>1, <2>2 DEF TextInv, ClientText, PipelineText
<1> QED
  BY <1>1, <1>2 DEF TextInv, ClientText, KnownCanonical, Acknowledge, FoundInv, ExactInv, TypeOK

LEMMA TextForward ==
    ASSUME TextInv, NEW c \in Clients, Forward(c)
    PROVE  TextInv'
<1> DEFINE msgs == job[c].msgs
<1>1. FoundInv'
  BY FoundForward DEF TextInv
<1>2. /\ pc[c] = "inject" /\ pc'[c] = "respond"
      /\ UNCHANGED <<job, held, pin, nameMap, namedStmts, deployed, stmts>>
      /\ \A d \in Clients \ {c} : pc'[d] = pc[d] /\ sent'[d] = sent[d]
      /\ job[c].need \subseteq Hashes
  BY DEF Forward, backendVars, TextInv, FoundInv, ExactInv, TypeOK, Jobs
<1>3. \/ /\ sent'[c] = msgs
         /\ known' = known
      \/ /\ sent'[c] = Tail(msgs)
         /\ Acknowledge(c)
         /\ msgs[1].type = "P"
         /\ msgs[1].target \in Hashes
  <2>1. deployed[held[c]] \subseteq Hashes
    BY <1>2 DEF TextInv, FoundInv, ExactInv, Holding, TypeOK
  <2> QED
    BY <2>1, Forwarded DEF TextInv, FoundInv
<1>4. KnownCanonical(c)' /\ \A d \in Clients \ {c} : known'[d] = known[d]
  <2>1. CASE known' = known
    BY <1>2, <2>1 DEF TextInv, ClientText, KnownCanonical
  <2>2. CASE Acknowledge(c) /\ msgs[1].type = "P" /\ msgs[1].target \in Hashes
    BY <1>2, <2>2, AcknowledgedCanonical, SharedAcknowledged DEF TextInv
  <2> QED
    BY <1>3, <2>1, <2>2
<1>5. PipelineText(c)'
  BY <1>2 DEF TextInv, ClientText, PipelineText
<1>6. ClientText(c) /\ ClientInv(c) /\ pin[c] \in {held[c], None}
  BY <1>2 DEF TextInv, FoundInv, ExactInv, Holding
<1>7. msgs \in Seq(Messages) /\ Formed(msgs) /\ Aimed(msgs)
  BY <1>2 DEF TextInv, FoundInv, ExactInv, TypeOK, Jobs, Pipelined
<1>8. ASSUME NEW i \in 1..Len(msgs), msgs[i].type \in {"B", "D"}
      PROVE  \/ msgs[i].target \in Hashes /\ job[c].text = CanonicalSQL[msgs[i].target]
             \/ /\ msgs[i].target \in Names
                /\ msgs[1].type = "P" /\ msgs[1].target = msgs[i].target
             \/ stmts[held[c]][msgs[i].target] = job[c].text
  <2>1. msgs[i].target \in Names \cup Hashes
    <3>1. msgs[i] \in Messages
      BY <1>7
    <3> QED
      BY <1>7, <1>8, <3>1 DEF Aimed, Messages, Targets
  <2>2. CASE msgs[i].target \in Hashes
    BY <1>2, <1>6, <1>8, <2>2 DEF ClientText, PipelineText
  <2>3. CASE msgs[i].target \in Names
    BY <1>2, <1>6, <1>8, <2>3, Constant DEF ClientInv, Planned, Provided, Due
  <2> QED
    BY <2>1, <2>2, <2>3
<1>9. WireText(c)'
  <2>1. CASE sent'[c] = msgs
    BY <1>2, <1>8, <2>1 DEF WireText
  <2>2. CASE sent'[c] = Tail(msgs) /\ msgs[1].type = "P" /\ msgs[1].target \in Hashes
    <3>1. /\ Len(Tail(msgs)) = Len(msgs) - 1
          /\ \A i \in 1..Len(Tail(msgs)) : Tail(msgs)[i] = msgs[i + 1]
          /\ Len(msgs) \in Nat
      BY <1>7, <2>2, TailFormed
    <3>2. \A i \in 1..Len(Tail(msgs)) : \E j \in 1..Len(msgs) : Tail(msgs)[i] = msgs[j]
      BY <3>1
    <3>3. \A j \in 1..Len(msgs) : msgs[j].type \in {"B", "D"} =>
             \/ msgs[j].target \in Hashes /\ job[c].text = CanonicalSQL[msgs[j].target]
             \/ stmts[held[c]][msgs[j].target] = job[c].text
      BY <1>8, <2>2, Constant
    <3> QED
      BY <1>2, <2>2, <3>2, <3>3 DEF WireText
  <2> QED
    BY <1>3, <2>1, <2>2
<1>10. \A d \in Clients \ {c} : ClientText(d)'
  BY <1>2, <1>4, OtherTexts
<1>11. SharedCanonical'
  BY <1>2 DEF TextInv, SharedCanonical
<1> QED
  BY <1>1, <1>4, <1>5, <1>9, <1>10, <1>11 DEF TextInv, ClientText

LEMMA TextAnswerParse ==
    ASSUME TextInv, NEW c \in Clients, AnswerParse(c)
    PROVE  TextInv'
<1> DEFINE b == held[c]
           x == sent[c][1].target
           text == job[c].text
<1>1. FoundInv'
  BY FoundAnswerParse DEF TextInv
<1>2. /\ Running(c) /\ Current(c) = sent[c][1] /\ sent[c][1].type = "P"
      /\ b \in Backends /\ sent[c] \in Seq(Messages) /\ Formed(sent[c]) /\ Aimed(sent[c])
      /\ pc[c] = "respond"
  BY Answered DEF AnswerParse, TextInv, FoundInv, Running
<1>3. sent[c][1] = job[c].msgs[1] /\ 1 \in 1..Len(job[c].msgs)
  <2>1. sent[c][1] = job[c].msgs[1] /\ Formed(job[c].msgs)
    BY <1>2 DEF TextInv, FoundInv, ExactInv, InStep, Pipelined
  <2>2. job[c].msgs \in Seq(Messages)
    BY DEF TextInv, FoundInv, ExactInv, TypeOK, Jobs
  <2> QED
    BY <2>1, <2>2 DEF Formed
<1>4. x \in Targets
  BY <1>2, Answered DEF Messages, Aimed, Formed, TextInv, FoundInv
<1>5. /\ UNCHANGED <<pc, job, held, pin, nameMap, namedStmts>>
      /\ sent' = [sent EXCEPT ![c] = Tail(@)]
      /\ Acknowledge(c)
      /\ stmts' = [stmts EXCEPT ![b][x] = text]
  BY <1>2 DEF AnswerParse
<1>6. /\ \A a \in Backends \ {b} : stmts'[a] = stmts[a]
      /\ stmts'[b][x] = text
      /\ \A y \in Targets \ {x} : stmts'[b][y] = stmts[b][y]
  BY <1>2, <1>4, <1>5 DEF TextInv, FoundInv, ExactInv, TypeOK
<1>7. x \in Hashes => text = CanonicalSQL[x]
  BY <1>2, <1>3 DEF TextInv, ClientText, PipelineText
<1>8. SharedCanonical'
  BY <1>6, <1>7 DEF TextInv, SharedCanonical, Targets
<1>9. KnownCanonical(c)'
  BY <1>2, <1>3, <1>5, AcknowledgedCanonical
<1>10. PipelineText(c)'
  BY <1>5 DEF TextInv, ClientText, PipelineText
<1>11. /\ \A i \in 1..Len(sent'[c]) : \E j \in 1..Len(sent[c]) : sent'[c][i] = sent[c][j]
       /\ \A d \in Clients \ {c} : sent'[d] = sent[d]
  BY <1>2, <1>5, LeftOver DEF TextInv, FoundInv
<1>12. \A d \in Clients \ {c} : known'[d] = known[d]
  BY <1>5 DEF Acknowledge, TextInv, FoundInv, ExactInv, TypeOK
<1>13. ASSUME NEW j \in 1..Len(sent[c]), sent[c][j].type \in {"B", "D"}
       PROVE  \/ sent[c][j].target \in Hashes /\ text = CanonicalSQL[sent[c][j].target]
              \/ stmts'[b][sent[c][j].target] = text
  <2>1. sent[c][j].target \in Targets
    <3>1. sent[c][j] \in Messages
      BY <1>2
    <3> QED
      BY <1>2, <1>13, <3>1 DEF Aimed, Messages
  <2>2. \/ sent[c][j].target \in Hashes /\ text = CanonicalSQL[sent[c][j].target]
        \/ x = sent[c][j].target
        \/ stmts[b][sent[c][j].target] = text
    BY <1>2, <1>13 DEF TextInv, ClientText, WireText
  <2> QED
    BY <1>6, <2>1, <2>2
<1>14. WireText(c)'
  <2> SUFFICES ASSUME NEW i \in 1..Len(sent'[c]), sent'[c][i].type \in {"B", "D"}
               PROVE  \/ /\ sent'[c][i].target \in Hashes
                         /\ text = CanonicalSQL[sent'[c][i].target]
                      \/ stmts'[b][sent'[c][i].target] = text
    BY <1>5 DEF WireText
  <2>1. PICK j \in 1..Len(sent[c]) : sent'[c][i] = sent[c][j]
    BY <1>11
  <2> QED
    BY <1>13, <2>1
<1>15. \A d \in Clients \ {c} : ClientText(d)'
  BY <1>5, <1>6, <1>11, <1>12, OtherTexts
<1> QED
  BY <1>1, <1>8, <1>9, <1>10, <1>14, <1>15 DEF TextInv, ClientText

LEMMA TextAnswerQuiet ==
    ASSUME TextInv, NEW c \in Clients, AnswerUse(c) \/ AnswerError(c)
    PROVE  TextInv'
<1>1. FoundInv'
  BY FoundAnswerQuiet DEF TextInv
<1>2. /\ Running(c) /\ pc[c] = "respond"
      /\ UNCHANGED <<pc, job, held, pin, nameMap, namedStmts, known, stmts>>
      /\ \A d \in Clients \ {c} : sent'[d] = sent[d]
  BY DEF AnswerUse, AnswerError, Running, clientVars, backendVars, TextInv, FoundInv, ExactInv, TypeOK
<1>3. KnownCanonical(c)' /\ PipelineText(c)'
  BY <1>2 DEF TextInv, ClientText, KnownCanonical, PipelineText
<1>4. WireText(c)'
  <2>1. CASE AnswerUse(c)
    <3>1. sent[c][1].type # "P" /\ sent' = [sent EXCEPT ![c] = Tail(@)]
      BY <2>1, Answered DEF AnswerUse, TextInv, FoundInv
    <3>2. \A i \in 1..Len(sent'[c]) : \E j \in 1..Len(sent[c]) : sent'[c][i] = sent[c][j]
      BY <1>2, <3>1, LeftOver DEF TextInv, FoundInv
    <3>3. \A j \in 1..Len(sent[c]) : sent[c][j].type \in {"B", "D"} =>
             \/ sent[c][j].target \in Hashes /\ job[c].text = CanonicalSQL[sent[c][j].target]
             \/ stmts[held[c]][sent[c][j].target] = job[c].text
      BY <1>2, <3>1 DEF TextInv, ClientText, WireText
    <3> QED
      BY <1>2, <3>2, <3>3 DEF WireText
  <2>2. CASE AnswerError(c)
    <3>1. sent'[c] = <<Last(sent[c])>>
      BY <2>2 DEF AnswerError, TextInv, FoundInv, ExactInv, TypeOK
    <3>2. Last(sent[c]).type \in {"S", "H"}
      BY <1>2, Answered, EndFormed DEF TextInv, FoundInv
    <3>3. \A i \in 1..Len(sent'[c]) : sent'[c][i].type \in {"S", "H"}
      BY <3>1, <3>2
    <3> QED
      BY <3>3 DEF WireText
  <2> QED
    BY <2>1, <2>2
<1>5. \A d \in Clients \ {c} : ClientText(d)'
  BY <1>2, OtherTexts
<1>6. SharedCanonical'
  BY <1>2 DEF TextInv, SharedCanonical
<1> QED
  BY <1>1, <1>3, <1>4, <1>5, <1>6 DEF TextInv, ClientText

LEMMA TextAnswerClose ==
    ASSUME TextInv, NEW c \in Clients, AnswerClose(c)
    PROVE  TextInv'
<1> DEFINE b == held[c]
           x == sent[c][1].target
<1>1. FoundInv'
  BY FoundAnswerClose DEF TextInv
<1>2. /\ Running(c) /\ Current(c) = sent[c][1] /\ sent[c][1].type = "C" /\ b \in Backends
      /\ Formed(sent[c]) /\ Aimed(sent[c]) /\ sent[c] \in Seq(Messages) /\ sent[c][1] \in Messages
      /\ pc[c] = "respond"
  BY Answered DEF AnswerClose, TextInv, FoundInv, Running
<1>3. /\ UNCHANGED <<pc, job, held, pin, nameMap, namedStmts, known>>
      /\ sent' = [sent EXCEPT ![c] = Tail(@)]
      /\ stmts' = IF x = None THEN stmts ELSE [stmts EXCEPT ![b][x] = None]
  BY <1>2 DEF AnswerClose, clientVars
<1>4. \A a \in Backends \ {b} : stmts'[a] = stmts[a]
  BY <1>2, <1>3 DEF TextInv, FoundInv, ExactInv, TypeOK
<1>5. \A a \in Backends, h \in Hashes : stmts'[a][h] = stmts[a][h]
  <2>1. x \notin Hashes
    <3>1. 1 \in 1..Len(sent[c])
      BY <1>2 DEF Formed
    <3> QED
      BY <1>2, <3>1, Zenon DEF Aimed
  <2>2. x \in Targets \cup {None}
    BY <1>2 DEF Messages
  <2> QED
    BY <1>2, <1>3, <2>1, <2>2 DEF TextInv, FoundInv, ExactInv, TypeOK, Targets
<1>6. SharedCanonical'
  BY <1>5 DEF TextInv, SharedCanonical
<1>7. KnownCanonical(c)' /\ PipelineText(c)'
  BY <1>3 DEF TextInv, ClientText, KnownCanonical, PipelineText
<1>8. WireText(c)'
  <2>1. \A i \in 1..Len(sent'[c]) : sent'[c][i].type \in {"S", "H"}
    BY CloseEnds DEF TextInv, FoundInv
  <2> QED
    BY <2>1 DEF WireText
<1>9. \A d \in Clients \ {c} : sent'[d] = sent[d]
  BY <1>3 DEF TextInv, FoundInv, ExactInv, TypeOK
<1>10. \A d \in Clients \ {c} : ClientText(d)'
  BY <1>3, <1>4, <1>9, OtherTexts
<1> QED
  BY <1>1, <1>6, <1>7, <1>8, <1>10 DEF TextInv, ClientText

LEMMA TextDisconnect ==
    ASSUME TextInv, NEW c \in Clients, Disconnect(c)
    PROVE  TextInv'
<1>1. FoundInv'
  BY FoundDisconnect DEF TextInv
<1>2. /\ pc[c] = "idle" /\ UNCHANGED <<pc, job, held, sent>>
      /\ known'[c] = [n \in Names |-> None]
      /\ \A d \in Clients \ {c} : /\ pin'[d] = pin[d] /\ nameMap'[d] = nameMap[d]
                                  /\ namedStmts'[d] = namedStmts[d] /\ known'[d] = known[d]
  BY DEF Disconnect, TextInv, FoundInv, ExactInv, TypeOK
<1>3. \A b \in Backends \ {held[c], pin[c]} : stmts'[b] = stmts[b]
  BY DEF Disconnect, Renew, backendVars, TextInv, FoundInv, ExactInv, TypeOK
<1>4. SharedCanonical'
  <2>1. CASE pin[c] = None
    BY <2>1 DEF Disconnect, backendVars, TextInv, SharedCanonical
  <2>2. CASE pin[c] # None
    <3>1. pin[c] \in Backends
      BY <2>2 DEF TextInv, FoundInv, ExactInv, TypeOK
    <3> QED
      BY <2>2, <3>1, RenewText DEF Disconnect, Renew
  <2> QED
    BY <2>1, <2>2
<1>5. ClientText(c)'
  BY <1>2 DEF ClientText, KnownCanonical, PipelineText, WireText
<1>6. \A d \in Clients \ {c} : ClientText(d)'
  BY <1>2, <1>3, OtherTexts
<1> QED
  BY <1>1, <1>4, <1>5, <1>6 DEF TextInv

LEMMA TextReap ==
    ASSUME TextInv, NEW b \in Backends, Reap(b)
    PROVE  TextInv'
<1>1. FoundInv'
  BY FoundReap DEF TextInv
<1>2. /\ UNCHANGED <<pc, job, held, sent, pin, nameMap, namedStmts, known>>
      /\ Free(b)
      /\ \A a \in Backends \ {b} : stmts'[a] = stmts[a]
  BY DEF Reap, Renew, handlerVars, clientVars, TextInv, FoundInv, ExactInv, TypeOK
<1>3. SharedCanonical'
  BY RenewText DEF Reap, Renew
<1>4. ASSUME NEW d \in Clients PROVE ClientText(d)'
  <2>1. \A a \in {held[d], pin[d]} \ {None} : a \in Backends \ {b}
    BY <1>2 DEF Free, TextInv, FoundInv, ExactInv, TypeOK
  <2>2. Untouched(d)
    BY <1>2, <2>1 DEF Untouched
  <2> QED
    BY <2>2, UntouchedText DEF TextInv, FoundInv
<1> QED
  BY <1>1, <1>3, <1>4 DEF TextInv

LEMMA TextInit == Init => TextInv
<1> SUFFICES ASSUME Init PROVE TextInv
  OBVIOUS
<1>1. SharedCanonical
  BY DEF Init, SharedCanonical, Targets
<1>2. \A c \in Clients : ClientText(c)
  BY DEF Init, ClientText, KnownCanonical, PipelineText, WireText
<1> QED
  BY <1>1, <1>2, FoundInit DEF TextInv

LEMMA TextNext == OneKindPerName /\ ParsedCanonical /\ TextInv /\ [Next]_vars => TextInv'
<1> SUFFICES ASSUME OneKindPerName, ParsedCanonical, TextInv, [Next]_vars PROVE TextInv'
  OBVIOUS
<1>1. CASE UNCHANGED vars
  <2>1. UNCHANGED <<pc, job, held, sent, pin, nameMap, namedStmts, known, stmts>>
    BY <1>1 DEF vars, handlerVars, clientVars, backendVars
  <2>2. \A d \in Clients : Untouched(d)
    BY <2>1 DEF Untouched
  <2>3. \A d \in Clients : ClientText(d)'
    BY <2>2, UntouchedText DEF TextInv, FoundInv
  <2>4. SharedCanonical'
    BY <2>1 DEF TextInv, SharedCanonical
  <2>5. FoundInv'
    BY <1>1, FoundNext DEF TextInv
  <2> QED
    BY <2>3, <2>4, <2>5 DEF TextInv
<1>2. ASSUME NEW b \in Backends, Reap(b) PROVE TextInv'
  BY <1>2, TextReap
<1>3. ASSUME NEW c \in Clients, NEW shape \in Shapes, NEW n \in Names, NEW t \in Texts \cup {None},
             ExecuteExtendedPipeline(c, shape, n, t)
      PROVE  TextInv'
  BY <1>3, TextPipeline
<1>4. ASSUME NEW c \in Clients, NEW t \in Queries, ExecuteAsPrepared(c, t) PROVE TextInv'
  BY <1>4, TextPrepared
<1>5. ASSUME NEW c \in Clients, HandlerStep(c) PROVE TextInv'
  <2>1. pc[c] = "inject" => held[c] \in Backends
    BY DEF TextInv, FoundInv, ExactInv, Holding, TypeOK
  <2>2. ASSUME NEW h \in Hashes, InjectFails(c, h) PROVE TextInv'
    BY <2>1, <2>2, TextRelease DEF InjectFails
  <2>3. CASE ForwardFails(c)
    BY <2>1, <2>3, TextRelease DEF ForwardFails
  <2> QED
    BY <1>5, <2>2, <2>3, TextAcquire, TextInject, TextForward, TextAnswerParse,
       TextAnswerQuiet, TextAnswerClose, TextDone DEF HandlerStep
<1>6. ASSUME NEW c \in Clients, Disconnect(c) PROVE TextInv'
  BY <1>6, TextDisconnect
<1> QED
  BY <1>1, <1>2, <1>3, <1>4, <1>5, <1>6 DEF Next

LEMMA TextMeans == TextInv => OwnText
<1> SUFFICES ASSUME TextInv, NEW c \in Clients, Running(c), Current(c).type = "B"
             PROVE  stmts[held[c]][Current(c).target] \in {job[c].text, None}
  BY DEF OwnText
<1>1. /\ Current(c) = sent[c][1] /\ 1 \in 1..Len(sent[c]) /\ pc[c] = "respond"
      /\ held[c] \in Backends
  BY Answered DEF TextInv, FoundInv, Formed, Running
<1>2. \/ Current(c).target \in Hashes /\ job[c].text = CanonicalSQL[Current(c).target]
      \/ stmts[held[c]][Current(c).target] = job[c].text
  BY <1>1 DEF TextInv, ClientText, WireText
<1> QED
  BY <1>1, <1>2 DEF TextInv, SharedCanonical

\* What a Bind executes is the text its client has parsed under that name, whoever
\* has parsed the shared statement on that connection first.  The provisos: clients
\* write no literals into statements that they name, whose text would be sent as it
\* is under the name of the canonical form, and do not give the name of a refused
\* shared statement to one that passes through.
THEOREM TextsAreOwn ==
    ASSUME OneKindPerName, ParsedCanonical
    PROVE  Spec => []OwnText
<1>1. TextInv /\ [Next]_vars => TextInv'
  BY TextNext
<1> QED
  BY TextInit, TextMeans, <1>1, PTL DEF Spec
=============================================================================
