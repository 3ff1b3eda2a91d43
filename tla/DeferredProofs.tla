--------------------------- MODULE DeferredProofs ---------------------------
(***************************************************************************)
(* Proofs about DeferredListen, for every set of channels, every length of *)
(* the buffer and every set of query strings in which a transaction ends   *)
(* only with the last statement.                                           *)
(***************************************************************************)
EXTENDS DeferredListen, TLAPS

\* The query strings after which the status and the tag that the client was sent
\* tell how its transaction ended.
EndsLast == \A s \in Strings : \A i \in 1..(Len(s) - 1) : s[i] \notin {"commit", "rollback"}

\* UNLISTEN of the channel.
Cancels(cmd, ch) == cmd[1] = "unlisten" /\ cmd[2] \in {ch, "*"}

\* The commands leave the channel alone.
Spared(cmds, from, ch) == \A j \in from..Len(cmds) : ~Cancels(cmds[j], ch)

\* The channels after a sequence of commands: those with a LISTEN that no later
\* command cancels, and those that were there before and that none cancels.
Effect(set, cmds) ==
    {ch \in Channels :
        \/ \E i \in 1..Len(cmds) : cmds[i] = <<"listen", ch>> /\ Spared(cmds, i + 1, ch)
        \/ ch \in set /\ Spared(cmds, 1, ch)}

----------------------------------------------------------------------------
(* The inductive invariant. *)

\* No COMMIT is in force, or on its way.
Uncommitted == tag # "COMMIT" /\ \A i \in 1..Len(wire) : wire[i] # <<"C", "COMMIT">>

\* The tag in force when the ReadyForQuery that ends the reply is forwarded is COMMIT.
CommitAhead ==
    IF Len(wire) = 1 THEN tag = "COMMIT" ELSE wire[Len(wire) - 1] = <<"C", "COMMIT">>

\* Nothing but the last message of a reply is a ReadyForQuery, and that carries the
\* server's status.
WireShape ==
    /\ \A i \in 1..Len(wire) : wire[i][1] = "Z" => rest = <<>> /\ i = Len(wire)
    /\ rest = <<>> => wire # <<>> /\ wire[Len(wire)] = <<"Z", tx>>

WireInv ==
    /\ pc \in {"ready", "followup"} => status = tx /\ rest = <<>> /\ wire = <<>>
    /\ pc = "resolve" => tx = "I" /\ status = "I" /\ rest = <<>> /\ wire = <<>>
    /\ pc = "reply" => WireShape

\* The client has these channels where PostgreSQL has those: no others, and all of
\* them unless a LISTEN could not be applied at COMMIT.
Agrees(mine, its) == mine \subseteq its /\ ("dialAtCommit" \notin Faults => mine = its)

\* The buffer is that of the open transaction, if there is one.
Working ==
    /\ Agrees(channels, want)
    /\ tx = "I" => pending = <<>>
    /\ tx = "T" => Agrees(Effect(channels, pending), draft)
    /\ pending # <<>> => Uncommitted

\* The session is idle again and the client does not know it yet.
Ended ==
    \/ Agrees(channels, want) /\ (pending = <<>> \/ Uncommitted)
    \/ Agrees(Effect(channels, pending), want) /\ CommitAhead

\* A reply is on its way.
Replying ==
    /\ \A i \in 1..(Len(rest) - 1) : rest[i] \notin {"commit", "rollback"}
    /\ IF rest = <<>> /\ tx = "I" THEN Ended ELSE Working

ListenInv ==
    /\ pc \in {"ready", "followup"} => Working
    /\ pc = "reply" => Replying
    /\ pc = "resolve" => pending # <<>> /\ Agrees(Effect(channels, pending), want)

\* What handleListen and handleUnlisten go by: the status of the server.
StatusKnown == pc \in {"ready", "followup"} => status = tx

\* What holds whether or not a LISTEN can be applied at COMMIT.
NoStraySubscription == pc = "ready" /\ tx = "I" => channels \subseteq want /\ pending = <<>>

----------------------------------------------------------------------------
(* Types. *)

LEMMA MessageForms ==
    ASSUME NEW m \in Messages
    PROVE  \/ m = <<"E", "">>
           \/ \E t \in Tags : m = <<"C", t>>
           \/ \E s \in {"I", "T", "E"} : m = <<"Z", s>>
BY DEF Messages

LEMMA CommandForms ==
    ASSUME NEW cmd \in Commands
    PROVE  \/ \E ch \in Channels : cmd = <<"listen", ch>>
           \/ \E ch \in Channels \cup {"*"} : cmd = <<"unlisten", ch>>
BY DEF Commands, Kinds

LEMMA AppliedType ==
    ASSUME NEW set \in SUBSET Channels, NEW cmd \in Commands
    PROVE  Applied(set, cmd) \subseteq Channels
BY DEF Applied, Commands, Kinds

\* A statement is answered with a tag or an error, and leaves a status byte.
LEMMA AnswersType ==
    ASSUME NEW stmt \in Statements, tx \in {"I", "T", "E"}, NEW answer \in Answers(stmt)
    PROVE  /\ answer \in Messages /\ answer[1] # "Z"
           /\ answer = <<"E", "">> \/ \E t \in Tags : answer = <<"C", t>>
           /\ StatusAfter(stmt, answer) \in {"I", "T", "E"}
<1>1. answer = <<"E", "">> \/ \E t \in Tags : answer = <<"C", t>>
  BY DEF Answers, Tags, Statements
<1>2. answer \in Messages /\ answer[1] # "Z"
  <2>1. CASE answer = <<"E", "">>
    BY <2>1 DEF Messages
  <2>2. CASE \E t \in Tags : answer = <<"C", t>>
    BY <2>2 DEF Messages
  <2> QED BY <1>1, <2>1, <2>2
<1>3. StatusAfter(stmt, answer) \in {"I", "T", "E"}
  BY DEF StatusAfter
<1> QED BY <1>1, <1>2, <1>3

LEMMA MirrorType ==
    ASSUME NEW m \in Messages, TypeOK, Mirror(m)
    PROVE  status' \in {"I", "T", "E"} /\ tag' \in Tags \cup Kinds \cup {""}
<1>1. CASE m = <<"E", "">>
  BY <1>1 DEF Mirror, TypeOK
<1>2. ASSUME NEW t \in Tags, m = <<"C", t>>
      PROVE  status' \in {"I", "T", "E"} /\ tag' \in Tags \cup Kinds \cup {""}
  BY <1>2 DEF Mirror, TypeOK
<1>3. ASSUME NEW s \in {"I", "T", "E"}, m = <<"Z", s>>
      PROVE  status' \in {"I", "T", "E"} /\ tag' \in Tags \cup Kinds \cup {""}
  BY <1>3 DEF Mirror, TypeOK
<1> QED BY <1>1, <1>2, <1>3, MessageForms

LEMMA TypeStep == TypeOK /\ [Next]_vars => TypeOK'
<1> SUFFICES ASSUME TypeOK, [Next]_vars PROVE TypeOK'
  OBVIOUS
<1> USE DEF serverVars, mirrorVars, listenVars, referenceVars
<1>0. /\ <<>> \in Seq(Statements) /\ <<>> \in Seq(Messages) /\ <<>> \in Seq(Commands)
      /\ \A q \in Seq(Statements) : q # <<>> => Head(q) \in Statements /\ Tail(q) \in Seq(Statements)
      /\ \A q \in Seq(Messages) : q # <<>> => Head(q) \in Messages /\ Tail(q) \in Seq(Messages)
      /\ \A q \in Seq(Commands) : q # <<>> => Head(q) \in Commands /\ Tail(q) \in Seq(Commands)
      /\ \A q \in Seq(Commands) : \A cmd \in Commands : Append(q, cmd) \in Seq(Commands)
      /\ \A q \in Seq(Messages) : \A m \in Messages : Append(q, m) \in Seq(Messages)
  OBVIOUS
<1>1. CASE \E string \in Strings : ExecuteQuery(string)
  BY <1>1, DeferredAssumption DEF ExecuteQuery, TypeOK
<1>2. CASE SendFails
  BY <1>2 DEF SendFails, TypeOK
<1>3. CASE Execute
  <2>1. PICK answer \in Answers(Head(rest)) : 
          LET after == StatusAfter(Head(rest), answer)
              last == answer[1] = "E" \/ Tail(rest) = <<>>
          IN  /\ tx' = after
              /\ rest' = IF last THEN <<>> ELSE Tail(rest)
              /\ wire' = IF last THEN Append(Append(wire, answer), <<"Z", after>>)
                         ELSE Append(wire, answer)
              /\ want' = IF tx = "T" /\ answer[2] = "COMMIT" THEN draft ELSE want
              /\ draft' = IF tx = "I" /\ answer[2] = "BEGIN" THEN want ELSE draft
    BY <1>3 DEF Execute
  <2>2. Head(rest) \in Statements /\ Tail(rest) \in Seq(Statements)
    BY <1>3, <1>0 DEF Execute, TypeOK
  <2>3. answer \in Messages /\ StatusAfter(Head(rest), answer) \in {"I", "T", "E"}
    BY <2>2, AnswersType DEF TypeOK
  <2>4. wire' \in Seq(Messages)
    <3>1. <<"Z", StatusAfter(Head(rest), answer)>> \in Messages
      BY <2>3 DEF Messages
    <3> QED BY <2>1, <2>3, <3>1, <1>0 DEF TypeOK
  <2>5. tx' \in {"I", "T", "E"} /\ rest' \in Seq(Statements)
    BY <2>1, <2>2, <2>3, <1>0
  <2>6. want' \subseteq Channels /\ draft' \subseteq Channels
    BY <2>1 DEF TypeOK
  <2> QED BY <1>3, <2>4, <2>5, <2>6 DEF Execute, TypeOK
<1>4. CASE Forward
  <2>1. Head(wire) \in Messages /\ wire' \in Seq(Messages)
    BY <1>4, <1>0 DEF Forward, TypeOK
  <2>2. status' \in {"I", "T", "E"} /\ tag' \in Tags \cup Kinds \cup {""}
    BY <1>4, <2>1, MirrorType DEF Forward
  <2>3. /\ pc' \in {"ready", "reply", "resolve"} /\ pending' \in Seq(Commands)
        /\ pc' = "resolve" => pending' # <<>>
    BY <1>4, <1>0 DEF Forward, ResolvePendingListens, TypeOK
  <2> QED BY <1>4, <2>1, <2>2, <2>3 DEF Forward, TypeOK
<1>5. CASE ApplyPending
  <2>1. Head(pending) \in Commands /\ pending' \in Seq(Commands)
    BY <1>5, <1>0 DEF ApplyPending, TypeOK
  <2>2. channels' \subseteq Channels
    <3>1. Applied(channels, Head(pending)) \subseteq Channels
      BY <2>1, AppliedType DEF TypeOK
    <3> QED BY <1>5, <3>1 DEF ApplyPending, TypeOK
  <2> QED BY <1>5, <2>1, <2>2 DEF ApplyPending, TypeOK
<1>6. CASE NewSession
  BY <1>6, <1>0 DEF NewSession, TypeOK
<1>7. ASSUME NEW cmd \in Commands, Intercept(cmd) PROVE TypeOK'
  BY <1>7 DEF Intercept, TypeOK
<1>8. ASSUME NEW cmd \in Commands, BufferListen(cmd) \/ ApplyListen(cmd) PROVE TypeOK'
  <2>1. want' \subseteq Channels /\ draft' \subseteq Channels
    BY <1>8, AppliedType DEF BufferListen, ApplyListen, Reference, TypeOK
  <2>2. cmd[1] \in Kinds
    BY CommandForms DEF Kinds
  <2>3. channels' \subseteq Channels
    <3>1. Applied(channels, cmd) \subseteq Channels
      BY AppliedType DEF TypeOK
    <3> QED BY <1>8, <3>1 DEF BufferListen, ApplyListen, TypeOK
  <2>4. pending' \in Seq(Commands) /\ tag' \in Tags \cup Kinds \cup {""}
    BY <1>8, <1>0, <2>2 DEF BufferListen, ApplyListen, TypeOK
  <2> QED BY <1>8, <2>1, <2>3, <2>4 DEF BufferListen, ApplyListen, Arrives, TypeOK
<1>9. ASSUME NEW cmd \in Commands, ListenFails(cmd) PROVE TypeOK'
  BY <1>9 DEF ListenFails, Arrives, TypeOK
<1>10. CASE UNCHANGED vars
  BY <1>10 DEF vars, TypeOK
<1> QED BY <1>1, <1>2, <1>3, <1>4, <1>5, <1>6, <1>7, <1>8, <1>9, <1>10 DEF Next

----------------------------------------------------------------------------
(* What a buffer stands for. *)

LEMMA EffectNone ==
    ASSUME NEW set \in SUBSET Channels
    PROVE  Effect(set, <<>>) = set
BY DEF Effect, Spared

\* The channel is subscribed to after the command.
LEMMA AppliedHas ==
    ASSUME NEW set \in SUBSET Channels, NEW cmd \in Commands, NEW ch \in Channels
    PROVE  ch \in Applied(set, cmd) <=> cmd = <<"listen", ch>> \/ (ch \in set /\ ~Cancels(cmd, ch))
<1>1. "*" \notin Channels
  BY DeferredAssumption
<1>2. ASSUME NEW x \in Channels, cmd = <<"listen", x>>
      PROVE  ch \in Applied(set, cmd) <=> cmd = <<"listen", ch>> \/ (ch \in set /\ ~Cancels(cmd, ch))
  BY <1>2 DEF Applied, Cancels
<1>3. ASSUME NEW x \in Channels \cup {"*"}, cmd = <<"unlisten", x>>
      PROVE  ch \in Applied(set, cmd) <=> cmd = <<"listen", ch>> \/ (ch \in set /\ ~Cancels(cmd, ch))
  <2>1. cmd # <<"listen", ch>> /\ cmd[1] = "unlisten" /\ cmd[2] = x
    BY <1>3
  <2>2. Cancels(cmd, ch) <=> x \in {ch, "*"}
    BY <2>1 DEF Cancels
  <2> QED BY <1>1, <2>1, <2>2 DEF Applied
<1> QED BY <1>2, <1>3, CommandForms

\* A command that is buffered after the others is applied after them.
LEMMA EffectAppend ==
    ASSUME NEW set \in SUBSET Channels, NEW cmds \in Seq(Commands), NEW cmd \in Commands
    PROVE  Effect(set, Append(cmds, cmd)) = Applied(Effect(set, cmds), cmd)
<1> DEFINE more == Append(cmds, cmd)
           n == Len(cmds)
<1>1. /\ n \in Nat /\ Len(more) = n + 1 /\ more[n + 1] = cmd
      /\ \A i \in 1..n : more[i] = cmds[i]
  OBVIOUS
<1> HIDE DEF more, n
<1>2. ASSUME NEW ch \in Channels
      PROVE  ch \in Effect(set, more) <=> ch \in Applied(Effect(set, cmds), cmd)
  <2>1. ASSUME NEW i \in 1..(n + 1)
        PROVE  Spared(more, i, ch) <=> Spared(cmds, i, ch) /\ ~Cancels(cmd, ch)
    BY <1>1 DEF Spared, n
  <2>2. Spared(more, n + 2, ch)
    BY <1>1 DEF Spared
  <2>3. (\E i \in 1..(n + 1) : more[i] = <<"listen", ch>> /\ Spared(more, i + 1, ch))
        <=> \/ cmd = <<"listen", ch>>
            \/ /\ \E i \in 1..n : cmds[i] = <<"listen", ch>> /\ Spared(cmds, i + 1, ch)
               /\ ~Cancels(cmd, ch)
    <3>1. ASSUME NEW i \in 1..n
          PROVE  more[i] = cmds[i] /\ (Spared(more, i + 1, ch) <=> Spared(cmds, i + 1, ch) /\ ~Cancels(cmd, ch))
      BY <1>1, <2>1
    <3>2. more[n + 1] = cmd /\ Spared(more, (n + 1) + 1, ch)
      BY <1>1, <2>2
    <3>3. \A i : i \in 1..(n + 1) <=> i \in 1..n \/ i = n + 1
      BY <1>1
    <3> HIDE DEF more, n
    <3> QED BY <3>1, <3>2, <3>3, Zenon
  <2>4. ch \in Effect(set, more) <=>
           \/ \E i \in 1..(n + 1) : more[i] = <<"listen", ch>> /\ Spared(more, i + 1, ch)
           \/ ch \in set /\ Spared(more, 1, ch)
    BY <1>1 DEF Effect
  <2>5. ch \in Effect(set, cmds) <=>
           \/ \E i \in 1..n : cmds[i] = <<"listen", ch>> /\ Spared(cmds, i + 1, ch)
           \/ ch \in set /\ Spared(cmds, 1, ch)
    BY DEF Effect, n
  <2>6. Effect(set, cmds) \in SUBSET Channels
    BY DEF Effect
  <2>7. ch \in Applied(Effect(set, cmds), cmd)
        <=> cmd = <<"listen", ch>> \/ (ch \in Effect(set, cmds) /\ ~Cancels(cmd, ch))
    BY <2>6, AppliedHas
  <2>8. Spared(more, 1, ch) <=> Spared(cmds, 1, ch) /\ ~Cancels(cmd, ch)
    BY <1>1, <2>1
  <2> QED BY <2>3, <2>4, <2>5, <2>7, <2>8
<1>3. Effect(set, cmds) \subseteq Channels /\ Effect(set, more) \subseteq Channels
  BY DEF Effect
<1>4. Applied(Effect(set, cmds), cmd) \subseteq Channels
  BY <1>3, AppliedType
<1>5. Effect(set, more) = Applied(Effect(set, cmds), cmd)
  BY <1>2, <1>3, <1>4
<1> QED BY <1>5 DEF more

\* Applying the first command leaves what the others stand for.
LEMMA EffectHead ==
    ASSUME NEW set \in SUBSET Channels, NEW cmds \in Seq(Commands), cmds # <<>>
    PROVE  Effect(set, cmds) = Effect(Applied(set, Head(cmds)), Tail(cmds))
<1> DEFINE less == Tail(cmds)
           cmd == Head(cmds)
           n == Len(less)
<1>1. /\ n \in Nat /\ Len(cmds) = n + 1 /\ cmds[1] = cmd /\ cmd \in Commands
      /\ \A i \in 1..n : less[i] = cmds[i + 1]
  OBVIOUS
<1> HIDE DEF less, cmd, n
<1>2. ASSUME NEW ch \in Channels
      PROVE  ch \in Effect(set, cmds) <=> ch \in Effect(Applied(set, cmd), less)
  <2>1. ASSUME NEW i \in 1..(n + 1)
        PROVE  Spared(cmds, i + 1, ch) <=> Spared(less, i, ch)
    <3>1. ASSUME Spared(cmds, i + 1, ch), NEW j \in i..Len(less) PROVE ~Cancels(less[j], ch)
      <4>1. j + 1 \in (i + 1)..Len(cmds) /\ less[j] = cmds[j + 1]
        BY <1>1 DEF n
      <4> QED BY <3>1, <4>1 DEF Spared
    <3>2. ASSUME Spared(less, i, ch), NEW j \in (i + 1)..Len(cmds) PROVE ~Cancels(cmds[j], ch)
      <4>1. j - 1 \in i..Len(less) /\ less[j - 1] = cmds[(j - 1) + 1] /\ (j - 1) + 1 = j
        BY <1>1 DEF n
      <4> QED BY <3>2, <4>1 DEF Spared
    <3> QED BY <3>1, <3>2 DEF Spared
  <2>2. Spared(cmds, 1, ch) <=> Spared(less, 1, ch) /\ ~Cancels(cmd, ch)
    <3>1. Spared(cmds, 1, ch) <=> Spared(cmds, 1 + 1, ch) /\ ~Cancels(cmd, ch)
      BY <1>1 DEF Spared
    <3>2. Spared(cmds, 1 + 1, ch) <=> Spared(less, 1, ch)
      BY <1>1, <2>1
    <3> QED BY <3>1, <3>2
  <2>3. (\E i \in 1..(n + 1) : cmds[i] = <<"listen", ch>> /\ Spared(cmds, i + 1, ch))
        <=> \/ cmd = <<"listen", ch>> /\ Spared(less, 1, ch)
            \/ \E i \in 1..n : less[i] = <<"listen", ch>> /\ Spared(less, i + 1, ch)
    <3>1. ASSUME NEW i \in 1..(n + 1), cmds[i] = <<"listen", ch>>, Spared(cmds, i + 1, ch)
          PROVE  \/ cmd = <<"listen", ch>> /\ Spared(less, 1, ch)
                 \/ \E k \in 1..n : less[k] = <<"listen", ch>> /\ Spared(less, k + 1, ch)
      <4>1. CASE i = 1
        BY <1>1, <2>1, <3>1, <4>1
      <4>2. CASE i # 1
        <5>1. PICK k \in 1..n : k + 1 = i
          <6>1. i - 1 \in 1..n /\ (i - 1) + 1 = i
            BY <1>1, <4>2
          <6> QED BY <6>1
        <5>2. less[k] = <<"listen", ch>> /\ Spared(less, k + 1, ch)
          BY <1>1, <2>1, <3>1, <5>1
        <5> QED BY <5>2
      <4> QED BY <4>1, <4>2
    <3>2. ASSUME cmd = <<"listen", ch>>, Spared(less, 1, ch)
          PROVE  \E i \in 1..(n + 1) : cmds[i] = <<"listen", ch>> /\ Spared(cmds, i + 1, ch)
      <4>1. 1 \in 1..(n + 1) /\ cmds[1] = <<"listen", ch>> /\ Spared(cmds, 1 + 1, ch)
        BY <1>1, <2>1, <3>2
      <4> QED BY <4>1
    <3>3. ASSUME NEW k \in 1..n, less[k] = <<"listen", ch>>, Spared(less, k + 1, ch)
          PROVE  \E i \in 1..(n + 1) : cmds[i] = <<"listen", ch>> /\ Spared(cmds, i + 1, ch)
      <4>1. k + 1 \in 1..(n + 1) /\ cmds[k + 1] = <<"listen", ch>>
        BY <1>1, <3>3
      <4>2. Spared(cmds, (k + 1) + 1, ch)
        BY <2>1, <3>3, <4>1
      <4> QED BY <4>1, <4>2
    <3> QED BY <3>1, <3>2, <3>3
  <2>4. ch \in Effect(set, cmds) <=>
           \/ \E i \in 1..(n + 1) : cmds[i] = <<"listen", ch>> /\ Spared(cmds, i + 1, ch)
           \/ ch \in set /\ Spared(cmds, 1, ch)
    BY <1>1 DEF Effect
  <2>5. ch \in Effect(Applied(set, cmd), less) <=>
           \/ \E i \in 1..n : less[i] = <<"listen", ch>> /\ Spared(less, i + 1, ch)
           \/ ch \in Applied(set, cmd) /\ Spared(less, 1, ch)
    BY DEF Effect, n
  <2>6. ch \in Applied(set, cmd) <=> cmd = <<"listen", ch>> \/ (ch \in set /\ ~Cancels(cmd, ch))
    BY <1>1, AppliedHas
  <2> QED BY <2>2, <2>3, <2>4, <2>5, <2>6
<1>3. Effect(set, cmds) \subseteq Channels /\ Effect(Applied(set, cmd), less) \subseteq Channels
  BY DEF Effect
<1>4. Effect(set, cmds) = Effect(Applied(set, cmd), less)
  BY <1>2, <1>3
<1> QED BY <1>4 DEF cmd, less

\* More channels before a command, or before several, are more channels after it.
LEMMA AppliedMore ==
    ASSUME NEW set \in SUBSET Channels, NEW more \in SUBSET Channels, set \subseteq more,
           NEW cmd \in Commands
    PROVE  Applied(set, cmd) \subseteq Applied(more, cmd)
BY DEF Applied

LEMMA EffectMore ==
    ASSUME NEW set \in SUBSET Channels, NEW more \in SUBSET Channels, set \subseteq more,
           NEW cmds
    PROVE  Effect(set, cmds) \subseteq Effect(more, cmds)
BY DEF Effect

LEMMA EffectType ==
    ASSUME NEW set, NEW cmds
    PROVE  Effect(set, cmds) \in SUBSET Channels
BY DEF Effect

----------------------------------------------------------------------------
(* The messages on the wire. *)

LEMMA ExecuteWire ==
    ASSUME TypeOK, WireInv, Execute
    PROVE  WireInv'
<1> DEFINE stmt == Head(rest)
<1>1. PICK answer \in Answers(stmt) :
        LET after == StatusAfter(stmt, answer)
            last == answer[1] = "E" \/ Tail(rest) = <<>>
        IN  /\ tx' = after
            /\ rest' = IF last THEN <<>> ELSE Tail(rest)
            /\ wire' = IF last THEN Append(Append(wire, answer), <<"Z", after>>)
                       ELSE Append(wire, answer)
  BY DEF Execute
<1> DEFINE last == answer[1] = "E" \/ Tail(rest) = <<>>
<1>2. pc = "reply" /\ pc' = "reply" /\ rest # <<>>
  BY DEF Execute
<1>3. stmt \in Statements /\ tx \in {"I", "T", "E"} /\ wire \in Seq(Messages)
  <2>1. rest \in Seq(Statements)
    BY DEF TypeOK
  <2>2. stmt \in Statements
    BY <1>2, <2>1
  <2> QED BY <2>2 DEF TypeOK
<1>4. answer \in Messages /\ answer[1] # "Z" /\ tx' \in {"I", "T", "E"}
  BY <1>1, <1>3, AnswersType
<1>5. <<"Z", tx'>> \in Messages
  BY <1>4 DEF Messages
<1>6. Len(wire) \in Nat /\ \A i \in 1..Len(wire) : wire[i][1] # "Z"
  BY <1>2, <1>3 DEF WireInv, WireShape
<1>7. CASE last
  <2>1. /\ rest' = <<>> /\ Len(wire') = Len(wire) + 2
        /\ wire'[Len(wire) + 1] = answer /\ wire'[Len(wire) + 2] = <<"Z", tx'>>
        /\ \A i \in 1..Len(wire) : wire'[i] = wire[i]
    <3>1. rest' = <<>> /\ wire' = Append(Append(wire, answer), <<"Z", tx'>>)
      BY <1>1, <1>7
    <3> QED BY <1>3, <1>4, <1>5, <3>1
  <2>2. ASSUME NEW i \in 1..Len(wire'), wire'[i][1] = "Z" PROVE i = Len(wire')
    <3>1. i \in 1..Len(wire) \/ i = Len(wire) + 1 \/ i = Len(wire) + 2
      BY <1>6, <2>1
    <3> QED BY <1>4, <1>6, <2>1, <2>2, <3>1
  <2>3. wire' # <<>>
    BY <1>6, <2>1
  <2> QED BY <1>2, <2>1, <2>2, <2>3 DEF WireInv, WireShape
<1>8. CASE ~last
  <2>1. /\ rest' # <<>> /\ Len(wire') = Len(wire) + 1
        /\ wire'[Len(wire) + 1] = answer
        /\ \A i \in 1..Len(wire) : wire'[i] = wire[i]
    BY <1>1, <1>3, <1>4, <1>8
  <2>2. ASSUME NEW i \in 1..Len(wire') PROVE wire'[i][1] # "Z"
    <3>1. i \in 1..Len(wire) \/ i = Len(wire) + 1
      BY <1>6, <2>1
    <3> QED BY <1>4, <1>6, <2>1, <3>1
  <2> QED BY <1>2, <2>1, <2>2 DEF WireInv, WireShape
<1> QED BY <1>7, <1>8

\* A ReadyForQuery is the last message of its reply.
LEMMA LastMessage ==
    ASSUME TypeOK, WireInv, Forward
    PROVE  /\ Head(wire) = wire[1] /\ Head(wire) \in Messages
           /\ Head(wire)[1] = "Z" => /\ Len(wire) = 1 /\ rest = <<>> /\ Head(wire) = <<"Z", tx>>
                                     /\ wire' = <<>> /\ status' = tx /\ tag' = tag
           /\ Head(wire)[1] # "Z" /\ rest = <<>> => Len(wire) >= 2 /\ wire[Len(wire)] = <<"Z", tx>>
<1> DEFINE m == Head(wire)
           n == Len(wire)
<1>1. pc = "reply" /\ wire # <<>> /\ wire' = Tail(wire) /\ Mirror(m) /\ WireShape
  BY DEF Forward, WireInv
<1>2. wire \in Seq(Messages)
  BY DEF TypeOK
<1>3. n \in Nat \ {0} /\ m = wire[1] /\ m \in Messages
  BY <1>1, <1>2
<1> HIDE DEF m, n
<1>4. ASSUME m[1] = "Z"
      PROVE  n = 1 /\ rest = <<>> /\ m = <<"Z", tx>> /\ wire' = <<>> /\ status' = tx /\ tag' = tag
  <2>1. n = 1 /\ rest = <<>> /\ m = <<"Z", tx>>
    <3>1. 1 \in 1..Len(wire) /\ wire[1][1] = "Z"
      BY <1>3, <1>4 DEF n
    <3>2. n = 1 /\ rest = <<>>
      BY <1>1, <3>1 DEF WireShape, n
    <3> QED BY <1>1, <1>3, <3>2 DEF WireShape, n
  <2>2. wire' = <<>>
    BY <1>1, <1>2, <2>1 DEF n
  <2>3. m[1] = "Z" /\ m[2] = tx
    BY <2>1
  <2> QED BY <1>1, <2>1, <2>2, <2>3 DEF Mirror
<1>5. ASSUME m[1] # "Z", rest = <<>> PROVE n >= 2 /\ wire[n] = <<"Z", tx>>
  <2>1. wire[n] = <<"Z", tx>>
    BY <1>1, <1>5 DEF WireShape, n
  <2>2. n # 1
    <3>1. ASSUME n = 1 PROVE m = <<"Z", tx>>
      BY <1>3, <2>1, <3>1
    <3> QED BY <1>5, <3>1
  <2> QED BY <1>3, <2>1, <2>2
<1> QED BY <1>3, <1>4, <1>5 DEF m, n

LEMMA ForwardWire ==
    ASSUME TypeOK, WireInv, Forward
    PROVE  WireInv'
<1> DEFINE m == Head(wire)
           n == Len(wire)
<1>1. /\ pc = "reply" /\ wire # <<>> /\ wire' = Tail(wire) /\ tx' = tx /\ rest' = rest
      /\ WireShape
  BY DEF Forward, WireInv
<1>2. wire \in Seq(Messages)
  BY DEF TypeOK
<1>3. n \in Nat \ {0} /\ Len(wire') = n - 1 /\ \A i \in 1..(n - 1) : wire'[i] = wire[i + 1]
  BY <1>1, <1>2
<1>4. CASE m[1] = "Z"
  <2>1. rest = <<>> /\ m = <<"Z", tx>> /\ wire' = <<>> /\ status' = tx
    BY <1>4, LastMessage
  <2>2. CASE tx = "I"
    <3>1. pc' \in {"ready", "resolve"}
      BY <2>1, <2>2 DEF Forward, ResolvePendingListens
    <3> QED BY <1>1, <2>1, <2>2, <3>1 DEF WireInv
  <2>3. CASE tx # "I"
    <3>1. m # <<"Z", "I">>
      BY <2>1, <2>3
    <3>2. pc' = "ready"
      BY <1>4, <3>1 DEF Forward
    <3> QED BY <1>1, <2>1, <3>2 DEF WireInv
  <2> QED BY <2>2, <2>3
<1>5. CASE m[1] # "Z"
  <2>1. pc' = "reply"
    <3>1. m # <<"Z", "I">>
      BY <1>5
    <3> QED BY <1>5, <3>1 DEF Forward
  <2>2. rest = <<>> => n >= 2 /\ wire[n] = <<"Z", tx>>
    BY <1>5, LastMessage
  <2> HIDE DEF m, n
  <2>3. ASSUME NEW i \in 1..Len(wire'), wire'[i][1] = "Z"
        PROVE  rest' = <<>> /\ i = Len(wire')
    <3>1. i + 1 \in 1..n /\ wire'[i] = wire[i + 1]
      BY <1>3
    <3>2. rest = <<>> /\ i + 1 = n
      BY <1>1, <2>3, <3>1 DEF WireShape, n
    <3> QED BY <1>1, <1>3, <3>2
  <2>4. ASSUME rest' = <<>> PROVE wire' # <<>> /\ wire'[Len(wire')] = <<"Z", tx'>>
    <3>1. n >= 2 /\ wire[n] = <<"Z", tx>>
      BY <1>1, <2>2, <2>4
    <3>2. n - 1 \in 1..(n - 1) /\ (n - 1) + 1 = n
      BY <1>3, <3>1
    <3>3. wire'[n - 1] = wire[n]
      BY <1>3, <3>2
    <3> QED BY <1>1, <1>3, <3>1, <3>3
  <2> QED BY <2>1, <2>3, <2>4 DEF WireInv, WireShape
<1> QED BY <1>4, <1>5

LEMMA WireStep ==
    ASSUME TypeOK, WireInv, [Next]_vars
    PROVE  WireInv'
<1> USE DEF serverVars, mirrorVars, listenVars, referenceVars
<1>1. ASSUME NEW string \in Strings, ExecuteQuery(string) PROVE WireInv'
  <2>1. pc' = "reply" /\ rest' = string /\ wire' = <<>>
    BY <1>1 DEF ExecuteQuery, WireInv
  <2>2. rest' # <<>> /\ Len(wire') = 0
    BY <1>1, <2>1, DeferredAssumption
  <2> QED BY <2>1, <2>2 DEF WireInv, WireShape
<1>2. CASE SendFails
  BY <1>2 DEF SendFails, WireInv
<1>3. CASE ApplyPending
  BY <1>3 DEF ApplyPending, WireInv
<1>4. CASE NewSession
  BY <1>4 DEF NewSession, WireInv
<1>5. ASSUME NEW cmd \in Commands,
             Intercept(cmd) \/ BufferListen(cmd) \/ ApplyListen(cmd) \/ ListenFails(cmd)
      PROVE  WireInv'
  BY <1>5 DEF Intercept, BufferListen, ApplyListen, ListenFails, Arrives, WireInv
<1>6. CASE UNCHANGED vars
  BY <1>6 DEF vars, WireInv, WireShape
<1> QED BY <1>1, <1>2, <1>3, <1>4, <1>5, <1>6, ExecuteWire, ForwardWire DEF Next

----------------------------------------------------------------------------
(* The invariant is inductive. *)

\* What a statement that does not end a transaction does to the session.
LEMMA InsideAnswers ==
    ASSUME tx \in {"I", "T", "E"}, NEW stmt \in Statements, stmt \notin {"commit", "rollback"},
           NEW answer \in Answers(stmt)
    PROVE  /\ answer \in {<<"C", "BEGIN">>, <<"C", "SELECT 1">>, <<"E", "">>}
           /\ StatusAfter(stmt, answer) = "I" => tx = "I"
           /\ StatusAfter(stmt, answer) = "T" => \/ tx = "T"
                                                 \/ tx = "I" /\ answer = <<"C", "BEGIN">>
<1>1. answer \in {<<"C", "BEGIN">>, <<"C", "SELECT 1">>, <<"E", "">>}
  BY DEF Answers, Statements
<1>2. StatusAfter(stmt, answer) = "I" => tx = "I"
  BY DEF StatusAfter
<1>3. ASSUME StatusAfter(stmt, answer) = "T", tx # "T"
      PROVE  tx = "I" /\ answer = <<"C", "BEGIN">>
  <2>1. stmt = "begin" /\ tx # "E"
    BY <1>3 DEF StatusAfter, Statements
  <2> QED BY <1>3, <2>1 DEF Answers
<1> QED BY <1>1, <1>2, <1>3

\* What a statement that ends a transaction does to it.
LEMMA EndAnswers ==
    ASSUME tx \in {"I", "T", "E"}, NEW stmt \in {"commit", "rollback"},
           NEW answer \in Answers(stmt)
    PROVE  /\ StatusAfter(stmt, answer) = "I"
           /\ answer \in {<<"C", "COMMIT">>, <<"C", "ROLLBACK">>, <<"E", "">>}
           /\ answer = <<"C", "COMMIT">> => tx \in {"I", "T"}
<1>1. StatusAfter(stmt, answer) = "I"
  BY DEF StatusAfter
<1>2. CASE stmt = "rollback" \/ (stmt = "commit" /\ tx = "E")
  <2>1. answer = <<"C", "ROLLBACK">>
    BY <1>2 DEF Answers
  <2> QED BY <1>1, <2>1
<1>3. CASE stmt = "commit" /\ tx # "E"
  <2>1. answer \in {<<"C", "COMMIT">>, <<"E", "">>}
    BY <1>3 DEF Answers
  <2> QED BY <1>1, <1>3, <2>1
<1> QED BY <1>2, <1>3

LEMMA ExecuteStep ==
    ASSUME TypeOK, WireInv, ListenInv, Execute
    PROVE  ListenInv'
<1> DEFINE stmt == Head(rest)
<1>1. PICK answer \in Answers(stmt) :
        LET after == StatusAfter(stmt, answer)
            last == answer[1] = "E" \/ Tail(rest) = <<>>
        IN  /\ tx' = after
            /\ rest' = IF last THEN <<>> ELSE Tail(rest)
            /\ wire' = IF last THEN Append(Append(wire, answer), <<"Z", after>>)
                       ELSE Append(wire, answer)
            /\ want' = IF tx = "T" /\ answer[2] = "COMMIT" THEN draft ELSE want
            /\ draft' = IF tx = "I" /\ answer[2] = "BEGIN" THEN want ELSE draft
  BY DEF Execute
<1> DEFINE last == answer[1] = "E" \/ Tail(rest) = <<>>
<1>2. /\ pc = "reply" /\ pc' = "reply" /\ rest # <<>>
      /\ tag' = tag /\ pending' = pending /\ channels' = channels
  BY DEF Execute, mirrorVars, listenVars
<1>3. /\ rest \in Seq(Statements) /\ stmt \in Statements /\ Tail(rest) \in Seq(Statements)
      /\ tx \in {"I", "T", "E"} /\ wire \in Seq(Messages) /\ channels \in SUBSET Channels
  <2>1. rest \in Seq(Statements)
    BY DEF TypeOK
  <2>2. stmt \in Statements /\ Tail(rest) \in Seq(Statements)
    BY <1>2, <2>1
  <2> QED BY <2>1, <2>2 DEF TypeOK
<1>4. Replying /\ Working
  BY <1>2 DEF ListenInv, Replying
<1>5. answer \in Messages /\ answer[1] # "Z" /\ tx' \in {"I", "T", "E"}
  BY <1>1, <1>3, AnswersType
<1>6. <<"Z", tx'>> \in Messages
  BY <1>5 DEF Messages
<1>7. ASSUME last
      PROVE  /\ rest' = <<>> /\ Len(wire') = Len(wire) + 2
             /\ wire'[Len(wire) + 1] = answer /\ wire'[Len(wire) + 2] = <<"Z", tx'>>
             /\ \A i \in 1..Len(wire) : wire'[i] = wire[i]
  <2>1. rest' = <<>> /\ wire' = Append(Append(wire, answer), <<"Z", tx'>>)
    BY <1>1, <1>7
  <2> QED BY <1>3, <1>5, <1>6, <2>1
<1>8. ASSUME ~last
      PROVE  /\ rest' = Tail(rest) /\ rest' # <<>> /\ Len(wire') = Len(wire) + 1
             /\ wire'[Len(wire) + 1] = answer
             /\ \A i \in 1..Len(wire) : wire'[i] = wire[i]
             /\ stmt \notin {"commit", "rollback"}
  <2>1. Len(rest) - 1 >= 1 /\ rest[1] = stmt
    BY <1>3, <1>2, <1>8
  <2>2. stmt \notin {"commit", "rollback"}
    BY <1>3, <1>4, <2>1 DEF Replying
  <2> QED BY <1>1, <1>3, <1>5, <1>8, <2>2
<1> DEFINE Committing == answer = <<"C", "COMMIT">>
<1>9. ASSUME ~Committing, Uncommitted PROVE Uncommitted'
  <2>1. ASSUME NEW i \in 1..Len(wire') PROVE wire'[i] # <<"C", "COMMIT">>
    <3>0. <<"Z", tx'>> # <<"C", "COMMIT">> /\ Len(wire) \in Nat
      BY <1>3
    <3>1. CASE last
      <4>1. i \in 1..Len(wire) \/ i = Len(wire) + 1 \/ i = Len(wire) + 2
        BY <1>7, <3>0, <3>1
      <4> QED BY <1>7, <1>9, <3>0, <3>1, <4>1 DEF Uncommitted
    <3>2. CASE ~last
      <4>1. i \in 1..Len(wire) \/ i = Len(wire) + 1
        BY <1>8, <3>0, <3>2
      <4> QED BY <1>8, <1>9, <3>2, <4>1 DEF Uncommitted
    <3> QED BY <3>1, <3>2
  <2> QED BY <1>2, <1>9, <2>1 DEF Uncommitted
<1>m. ~Committing => answer[2] # "COMMIT"
  <2>1. answer = <<"E", "">> \/ \E t \in Tags : answer = <<"C", t>>
    BY <1>1, <1>3, AnswersType
  <2>2. CASE answer = <<"E", "">>
    BY <2>2
  <2>3. ASSUME NEW t \in Tags, answer = <<"C", t>>, answer[2] = "COMMIT" PROVE Committing
    BY <2>3
  <2> QED BY <2>1, <2>2, <2>3
<1> HIDE DEF stmt, last
<1>w. \A i \in 1..(Len(rest') - 1) : rest'[i] \notin {"commit", "rollback"}
  <2>1. CASE last
    BY <1>7, <2>1
  <2>2. CASE ~last
    <3>1. ASSUME NEW i \in 1..(Len(rest') - 1) PROVE rest'[i] \notin {"commit", "rollback"}
      <4>1. i + 1 \in 1..(Len(rest) - 1) /\ rest'[i] = rest[i + 1]
        <5>1. /\ Len(Tail(rest)) = Len(rest) - 1
              /\ \A k \in 1..(Len(rest) - 1) : Tail(rest)[k] = rest[k + 1]
          BY <1>2, <1>3
        <5>2. Len(rest) \in Nat /\ rest' = Tail(rest)
          BY <1>3, <1>8, <2>2
        <5> QED BY <5>1, <5>2
      <4> QED BY <1>4, <4>1 DEF Replying
    <3> QED BY <3>1
  <2> QED BY <2>1, <2>2
<1>10. CASE stmt \notin {"commit", "rollback"}
  <2>1. /\ answer \in {<<"C", "BEGIN">>, <<"C", "SELECT 1">>, <<"E", "">>}
        /\ tx' = "I" => tx = "I"
        /\ tx' = "T" => tx = "T" \/ (tx = "I" /\ answer = <<"C", "BEGIN">>)
    BY <1>1, <1>3, <1>10, InsideAnswers
  <2>2. ~Committing
    <3>1. /\ <<"C", "BEGIN">> # <<"C", "COMMIT">> /\ <<"C", "SELECT 1">> # <<"C", "COMMIT">>
          /\ <<"E", "">> # <<"C", "COMMIT">>
      OBVIOUS
    <3> QED BY <2>1, <3>1, Zenon
  <2>c. want' = want
    BY <1>1, <1>m, <2>2
  <2>3. tx = "T" => draft' = draft
    BY <1>1
  <2>4. ASSUME tx = "I", answer = <<"C", "BEGIN">> PROVE draft' = want
    BY <1>1, <2>4
  <2>5. tx' = "T" => Agrees(Effect(channels, pending), draft')
    BY <1>3, <1>4, <2>1, <2>3, <2>4, EffectNone DEF Working
  <2>6. Working'
    BY <1>2, <1>4, <1>9, <2>1, <2>2, <2>c, <2>5 DEF Working, Agrees
  <2>7. tx' = "I" => Ended'
    BY <2>6 DEF Working, Ended
  <2> QED BY <2>6, <2>7, <1>2, <1>w DEF ListenInv, Replying
<1>11. CASE stmt \in {"commit", "rollback"}
  <2>1. /\ tx' = "I"
        /\ answer \in {<<"C", "COMMIT">>, <<"C", "ROLLBACK">>, <<"E", "">>}
        /\ answer = <<"C", "COMMIT">> => tx \in {"I", "T"}
    BY <1>1, <1>3, <1>11, EndAnswers
  <2>2. last
    BY <1>8, <1>11
  <2>3. CASE ~Committing
    <3>1. want' = want
      BY <1>1, <1>m, <2>3
    <3>2. Ended'
      BY <1>2, <1>4, <1>9, <2>3, <3>1 DEF Working, Ended, Agrees
    <3> QED BY <3>2, <2>1, <2>2, <1>2, <1>7, <1>w DEF ListenInv, Replying
  <2>4. CASE Committing
    <3>1. CommitAhead'
      BY <1>3, <1>7, <2>2, <2>4 DEF CommitAhead
    <3>2. Agrees(Effect(channels, pending), want')
      <4>1. CASE tx = "T"
        <5>1. want' = draft
          BY <1>1, <2>4, <4>1
        <5> QED BY <1>4, <4>1, <5>1 DEF Working
      <4>2. CASE tx = "I"
        <5>1. want' = want
          BY <1>1, <4>2
        <5> QED BY <1>3, <1>4, <4>2, <5>1, EffectNone DEF Working
      <4> QED BY <2>1, <2>4, <4>1, <4>2
    <3>3. Ended'
      BY <1>2, <3>1, <3>2 DEF Ended, Agrees
    <3> QED BY <3>3, <2>1, <2>2, <1>2, <1>7, <1>w DEF ListenInv, Replying
  <2> QED BY <2>3, <2>4
<1> QED BY <1>10, <1>11

LEMMA ForwardStep ==
    ASSUME TypeOK, WireInv, ListenInv, Forward
    PROVE  ListenInv'
<1> DEFINE m == Head(wire)
           n == Len(wire)
<1>1. /\ pc = "reply" /\ wire # <<>> /\ wire' = Tail(wire) /\ Mirror(m)
      /\ tx' = tx /\ rest' = rest /\ channels' = channels /\ want' = want /\ draft' = draft
  BY DEF Forward, referenceVars
<1>2. wire \in Seq(Messages) /\ channels \in SUBSET Channels
  BY DEF TypeOK
<1>3. /\ n \in Nat \ {0} /\ m = wire[1] /\ m \in Messages
      /\ Len(wire') = n - 1 /\ \A i \in 1..(n - 1) : wire'[i] = wire[i + 1]
  BY <1>1, <1>2
<1>4. Replying
  BY <1>1 DEF ListenInv
<1>5. CASE m[1] = "Z"
  <2>1. n = 1 /\ rest = <<>> /\ m = <<"Z", tx>> /\ wire' = <<>> /\ tag' = tag
    BY <1>5, LastMessage
  <2>2. CASE tx = "I"
    <3>1. Ended /\ ResolvePendingListens
      <4>1. m = <<"Z", "I">>
        BY <2>1, <2>2
      <4> QED BY <1>4, <2>1, <2>2, <4>1 DEF Forward, Replying
    <3>2. CommitAhead <=> tag = "COMMIT"
      BY <2>1 DEF CommitAhead
    <3>3. CASE pending # <<>> /\ tag = "COMMIT"
      <4>1. pc' = "resolve" /\ pending' = pending
        BY <3>1, <3>3 DEF ResolvePendingListens
      <4>2. Agrees(Effect(channels, pending), want)
        BY <3>1, <3>3 DEF Ended, Uncommitted
      <4>3. Agrees(Effect(channels', pending'), want')
        BY <1>1, <4>1, <4>2
      <4> QED BY <3>3, <4>1, <4>3 DEF ListenInv
    <3>4. CASE ~(pending # <<>> /\ tag = "COMMIT")
      <4>1. pc' = "ready" /\ pending' = <<>>
        BY <3>1, <3>4 DEF ResolvePendingListens
      <4>2. Agrees(channels, want)
        <5>1. CASE Agrees(channels, want)
          BY <5>1
        <5>2. CASE Agrees(Effect(channels, pending), want) /\ CommitAhead
          <6>1. pending = <<>>
            BY <3>2, <3>4, <5>2
          <6> QED BY <1>2, <5>2, <6>1, EffectNone
        <5> QED BY <3>1, <5>1, <5>2 DEF Ended
      <4>3. Agrees(channels', want')
        BY <1>1, <4>2
      <4> QED BY <1>1, <2>2, <4>1, <4>3 DEF ListenInv, Working
    <3> QED BY <3>3, <3>4
  <2>3. CASE tx # "I"
    <3>1. m # <<"Z", "I">>
      BY <2>1, <2>3
    <3>2. pc' = "ready" /\ pending' = pending
      BY <1>5, <3>1 DEF Forward
    <3>3. Working
      BY <1>4, <2>3 DEF Replying
    <3>4. Uncommitted => Uncommitted'
      BY <2>1 DEF Uncommitted
    <3>5. Agrees(channels', want') /\ (tx' = "T" => Agrees(Effect(channels', pending'), draft'))
      BY <1>1, <3>2, <3>3 DEF Working
    <3>6. Working'
      BY <1>1, <3>2, <3>3, <3>4, <3>5 DEF Working
    <3> QED BY <3>2, <3>6 DEF ListenInv
  <2> QED BY <2>2, <2>3
<1>6. CASE m[1] # "Z"
  <2>1. pc' = "reply" /\ pending' = pending
    <3>1. m # <<"Z", "I">>
      BY <1>6
    <3> QED BY <1>6, <3>1 DEF Forward
  <2>2. rest = <<>> => n >= 2
    BY <1>6, LastMessage
  <2> HIDE DEF m, n
  <2>3. tag' = IF m[1] = "C" THEN m[2] ELSE tag
    BY <1>1 DEF Mirror
  <2>4. ASSUME Uncommitted PROVE Uncommitted'
    <3>1. tag' # "COMMIT"
      <4>1. CASE m = <<"E", "">>
        BY <2>3, <2>4, <4>1 DEF Uncommitted
      <4>2. ASSUME NEW t \in Tags, m = <<"C", t>> PROVE tag' # "COMMIT"
        <5>1. tag' = t
          BY <2>3, <4>2
        <5>2. m # <<"C", "COMMIT">>
          BY <1>3, <2>4 DEF Uncommitted, n
        <5> QED BY <4>2, <5>1, <5>2
      <4>3. ~ \E s \in {"I", "T", "E"} : m = <<"Z", s>>
        BY <1>6
      <4> QED BY <1>3, <4>1, <4>2, <4>3, MessageForms
    <3>2. ASSUME NEW i \in 1..Len(wire') PROVE wire'[i] # <<"C", "COMMIT">>
      <4>1. i + 1 \in 1..n /\ wire'[i] = wire[i + 1]
        BY <1>3
      <4> QED BY <2>4, <4>1 DEF Uncommitted, n
    <3> QED BY <3>1, <3>2 DEF Uncommitted
  <2>5. ASSUME CommitAhead, rest = <<>> PROVE CommitAhead'
    <3>1. wire[n - 1] = <<"C", "COMMIT">>
      BY <1>3, <2>2, <2>5 DEF CommitAhead, n
    <3>2. CASE n = 2
      <4>1. m = <<"C", "COMMIT">>
        BY <1>3, <3>1, <3>2
      <4>2. tag' = "COMMIT"
        BY <2>3, <4>1
      <4> QED BY <1>3, <3>2, <4>2 DEF CommitAhead
    <3>3. CASE n # 2
      <4>1. /\ n - 2 \in 1..(n - 1) /\ (n - 2) + 1 = n - 1
            /\ Len(wire') - 1 = n - 2 /\ Len(wire') # 1
        BY <1>3, <2>2, <2>5, <3>3
      <4>2. wire'[n - 2] = wire[n - 1]
        BY <1>3, <4>1
      <4> QED BY <3>1, <4>1, <4>2 DEF CommitAhead
    <3> QED BY <3>2, <3>3
  <2>6. Working => Working'
    BY <1>1, <2>1, <2>4 DEF Working, Agrees
  <2>7. Ended /\ rest = <<>> => Ended'
    BY <1>1, <2>1, <2>4, <2>5 DEF Ended, Agrees
  <2> QED BY <1>1, <1>4, <2>1, <2>6, <2>7 DEF ListenInv, Replying
<1> QED BY <1>5, <1>6

\* Each action that resolvePendingListens applies leaves what the others stand for.
LEMMA ApplyPendingStep ==
    ASSUME TypeOK, WireInv, ListenInv, ApplyPending
    PROVE  ListenInv'
<1>1. /\ pc = "resolve" /\ pending' = Tail(pending)
      /\ pc' = IF Tail(pending) = <<>> THEN "ready" ELSE "resolve"
      /\ tx' = tx /\ want' = want
  BY DEF ApplyPending, serverVars, referenceVars
<1>2. /\ tx = "I" /\ pending # <<>> /\ Agrees(Effect(channels, pending), want)
  BY <1>1 DEF WireInv, ListenInv
<1>3. pending \in Seq(Commands) /\ channels \in SUBSET Channels
  BY DEF TypeOK
<1>4. Head(pending) \in Commands /\ Tail(pending) \in Seq(Commands)
  BY <1>2, <1>3
<1> DEFINE next == Applied(channels, Head(pending))
<1>5. next \in SUBSET Channels /\ Effect(channels, pending) = Effect(next, Tail(pending))
  BY <1>2, <1>3, <1>4, AppliedType, EffectHead
<1>6. channels' \in SUBSET Channels /\ Agrees(Effect(channels', pending'), want')
  <2>1. CASE channels' = next
    BY <1>1, <1>2, <1>5, <2>1
  <2>2. CASE /\ "dialAtCommit" \in Faults /\ Head(pending)[1] = "listen"
             /\ channels' = channels
    <3>1. channels \subseteq next
      BY <2>2 DEF Applied
    <3>2. Effect(channels, Tail(pending)) \subseteq Effect(next, Tail(pending))
      BY <1>3, <1>5, <3>1, EffectMore
    <3>3. Effect(channels, Tail(pending)) \subseteq want
      BY <1>2, <1>5, <3>2 DEF Agrees
    <3> QED BY <1>1, <1>3, <2>2, <3>3 DEF Agrees
  <2> QED BY <2>1, <2>2 DEF ApplyPending
<1>7. CASE Tail(pending) = <<>>
  <2>1. Agrees(channels', want')
    BY <1>1, <1>6, <1>7, EffectNone
  <2> QED BY <1>1, <1>2, <1>7, <2>1 DEF ListenInv, Working
<1>8. CASE Tail(pending) # <<>>
  BY <1>1, <1>6, <1>8 DEF ListenInv
<1> QED BY <1>7, <1>8

\* handleListen and handleUnlisten decide by the status that is also the server's.
LEMMA ListenStep ==
    ASSUME TypeOK, WireInv, ListenInv, NEW cmd \in Commands,
           BufferListen(cmd) \/ ApplyListen(cmd)
    PROVE  ListenInv'
<1>1. /\ pc \in {"ready", "followup"} /\ pc' = "ready" /\ Reference(cmd)
      /\ tx' = tx /\ rest' = rest /\ wire' = wire /\ status' = status
  BY DEF BufferListen, ApplyListen, Arrives, serverVars
<1>2. status = tx /\ rest = <<>> /\ wire = <<>> /\ Working
  BY <1>1 DEF WireInv, ListenInv
<1>3. /\ pending \in Seq(Commands) /\ channels \in SUBSET Channels /\ tx \in {"I", "T", "E"}
      /\ want \in SUBSET Channels /\ draft \in SUBSET Channels
  BY DEF TypeOK
<1>4. cmd[1] # "COMMIT"
  <2>1. CASE \E ch \in Channels : cmd = <<"listen", ch>>
    BY <2>1
  <2>2. CASE \E ch \in Channels \cup {"*"} : cmd = <<"unlisten", ch>>
    BY <2>2
  <2> QED BY <2>1, <2>2, CommandForms
<1>5. CASE tx = "I"
  <2>1. tag' = cmd[1] /\ channels' = Applied(channels, cmd) /\ pending' = pending
    BY <1>2, <1>5 DEF BufferListen, ApplyListen
  <2>2. want' = Applied(want, cmd)
    BY <1>1, <1>5 DEF Reference
  <2>3. Agrees(channels', want')
    <3>1. Agrees(channels, want)
      BY <1>2 DEF Working
    <3>2. Applied(channels, cmd) \subseteq Applied(want, cmd)
      BY <1>3, <3>1, AppliedMore DEF Agrees
    <3> QED BY <2>1, <2>2, <3>1, <3>2 DEF Agrees
  <2>4. Working'
    BY <1>1, <1>2, <1>5, <2>1, <2>3 DEF Working
  <2> QED BY <1>1, <2>4 DEF ListenInv
<1>6. CASE tx = "T"
  <2>1. tag' = cmd[1] /\ channels' = channels /\ pending' = Append(pending, cmd)
    BY <1>2, <1>6 DEF BufferListen, ApplyListen
  <2>2. want' = want /\ draft' = Applied(draft, cmd)
    BY <1>1, <1>6 DEF Reference
  <2>3. Agrees(Effect(channels', pending'), draft')
    <3>1. Agrees(Effect(channels, pending), draft)
      BY <1>2, <1>6 DEF Working
    <3>2. Effect(channels', pending') = Applied(Effect(channels, pending), cmd)
      BY <1>3, <2>1, EffectAppend
    <3>3. Applied(Effect(channels, pending), cmd) \subseteq Applied(draft, cmd)
      BY <1>3, <3>1, AppliedMore, EffectType DEF Agrees
    <3> QED BY <2>2, <3>1, <3>2, <3>3 DEF Agrees
  <2>4. Uncommitted'
    BY <1>1, <1>2, <1>4, <2>1 DEF Uncommitted
  <2>5. Working'
    BY <1>1, <1>2, <1>6, <2>1, <2>2, <2>3, <2>4 DEF Working, Agrees
  <2> QED BY <1>1, <2>5 DEF ListenInv
<1>7. CASE tx = "E"
  <2>1. tag' = tag /\ channels' = channels /\ pending' = pending
    BY <1>2, <1>7 DEF BufferListen, ApplyListen
  <2>2. want' = want
    BY <1>1, <1>7 DEF Reference
  <2>3. Working'
    BY <1>1, <1>2, <1>7, <2>1, <2>2 DEF Working, Uncommitted, Agrees
  <2> QED BY <1>1, <2>3 DEF ListenInv
<1> QED BY <1>3, <1>5, <1>6, <1>7

LEMMA ListenInvInit == Init => WireInv /\ ListenInv
BY DEF Init, WireInv, ListenInv, Working, Agrees

LEMMA ListenInvStep ==
    ASSUME EndsLast, TypeOK, WireInv, ListenInv, [Next]_vars
    PROVE  ListenInv'
<1> USE DEF serverVars, mirrorVars, listenVars, referenceVars
<1>1. ASSUME NEW string \in Strings, ExecuteQuery(string) PROVE ListenInv'
  <2>1. /\ pc = "ready" /\ pc' = "reply" /\ rest' = string
        /\ UNCHANGED <<tx, wire, tag, pending, channels, want, draft>>
    BY <1>1 DEF ExecuteQuery
  <2>2. Working
    BY <2>1 DEF ListenInv
  <2>3. /\ string # <<>>
        /\ \A i \in 1..(Len(string) - 1) : string[i] \notin {"commit", "rollback"}
    BY <1>1, DeferredAssumption DEF EndsLast
  <2>4. Working'
    BY <2>1, <2>2 DEF Working, Uncommitted, Agrees
  <2> QED BY <2>1, <2>3, <2>4 DEF ListenInv, Replying
<1>2. CASE SendFails
  BY <1>2 DEF SendFails, ListenInv
<1>3. CASE Execute
  BY <1>3, ExecuteStep
<1>4. CASE Forward
  BY <1>4, ForwardStep
<1>5. CASE ApplyPending
  BY <1>5, ApplyPendingStep
<1>6. CASE NewSession
  BY <1>6 DEF NewSession, ListenInv, Working, Agrees
<1>7. ASSUME NEW cmd \in Commands, Intercept(cmd) PROVE ListenInv'
  BY <1>7 DEF Intercept, ListenInv, Working, Uncommitted, Agrees
<1>8. ASSUME NEW cmd \in Commands, BufferListen(cmd) \/ ApplyListen(cmd) PROVE ListenInv'
  BY <1>8, ListenStep
<1>9. ASSUME NEW cmd \in Commands, ListenFails(cmd) PROVE ListenInv'
  BY <1>9 DEF ListenFails, ListenInv
<1>10. CASE UNCHANGED vars
  BY <1>10 DEF vars, ListenInv, Working, Uncommitted, Replying, Ended, CommitAhead, Agrees
<1> QED BY <1>1, <1>2, <1>3, <1>4, <1>5, <1>6, <1>7, <1>8, <1>9, <1>10 DEF Next

\* TypeOK of DeferredListen in every reachable state, whatever the query strings and
\* the faults: what WriteMessage mirrors is a status byte and a command tag, and
\* resolvePendingListens is in its loop only while an action is left.
THEOREM DeferredTypeCorrect == Spec => []TypeOK
<1>1. Init => TypeOK
  <2>1. <<>> \in Seq(Statements) /\ <<>> \in Seq(Messages) /\ <<>> \in Seq(Commands)
    OBVIOUS
  <2> QED BY <2>1 DEF Init, TypeOK
<1> QED BY <1>1, TypeStep, PTL DEF Spec

\* handleListen and handleUnlisten go by the status of the server, never by an older
\* one: whenever a client may send its next request, the last status byte that was
\* written to it (WriteMessage) is that of its session, whatever the query strings
\* and the faults.
THEOREM StatusIsTheServers == Spec => []StatusKnown
<1>1. Init => WireInv
  BY ListenInvInit
<1>2. TypeOK /\ WireInv /\ [Next]_vars => WireInv'
  BY WireStep
<1>3. WireInv => StatusKnown
  BY DEF WireInv, StatusKnown
<1> QED BY DeferredTypeCorrect, <1>1, <1>2, <1>3, PTL DEF Spec

LEMMA ListenInvariant ==
    ASSUME EndsLast
    PROVE  Spec => [](WireInv /\ ListenInv)
<1>1. TypeOK /\ WireInv /\ ListenInv /\ [Next]_vars => WireInv' /\ ListenInv'
  BY WireStep, ListenInvStep
<1> QED BY DeferredTypeCorrect, ListenInvInit, <1>1, PTL DEF Spec

\* A client that is ready for its next request outside a transaction listens to the
\* channels PostgreSQL would have it listen to, and nothing is left in its buffer
\* (handleListen, handleUnlisten, resolvePendingListens): for every set of channels,
\* any number of buffered commands, and any order of queries, pipelines, failing
\* statements, failing COMMITs and lost connections.  A query string ends a
\* transaction only with its last statement, and no connection for a LISTEN is
\* refused when it is applied at COMMIT; without either it is false.
THEOREM SubscriptionsFollowCommits ==
    ASSUME EndsLast, "dialAtCommit" \notin Faults
    PROVE  Spec => []SubscribedAsCommitted
<1>1. WireInv /\ ListenInv => SubscribedAsCommitted
  BY DEF ListenInv, Working, Agrees, SubscribedAsCommitted
<1> QED BY ListenInvariant, <1>1, PTL

\* When a LISTEN cannot be applied at COMMIT, which resolvePendingListens only logs,
\* the client misses that channel and no more: it never listens to a channel that
\* PostgreSQL would not have it listen to, and nothing stays in its buffer.
THEOREM NoStraySubscriptions ==
    ASSUME EndsLast
    PROVE  Spec => []NoStraySubscription
<1>1. WireInv /\ ListenInv => NoStraySubscription
  BY DEF ListenInv, Working, Agrees, NoStraySubscription
<1> QED BY ListenInvariant, <1>1, PTL
=============================================================================
