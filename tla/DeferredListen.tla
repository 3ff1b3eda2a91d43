--------------------------- MODULE DeferredListen ---------------------------
(***************************************************************************)
(* LISTEN and UNLISTEN of one client in and out of transactions.  They do  *)
(* not reach its session on the server: handleListen and handleUnlisten    *)
(* (listen_notify.go) apply them at once or buffer them, by the last       *)
(* status byte that was written to the client, and resolvePendingListens   *)
(* applies or discards the buffer when a reply reports that the session is *)
(* idle, by the last command tag (client.go).  want and draft are what     *)
(* PostgreSQL itself would keep: the channels of the client, and those it  *)
(* has if its open transaction commits.                                    *)
(*                                                                         *)
(* How a monitor is created and joined is in ListenNotify.                 *)
(***************************************************************************)
EXTENDS Integers, Sequences

CONSTANTS
    Channels,
    Strings,      \* what the client may send in one simple query: sequences of statements
    MaxPending,   \* bound: LISTENs and UNLISTENs in one transaction
    Faults,       \* subset of {"send", "read", "dial", "commit", "dialAtCommit"}
    None

VARIABLES
    pc,        \* the session, as its client sees it
    special,   \* the command of an intercepted Parse
    tx,        \* the transaction status of the client's session on the server
    rest,      \* the statements of its query string that are not executed yet
    wire,      \* the messages of its reply that are not forwarded yet
    status,    \* lastTxStatus
    tag,       \* lastCommandTag
    pending,   \* pendingListens
    channels,  \* listenChannels
    want,      \* PostgreSQL: the channels of the session
    draft      \* PostgreSQL: the channels of the session if its transaction commits

serverVars == <<tx, rest, wire>>
mirrorVars == <<status, tag>>
listenVars == <<pending, channels>>
referenceVars == <<want, draft>>
vars == <<pc, special, serverVars, mirrorVars, listenVars, referenceVars>>

Statements == {"begin", "commit", "rollback", "select", "fail"}
Tags == {"BEGIN", "COMMIT", "ROLLBACK", "SELECT 1"}
Messages ==
    {<<"E", "">>} \cup {<<"C", t>> : t \in Tags} \cup {<<"Z", s>> : s \in {"I", "T", "E"}}
Kinds == {"listen", "unlisten"}
Commands == Kinds \X Channels \cup {<<"unlisten", "*">>}

\* "*" stands for all channels in UNLISTEN; a query string is not empty.
ASSUME DeferredAssumption ==
    /\ "*" \notin Channels
    /\ Strings \subseteq Seq(Statements) \ {<<>>}

\* The set of channels after a command.
Applied(set, cmd) ==
    IF cmd[1] = "listen" THEN set \cup {cmd[2]}
    ELSE IF cmd[2] = "*" THEN {} ELSE set \ {cmd[2]}

----------------------------------------------------------------------------
(* The server. *)

\* What a statement is answered with.  A COMMIT may fail, and nothing but the end of
\* a failed transaction is executed in it.
Answers(stmt) ==
    CASE stmt = "rollback" \/ (stmt = "commit" /\ tx = "E") -> {<<"C", "ROLLBACK">>}
      [] stmt = "commit" /\ tx # "E" ->
             {<<"C", "COMMIT">>}
             \cup IF tx = "T" /\ "commit" \in Faults THEN {<<"E", "">>} ELSE {}
      [] stmt = "begin" /\ tx # "E" -> {<<"C", "BEGIN">>}
      [] stmt = "select" /\ tx # "E" -> {<<"C", "SELECT 1">>}
      [] OTHER -> {<<"E", "">>}

\* The status after it.
StatusAfter(stmt, answer) ==
    CASE stmt \in {"commit", "rollback"} -> "I"
      [] stmt = "begin" /\ tx # "E" -> "T"
      [] OTHER -> IF tx = "T" /\ answer[1] = "E" THEN "E" ELSE tx

\* One statement of the query string; the ones after an error are not executed.
Execute ==
    /\ pc = "reply" /\ rest # <<>>
    /\ \E answer \in Answers(Head(rest)) :
          LET after == StatusAfter(Head(rest), answer)
              last == answer[1] = "E" \/ Tail(rest) = <<>>
          IN  /\ tx' = after
              /\ rest' = IF last THEN <<>> ELSE Tail(rest)
              /\ wire' = IF last THEN Append(Append(wire, answer), <<"Z", after>>)
                         ELSE Append(wire, answer)
              /\ want' = IF tx = "T" /\ answer[2] = "COMMIT" THEN draft ELSE want
              /\ draft' = IF tx = "I" /\ answer[2] = "BEGIN" THEN want ELSE draft
    /\ UNCHANGED <<pc, special, mirrorVars, listenVars>>

----------------------------------------------------------------------------
(* The client's goroutine. *)

\* Mutant of Mirror: the tag is taken for the status.
MirrorSwapped(m) ==
    /\ tag' = IF m[1] = "Z" THEN m[2] ELSE tag
    /\ status' = IF m[1] = "C" THEN m[2] ELSE status

\* WriteMessage to the client.
Mirror(m) ==
    /\ tag' = IF m[1] = "C" THEN m[2] ELSE tag
    /\ status' = IF m[1] = "Z" THEN m[2] ELSE status

\* Mutant of ResolvePendingListens: whatever ended the transaction.
ResolveAlways ==
    /\ pc' = IF pending # <<>> THEN "resolve" ELSE "ready"
    /\ UNCHANGED pending

\* The actions of a transaction that did not commit are discarded.
ResolvePendingListens ==
    IF pending # <<>> /\ tag = "COMMIT" THEN pc' = "resolve" /\ UNCHANGED pending
    ELSE pc' = "ready" /\ pending' = <<>>

\* Its loop: the actions are applied one by one.  What getOrCreateListen refuses is
\* only logged.
ApplyPending ==
    /\ pc = "resolve"
    /\ \/ channels' = Applied(channels, Head(pending))
       \/ /\ "dialAtCommit" \in Faults /\ Head(pending)[1] = "listen"
          /\ UNCHANGED channels
    /\ pending' = Tail(pending)
    /\ pc' = IF Tail(pending) = <<>> THEN "ready" ELSE "resolve"
    /\ UNCHANGED <<special, serverVars, mirrorVars, referenceVars>>

\* A simple query that is none of LISTEN and UNLISTEN.
ExecuteQuery(string) ==
    /\ pc = "ready"
    /\ rest' = string
    /\ pc' = "reply"
    /\ UNCHANGED <<special, tx, wire, mirrorVars, listenVars, referenceVars>>

\* The connection is lost before the query is sent: the client is told so, without a
\* ReadyForQuery, and waits for one.
SendFails ==
    /\ "send" \in Faults
    /\ pc = "ready"
    /\ tx' = "I"
    /\ pc' = "waiting"
    /\ UNCHANGED <<special, rest, wire, mirrorVars, listenVars, referenceVars>>

\* forwardCompleteBackendResponse, and reconcileConn after the last message.
Forward ==
    /\ pc = "reply" /\ wire # <<>>
    /\ wire' = Tail(wire)
    /\ Mirror(Head(wire))
    /\ IF Head(wire) = <<"Z", "I">> THEN ResolvePendingListens
       ELSE /\ pc' = IF Head(wire)[1] = "Z" THEN "ready" ELSE "reply"
            /\ UNCHANGED pending
    /\ UNCHANGED <<special, tx, rest, channels, referenceVars>>

\* A LISTEN or UNLISTEN in a pipeline that ends with a Flush: the Parse and the
\* Describe are answered, and the next pipeline is read and dropped.
Intercept(cmd) ==
    /\ pc = "ready"
    /\ pc' = "followup" /\ special' = cmd
    /\ UNCHANGED <<serverVars, mirrorVars, listenVars, referenceVars>>

\* The command comes by a simple query or a pipeline that ends with a Sync, or with
\* the pipeline after the Flush.
Arrives(cmd) ==
    /\ pc = "ready" \/ (pc = "followup" /\ special = cmd)
    /\ special' = None

\* The same command of a session of PostgreSQL.
Reference(cmd) ==
    /\ want' = IF tx = "I" THEN Applied(want, cmd) ELSE want
    /\ draft' = IF tx = "T" THEN Applied(draft, cmd) ELSE draft

\* handleListen and handleUnlisten in an open transaction; in a failed one they are
\* refused.
BufferListen(cmd) ==
    /\ Arrives(cmd)
    /\ status \in {"T", "E"}
    /\ status = "T" => Len(pending) < MaxPending
    /\ pc' = "ready"
    /\ IF status = "E" THEN UNCHANGED <<pending, tag>>
       ELSE pending' = Append(pending, cmd) /\ tag' = cmd[1]
    /\ Reference(cmd)
    /\ UNCHANGED <<serverVars, status, channels>>

\* handleListen and handleUnlisten outside a transaction.
ApplyListen(cmd) ==
    /\ Arrives(cmd)
    /\ status = "I"
    /\ pc' = "ready" /\ tag' = cmd[1]
    /\ channels' = Applied(channels, cmd)
    /\ Reference(cmd)
    /\ UNCHANGED <<serverVars, status, pending>>

\* getOrCreateListen fails: an error without a ReadyForQuery.
ListenFails(cmd) ==
    /\ "dial" \in Faults
    /\ Arrives(cmd)
    /\ cmd[1] = "listen" /\ status = "I"
    /\ pc' = "waiting"
    /\ UNCHANGED <<serverVars, mirrorVars, listenVars, referenceVars>>

\* The client leaves, or a read from the server fails in a reply and handleClient
\* ends the session; the next session starts from nothing.
NewSession ==
    /\ pc \in {"ready", "waiting", "followup"} \/ (pc = "reply" /\ "read" \in Faults)
    /\ pc' = "ready" /\ special' = None
    /\ tx' = "I" /\ rest' = <<>> /\ wire' = <<>>
    /\ status' = "I" /\ tag' = ""
    /\ pending' = <<>> /\ channels' = {}
    /\ want' = {} /\ draft' = {}

Init ==
    /\ pc = "ready" /\ special = None
    /\ tx = "I" /\ rest = <<>> /\ wire = <<>>
    /\ status = "I" /\ tag = ""
    /\ pending = <<>> /\ channels = {}
    /\ want = {} /\ draft = {}

Next ==
    \/ \E string \in Strings : ExecuteQuery(string)
    \/ SendFails \/ Execute \/ Forward \/ ApplyPending \/ NewSession
    \/ \E cmd \in Commands :
          Intercept(cmd) \/ BufferListen(cmd) \/ ApplyListen(cmd) \/ ListenFails(cmd)

Spec == Init /\ [][Next]_vars

----------------------------------------------------------------------------
(* Properties. *)

\* Types: the status is a status byte, the tag one of a reply or of a command that
\* was buffered or applied (WriteMessage).
TypeOK ==
    /\ pc \in {"ready", "reply", "resolve", "waiting", "followup"}
    /\ special \in Commands \cup {None}
    /\ tx \in {"I", "T", "E"} /\ status \in {"I", "T", "E"}
    /\ rest \in Seq(Statements)
    /\ wire \in Seq(Messages)
    /\ tag \in Tags \cup Kinds \cup {""}
    /\ pending \in Seq(Commands) /\ (pc = "resolve" => pending # <<>>)
    /\ channels \subseteq Channels /\ want \subseteq Channels /\ draft \subseteq Channels

\* A client that is ready for its next request outside a transaction listens to the
\* channels PostgreSQL would have it listen to: what committed transactions asked
\* for is applied, in order, what others asked for is not, and nothing is left over
\* for a later transaction to apply (resolvePendingListens).
SubscribedAsCommitted ==
    pc = "ready" /\ tx = "I" => channels = want /\ pending = <<>>
=============================================================================
