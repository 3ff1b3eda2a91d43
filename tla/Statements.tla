----------------------------- MODULE Statements -----------------------------
(***************************************************************************)
(* Prepared statements shared over pooled connections.  A statement that   *)
(* can be parameterized is renamed to pfx_<hash of its canonical SQL>, so  *)
(* that any connection can serve it: a connection that does not have it is *)
(* sent a Parse first.  Any other named statement keeps its name and pins  *)
(* its client to the connection it was parsed on.                          *)
(*                                                                         *)
(* That a connection serves one client at a time is Pooling's subject and  *)
(* taken from there; here a pipeline takes a connection nobody has.  A     *)
(* pipeline is about one named statement, as drivers send them.  Execute   *)
(* goes with its Bind.  The statement named "" is left out.                *)
(***************************************************************************)
EXTENDS Integers, Sequences

CONSTANTS
    Clients, Backends, None,
    Names,         \* the names clients give to statements
    Texts,         \* SQL texts
    Hashes,        \* hashes of canonical texts; also the names pfx_<hash>
    HashOf,        \* ClassifyAndParameterize: Texts -> Hashes, or None
    CanonicalSQL,  \* Hashes -> Texts, the text with $1..$N for its literals
    TextsFor,      \* Names -> SUBSET Texts, what clients parse under a name
    Queries,       \* the texts clients send as simple queries
    Shapes,        \* the pipelines clients send, as sequences of message types
    Faults,        \* the failures the environment may produce
    MaxNamed       \* bound: passthrough Parses counted per client

\* A pipeline ends with Sync or Flush.  As it is about one statement, its Parse
\* comes first, and nothing but the end follows its Close.
WellFormed(shape) ==
    /\ shape \in Seq({"P", "B", "D", "C", "S", "H"})
    /\ Len(shape) > 0
    /\ \A i \in 1..Len(shape) :
          /\ shape[i] \in {"S", "H"} <=> i = Len(shape)
          /\ shape[i] = "P" => i = 1
          /\ shape[i] = "C" => i = Len(shape) - 1 /\ shape[1] # "P"

\* "refused": the server refuses a Parse or an Execute.  "lost": a connection
\* breaks.  "timeout": no connection becomes free in time.
ASSUME StatementsAssumption ==
    /\ None \notin Clients \cup Backends \cup Names \cup Texts \cup Hashes
    /\ Names \cap Hashes = {}
    /\ HashOf \in [Texts -> Hashes \cup {None}]
    /\ CanonicalSQL \in [Hashes -> Texts]
    /\ TextsFor \in [Names -> SUBSET Texts]
    /\ Queries \subseteq Texts
    /\ \A shape \in Shapes : WellFormed(shape)
    /\ Faults \subseteq {"refused", "lost", "timeout"}
    /\ MaxNamed \in Nat

VARIABLES
    pc,          \* the phase of the handler
    job,         \* the pipeline it works on
    held,        \* its local variable backend
    sent,        \* the messages the server still has to answer
    parses,      \* sentParseHashes from parseIdx on
    failed,      \* the server skips messages until Sync
    pin,         \* Client.backend
    nameMap,     \* Client.stmtNameMap
    namedStmts,  \* Client.namedStmts
    known,       \* what the client knows to be prepared: name -> text
    cache,       \* the keys of Target.StmtCache
    deployed,    \* Backend.deployedStmts
    stmts        \* the statements of the server session: name -> text

handlerVars == <<pc, job, held, sent, parses, failed>>
clientVars  == <<pin, nameMap, namedStmts, known>>
backendVars == <<deployed, stmts>>
vars == <<handlerVars, clientVars, cache, backendVars>>

-----------------------------------------------------------------------------
(* Messages and pipelines. *)

Targets == Names \cup Hashes
Messages == [type : {"P", "B", "D", "C", "S", "H"}, target : Targets \cup {None}]
\* name and text are the client's (None for a simple query); need is
\* bindRequiredHashes without the hashes parsed in the pipeline; pinned is
\* wasPinned || requiresPin.
NoJob == [name |-> None, text |-> None, msgs |-> <<>>, need |-> {}, pinned |-> FALSE]
Jobs == [name : Names \cup {None}, text : Texts \cup {None}, msgs : Seq(Messages),
         need : SUBSET Hashes, pinned : BOOLEAN]

Has(shape, type) == \E i \in DOMAIN shape : shape[i] = type
Last(s) == s[Len(s)]

\* Mutant of MapStmtName: the client's name is stored for the hash.
MapStmtNameToName(map, n, h) == [map EXCEPT ![n] = n]

\* Mutant of MapStmtName: an earlier mapping is kept.
MapStmtNameOnce(map, n, h) == [map EXCEPT ![n] = IF @ = None THEN h ELSE @]

MapStmtName(map, n, h) == [map EXCEPT ![n] = h]

\* LookupInternalName, or else the client's own name.
Lookup(map, n) == IF map[n] = None THEN n ELSE map[n]

\* Mutant of Rewrite: Close closes the shared statement.
RewriteClosesShared(type, n, t, map) ==
    CASE type = "P" -> IF HashOf[t] = None THEN n ELSE HashOf[t]
      [] type \in {"B", "D", "C"} -> Lookup(map, n)
      [] OTHER -> None

\* The statement a rewritten message names.  A Close of a remapped statement
\* becomes a Close of the unnamed one.
Rewrite(type, n, t, map) ==
    CASE type = "P" -> IF HashOf[t] = None THEN n ELSE HashOf[t]
      [] type \in {"B", "D"} -> Lookup(map, n)
      [] type = "C" -> IF map[n] = None THEN n ELSE None
      [] OTHER -> None

\* Mutant of Missing: only statements that nobody has parsed are asked for.
MissingUnregistered(shape, n, t, map) ==
    IF Has(shape, "B") THEN {map[n]} \ (cache \cup {None}) ELSE {}

\* bindRequiredHashes that have no Parse in the pipeline.
Missing(shape, n, t, map) ==
    IF Has(shape, "B")
      THEN {map[n]} \ (IF Has(shape, "P") THEN {HashOf[t], None} ELSE {None}) ELSE {}

\* Entries of the cache are never removed.
GetOrRegister(h) == cache' = cache \cup {h}

MarkStmt(b, h) == deployed' = [deployed EXCEPT ![b] = @ \cup {h}]

-----------------------------------------------------------------------------
(* executeExtendedPipeline, phase 1, and the start of executeAsPrepared. *)

\* What clients send: they parse a name that is free, use one that is not, and
\* answer an error after Flush with Sync.  A name they close is free.
Sensible(c, shape, n, t) ==
    /\ failed[c] => shape = <<"S">>
    /\ shape = <<"S">> => failed[c]
    /\ Has(shape, "P") => known[c][n] = None /\ t \in TextsFor[n]
    /\ ~Has(shape, "P") => t = known[c][n]
    /\ shape # <<"S">> /\ ~Has(shape, "P") => t # None

ExecuteExtendedPipeline(c, shape, n, t) ==
    LET parse == Has(shape, "P")
        h == IF parse THEN HashOf[t] ELSE None
        passthrough == parse /\ h = None
        map == IF h # None THEN MapStmtName(nameMap[c], n, h) ELSE nameMap[c]
    IN
    /\ pc[c] = "idle" /\ Sensible(c, shape, n, t)
    /\ passthrough => namedStmts[c] < MaxNamed
    /\ IF h # None THEN GetOrRegister(h) ELSE UNCHANGED cache
    /\ nameMap' = [nameMap EXCEPT ![c] =
                     IF Has(shape, "C") THEN [map EXCEPT ![n] = None] ELSE map]
    /\ namedStmts' = [namedStmts EXCEPT ![c] =
                        IF passthrough THEN @ + 1
                        ELSE IF Has(shape, "C") /\ map[n] = None /\ @ > 0 THEN @ - 1
                        ELSE @]
    /\ job' = [job EXCEPT ![c] =
                 [name |-> n, text |-> t,
                  msgs |-> [i \in DOMAIN shape |->
                              [type |-> shape[i], target |-> Rewrite(shape[i], n, t, map)]],
                  need |-> Missing(shape, n, t, map),
                  pinned |-> pin[c] # None \/ passthrough]]
    /\ pc' = [pc EXCEPT ![c] = "acquire"]
    /\ known' = IF Has(shape, "C") THEN [known EXCEPT ![c][n] = None] ELSE known
    /\ UNCHANGED <<held, sent, parses, failed, pin, backendVars>>

\* A parameterizable simple query of a client that is not pinned: Parse (if it
\* is missing), Bind, Execute and Sync of the canonical statement.
ExecuteAsPrepared(c, t) ==
    LET h == HashOf[t]
        Msg(type) == [type |-> type, target |-> IF type = "S" THEN None ELSE h]
    IN
    /\ pc[c] = "idle" /\ pin[c] = None /\ ~failed[c]
    /\ h # None
    /\ GetOrRegister(h)
    /\ job' = [job EXCEPT ![c] =
                 [name |-> None, text |-> CanonicalSQL[h],
                  msgs |-> <<Msg("P"), Msg("B"), Msg("S")>>,
                  need |-> {}, pinned |-> FALSE]]
    /\ pc' = [pc EXCEPT ![c] = "acquire"]
    /\ UNCHANGED <<held, sent, parses, failed, clientVars, backendVars>>

-----------------------------------------------------------------------------
(* Phase 2: the backend. *)

Free(b) == \A c \in Clients : pin[c] # b /\ held[c] # b

\* A connection is closed and a new one takes its place.
Renew(b) ==
    /\ deployed' = [deployed EXCEPT ![b] = {}]
    /\ stmts' = [stmts EXCEPT ![b] = [x \in Targets |-> None]]

\* The handler is done.
Done(c) ==
    /\ pc' = [pc EXCEPT ![c] = "idle"]
    /\ job' = [job EXCEPT ![c] = NoJob]
    /\ held' = [held EXCEPT ![c] = None]
    /\ sent' = [sent EXCEPT ![c] = <<>>]
    /\ parses' = [parses EXCEPT ![c] = <<>>]

\* Release of the backend in hand, after which an error is reported to the
\* client; statements that were on that connection only are gone.
ReleaseHeld(c) ==
    /\ Renew(held[c])
    /\ pin' = [pin EXCEPT ![c] = None]
    /\ known' = [known EXCEPT ![c] =
                   [n \in Names |-> IF nameMap[c][n] = None THEN None ELSE @[n]]]
    /\ failed' = [failed EXCEPT ![c] = FALSE]
    /\ Done(c)
    /\ UNCHANGED <<nameMap, namedStmts, cache>>

\* The pinned backend, or a borrowed one, which a passthrough Parse pins.
Acquire(c, b) ==
    /\ pc[c] = "acquire"
    /\ IF pin[c] # None THEN b = pin[c] ELSE Free(b)
    /\ held' = [held EXCEPT ![c] = b]
    /\ pin' = IF job[c].pinned THEN [pin EXCEPT ![c] = b] ELSE pin
    /\ pc' = [pc EXCEPT ![c] = "inject"]
    /\ UNCHANGED <<job, sent, parses, failed, nameMap, namedStmts, known, cache, backendVars>>

\* borrowConn gives up.  What phase 1 has changed stays changed.
AcquireFails(c) ==
    /\ "timeout" \in Faults
    /\ pc[c] = "acquire" /\ pin[c] = None
    /\ Done(c)
    /\ UNCHANGED <<failed, clientVars, cache, backendVars>>

-----------------------------------------------------------------------------
(* Phases 3.5 and 4: missing statements, then the pipeline. *)

\* The client gets a ParseComplete.
Acknowledge(c) ==
    known' = IF job[c].name = None THEN known
             ELSE [known EXCEPT ![c][job[c].name] = job[c].text]

ToInject(c) == job[c].need \ deployed[held[c]]

\* Parse and Sync for a statement the backend does not have, from the cache.
Inject(c, h) ==
    /\ pc[c] = "inject" /\ h \in ToInject(c)
    /\ h \in cache
    /\ stmts[held[c]][h] = None
    /\ stmts' = [stmts EXCEPT ![held[c]][h] = CanonicalSQL[h]]
    /\ MarkStmt(held[c], h)
    /\ UNCHANGED <<handlerVars, clientVars, cache>>

\* The server refuses it (or has one of that name), or the connection breaks.
InjectFails(c, h) ==
    /\ pc[c] = "inject" /\ h \in ToInject(c)
    /\ Faults \cap {"refused", "lost"} # {} \/ stmts[held[c]][h] # None \/ h \notin cache
    /\ ReleaseHeld(c)

\* A remapped Parse is not sent to a backend that has the statement; its
\* ParseComplete is made up.
Skipped(c, m) == m.type = "P" /\ m.target \in deployed[held[c]]

Forward(c) ==
    LET first == Head(job[c].msgs)
        skip == Skipped(c, first)
        remapped == first.type = "P" /\ first.target \in Hashes
    IN
    /\ pc[c] = "inject" /\ ToInject(c) = {}
    /\ sent' = [sent EXCEPT ![c] = IF skip THEN Tail(job[c].msgs) ELSE job[c].msgs]
    /\ parses' = [parses EXCEPT ![c] = IF remapped /\ ~skip THEN <<first.target>> ELSE <<>>]
    /\ IF skip THEN Acknowledge(c) ELSE UNCHANGED known
    /\ pc' = [pc EXCEPT ![c] = "respond"]
    /\ UNCHANGED <<job, held, failed, pin, nameMap, namedStmts, cache, backendVars>>

ForwardFails(c) ==
    /\ "lost" \in Faults
    /\ pc[c] = "inject" /\ ToInject(c) = {}
    /\ ReleaseHeld(c)

-----------------------------------------------------------------------------
(* The server answers; phase 5. *)

\* The message the server executes next; Sync and Flush end the answers.
Current(c) == Head(sent[c])
Running(c) == pc[c] = "respond" /\ Current(c).type \in {"P", "B", "D", "C"} /\ ~failed[c]

\* Each ParseComplete marks the next of sentParseHashes.
ParseComplete(c) ==
    IF parses[c] = <<>>
      THEN UNCHANGED <<parses, deployed>>
      ELSE /\ MarkStmt(held[c], Head(parses[c]))
           /\ parses' = [parses EXCEPT ![c] = Tail(@)]

AnswerParse(c) ==
    /\ Running(c) /\ Current(c).type = "P"
    /\ stmts[held[c]][Current(c).target] = None
    /\ stmts' = [stmts EXCEPT ![held[c]][Current(c).target] = job[c].text]
    /\ ParseComplete(c)
    /\ Acknowledge(c)
    /\ sent' = [sent EXCEPT ![c] = Tail(@)]
    /\ UNCHANGED <<pc, job, held, failed, pin, nameMap, namedStmts, cache>>

\* Bind with Execute, or Describe, of a statement the session has.
AnswerUse(c) ==
    /\ Running(c) /\ Current(c).type \in {"B", "D"}
    /\ stmts[held[c]][Current(c).target] # None
    /\ sent' = [sent EXCEPT ![c] = Tail(@)]
    /\ UNCHANGED <<pc, job, held, parses, failed, clientVars, cache, backendVars>>

\* Closing a statement, be it there or not.
AnswerClose(c) ==
    /\ Running(c) /\ Current(c).type = "C"
    /\ stmts' = IF Current(c).target = None THEN stmts
                ELSE [stmts EXCEPT ![held[c]][Current(c).target] = None]
    /\ sent' = [sent EXCEPT ![c] = Tail(@)]
    /\ UNCHANGED <<pc, job, held, parses, failed, clientVars, cache, deployed>>

\* The server answers with an error, because of the statement's name or for
\* reasons of its own, and skips the rest up to Sync.
AnswerError(c) ==
    /\ Running(c) /\ Current(c).type # "C"
    /\ \/ "refused" \in Faults
       \/ Current(c).type = "P" /\ stmts[held[c]][Current(c).target] # None
       \/ Current(c).type # "P" /\ stmts[held[c]][Current(c).target] = None
    /\ failed' = [failed EXCEPT ![c] = TRUE]
    /\ sent' = [sent EXCEPT ![c] = <<Last(@)>>]
    /\ UNCHANGED <<pc, job, held, parses, clientVars, cache, backendVars>>

\* reconcileConn: a transaction or passthrough named statements keep the client
\* pinned; otherwise the backend is returned.
Reconcile(c, status) ==
    pin' = [pin EXCEPT ![c] = IF status = "T" \/ namedStmts[c] > 0 THEN held[c] ELSE None]

\* ReadyForQuery after Sync.
FinishSync(c) ==
    /\ pc[c] = "respond" /\ Current(c).type = "S"
    /\ \E status \in IF job[c].name = None THEN {"I"} ELSE {"I", "T"} : Reconcile(c, status)
    /\ failed' = [failed EXCEPT ![c] = FALSE]
    /\ Done(c)
    /\ UNCHANGED <<nameMap, namedStmts, known, cache, backendVars>>

\* drainFlushResponse: the description or an error was the last answer.  The
\* client keeps the backend.
FinishFlush(c) ==
    /\ pc[c] = "respond" /\ Current(c).type = "H"
    /\ pin' = [pin EXCEPT ![c] = held[c]]
    /\ Done(c)
    /\ UNCHANGED <<failed, nameMap, namedStmts, known, cache, backendVars>>

-----------------------------------------------------------------------------
(* Sessions and connections end. *)

\* A pinned backend is released with its client, and the next session starts
\* without statements.
Disconnect(c) ==
    /\ pc[c] = "idle"
    /\ IF pin[c] # None THEN Renew(pin[c]) ELSE UNCHANGED backendVars
    /\ pin' = [pin EXCEPT ![c] = None]
    /\ nameMap' = [nameMap EXCEPT ![c] = [n \in Names |-> None]]
    /\ namedStmts' = [namedStmts EXCEPT ![c] = 0]
    /\ known' = [known EXCEPT ![c] = [n \in Names |-> None]]
    /\ failed' = [failed EXCEPT ![c] = FALSE]
    /\ UNCHANGED <<pc, job, held, sent, parses, cache>>

\* The target goroutine closes an idle connection and opens another.
Reap(b) ==
    /\ Free(b)
    /\ Renew(b)
    /\ UNCHANGED <<handlerVars, clientVars, cache>>

-----------------------------------------------------------------------------

Init ==
    /\ pc = [c \in Clients |-> "idle"]
    /\ job = [c \in Clients |-> NoJob]
    /\ held = [c \in Clients |-> None]
    /\ sent = [c \in Clients |-> <<>>]
    /\ parses = [c \in Clients |-> <<>>]
    /\ failed = [c \in Clients |-> FALSE]
    /\ pin = [c \in Clients |-> None]
    /\ nameMap = [c \in Clients |-> [n \in Names |-> None]]
    /\ namedStmts = [c \in Clients |-> 0]
    /\ known = [c \in Clients |-> [n \in Names |-> None]]
    /\ cache = {}
    /\ deployed = [b \in Backends |-> {}]
    /\ stmts = [b \in Backends |-> [x \in Targets |-> None]]

HandlerStep(c) ==
    \/ \E b \in Backends : Acquire(c, b)
    \/ AcquireFails(c)
    \/ \E h \in Hashes : Inject(c, h) \/ InjectFails(c, h)
    \/ Forward(c) \/ ForwardFails(c)
    \/ AnswerParse(c) \/ AnswerUse(c) \/ AnswerClose(c) \/ AnswerError(c)
    \/ FinishSync(c) \/ FinishFlush(c)

Next ==
    \/ \E c \in Clients :
          \/ \E shape \in Shapes, n \in Names, t \in Texts \cup {None} :
                ExecuteExtendedPipeline(c, shape, n, t)
          \/ \E t \in Queries : ExecuteAsPrepared(c, t)
          \/ HandlerStep(c)
          \/ Disconnect(c)
    \/ \E b \in Backends : Reap(b)

Spec == Init /\ [][Next]_vars

-----------------------------------------------------------------------------
(* Properties. *)

\* Every variable holds a value of its type.
TypeOK ==
    /\ pc \in [Clients -> {"idle", "acquire", "inject", "respond"}]
    /\ job \in [Clients -> Jobs]
    /\ held \in [Clients -> Backends \cup {None}]
    /\ sent \in [Clients -> Seq(Messages)]
    /\ parses \in [Clients -> Seq(Hashes)]
    /\ failed \in [Clients -> BOOLEAN]
    /\ pin \in [Clients -> Backends \cup {None}]
    /\ nameMap \in [Clients -> [Names -> Hashes \cup {None}]]
    /\ namedStmts \in [Clients -> Nat]
    /\ known \in [Clients -> [Names -> Texts \cup {None}]]
    /\ cache \in SUBSET Hashes
    /\ deployed \in [Backends -> SUBSET Hashes]
    /\ stmts \in [Backends -> [Targets -> Texts \cup {None}]]

\* deployedStmts is exact: HasStmt is true of the shared statements the server
\* session has, and of no other, whatever pipelines failed half way.
DeployedExact ==
    \A b \in Backends : deployed[b] = {h \in Hashes : stmts[b][h] # None}

\* A Bind or Describe finds its statement, on whichever connection it was sent
\* to: clients never meet "prepared statement does not exist" for a statement
\* whose Parse was acknowledged to them.
StatementFound ==
    \A c \in Clients : Running(c) /\ Current(c).type \in {"B", "D"} =>
        stmts[held[c]][Current(c).target] # None

\* What a Bind executes is the text its client has parsed under that name.
OwnText ==
    \A c \in Clients : Running(c) /\ Current(c).type = "B" =>
        stmts[held[c]][Current(c).target] \in {job[c].text, None}
=============================================================================
