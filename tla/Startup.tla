------------------------------ MODULE Startup ------------------------------
(***************************************************************************)
(* A client session from its startup message to its first request: the     *)
(* registry of Pools (server.go getPool, target.go allPools), the access   *)
(* rules (config.go, target.go checkAccess), and the SCRAM verifier, which *)
(* the target goroutine looks up on its privileged connection (startup.go, *)
(* target.go fetchSCRAMVerifier) between the probes and the statistics     *)
(* queries it sends there itself.                                          *)
(*                                                                         *)
(* One target, which is not removed (that is in Lifecycle).  What a        *)
(* session does with its Pool is in Wakeup and Pooling.                    *)
(***************************************************************************)
EXTENDS Integers, Sequences, FiniteSets, SequencesExt

CONSTANTS
    Clients,
    Keys,            \* what a client may connect as: [db, user]
    Addresses,       \* where it may connect from
    Rules,           \* the target's rules, a sequence of records
    Roles,           \* user -> what pg_authid may hold: "password", "null", "absent"
    RegisteredCap,   \* capacity of PoolRegistered, 64 in the code
    MaxUnread,       \* bound: messages left unread on the privileged connection
    Faults,          \* subset of {"die", "silent", "privRefused", "error", "late"}
    None

VARIABLES
    pc,          \* client -> where its goroutine is
    who,         \* client -> its database and user
    pool,        \* client -> the Pool getPool gave it
    verifier,    \* client -> the user whose verifier it was given
    pools,       \* key -> the Pool in Target.Pools
    registered,  \* PoolRegistered
    cached,      \* CachedPools
    tpc,         \* where the target goroutine is
    priv,        \* Backend, the privileged connection
    wire,        \* messages on it that are not read yet
    marked       \* the statements HasStmt finds on it

clientVars == <<pc, who, pool, verifier>>
registryVars == <<pools, registered, cached>>
privVars == <<priv, wire, marked>>
vars == <<clientVars, registryVars, tpc, privVars>>

\* A Pool object, named for its key and the goroutine that made it.
PoolObjects == Keys \X Clients

\* A DataRow is told by what it holds: a NULL and the rows of other queries are no
\* user's password.
ASSUME StartupAssumption ==
    /\ None \notin Keys \cup PoolObjects \cup DOMAIN Roles
    /\ \A k \in Keys : k.user \in DOMAIN Roles
    /\ {"null", "one", "stats"} \cap DOMAIN Roles = {}
    /\ \A u \in DOMAIN Roles : Roles[u] \subseteq {"password", "null", "absent"}
    /\ RegisteredCap \in Nat /\ MaxUnread \in Nat \ {0}

----------------------------------------------------------------------------
(* Access rules. *)

\* An empty list of a rule matches everything.
MatchesDatabase(r, db) == r.dbs = {} \/ db \in r.dbs
Matches(r, addr, k) ==
    /\ r.nets = {} \/ addr \in r.nets
    /\ r.users = {} \/ k.user \in r.users
    /\ MatchesDatabase(r, k.db)

\* The first rule of Rules that Test holds for decides; without one, permit.
FirstAllows(Test(_)) ==
    LET i == SelectInSeq(Rules, Test) IN i = 0 \/ Rules[i].action = "allow"

TargetServesDatabase(db) == FirstAllows(LAMBDA r : MatchesDatabase(r, db))
CheckAccessAllows(addr, k) == FirstAllows(LAMBDA r : Matches(r, addr, k))

----------------------------------------------------------------------------
(* The startup message and getPool.  Requests call getPool again; the Pool of a  *)
(* session that got one in its startup is there.                                 *)

Go(c, where) == pc' = [pc EXCEPT ![c] = where]

\* handleStartupMessage returns.  It returns nil also when the client was refused
\* and told so (3D000, 28000, 28P01): handleClient then goes on to serve it.
EndStartup(c) ==
    /\ pool' = [pool EXCEPT ![c] = None]
    /\ verifier' = [verifier EXCEPT ![c] = None]
    /\ Go(c, "ready")

\* A startup message without user or database ends the session; it is not shown.
HandleStartupMessage(c, k) ==
    /\ pc[c] = "off"
    /\ who' = [who EXCEPT ![c] = k]
    /\ Go(c, "getPool")
    /\ UNCHANGED <<pool, verifier, registryVars, tpc, privVars>>

\* The fast path, and the choice of a target.
GetPool(c) ==
    /\ pc[c] = "getPool"
    /\ LET p == pools[who[c]] IN
       \/ /\ TargetServesDatabase(who[c].db) /\ p # None
          /\ pool' = [pool EXCEPT ![c] = p]
          /\ Go(c, "access")
          /\ UNCHANGED verifier
       \/ /\ TargetServesDatabase(who[c].db) /\ p = None
          /\ Go(c, "create")
          /\ UNCHANGED <<pool, verifier>>
       \/ /\ ~TargetServesDatabase(who[c].db)
          /\ EndStartup(c)
    /\ UNCHANGED <<who, registryVars, tpc, privVars>>

\* Mutants of LoadOrStore: who comes second goes on without the Pool; Store in
\* place of LoadOrStore.
LoadOrStoreForgets(c) ==
    /\ pc[c] = "create"
    /\ LET k == who[c]
           stored == pools[k] = None IN
       /\ pools' = [pools EXCEPT ![k] = IF stored THEN <<k, c>> ELSE @]
       /\ pool' = [pool EXCEPT ![c] = IF stored THEN <<k, c>> ELSE @]
       /\ Go(c, IF stored THEN "register" ELSE "access")
    /\ UNCHANGED <<who, verifier, registered, cached, tpc, privVars>>

StoreAlways(c) ==
    /\ pc[c] = "create"
    /\ pools' = [pools EXCEPT ![who[c]] = <<who[c], c>>]
    /\ pool' = [pool EXCEPT ![c] = <<who[c], c>>]
    /\ Go(c, "register")
    /\ UNCHANGED <<who, verifier, registered, cached, tpc, privVars>>

LoadOrStore(c) ==
    /\ pc[c] = "create"
    /\ LET k == who[c]
           mine == <<k, c>>
           stored == pools[k] = None IN
       /\ pools' = [pools EXCEPT ![k] = IF stored THEN mine ELSE @]
       /\ pool' = [pool EXCEPT ![c] = pools'[k]]
       /\ Go(c, IF stored THEN "register" ELSE "access")
    /\ UNCHANGED <<who, verifier, registered, cached, tpc, privVars>>

\* The send on PoolRegistered does not block: into a full channel nothing goes.
RegisterPool(c) ==
    /\ pc[c] = "register"
    /\ registered' = IF Len(registered) < RegisteredCap
                     THEN Append(registered, pool[c]) ELSE registered
    /\ Go(c, "access")
    /\ UNCHANGED <<who, pool, verifier, pools, cached, tpc, privVars>>

----------------------------------------------------------------------------
(* Authentication. *)

\* Nothing but the rules looks at the address of a client.
CheckAccess(c) ==
    /\ pc[c] = "access"
    /\ \E addr \in Addresses :
          IF CheckAccessAllows(addr, who[c])
          THEN Go(c, "scram") /\ UNCHANGED <<pool, verifier>>
          ELSE EndStartup(c)
    /\ UNCHANGED <<who, registryVars, tpc, privVars>>

\* The exchange with the client, whose outcome nothing here depends on.
HandleClientSCRAM(c) ==
    /\ pc[c] = "exchange"
    /\ EndStartup(c)
    /\ UNCHANGED <<who, registryVars, tpc, privVars>>

\* Messages from PostgreSQL on the privileged connection: a DataRow carries the
\* password of a user, NULL, or a value of another query.
Msg(t) == [type |-> t, of |-> None]
Row(x) == [type |-> "D", of |-> x]
Messages ==
    {Msg(t) : t \in {"1", "2", "T", "C", "Z", "E"}}
    \cup {Row(x) : x \in DOMAIN Roles \cup {"null", "one", "stats"}}

ErrorReply == <<Msg("E"), Msg("Z")>>
Refusals == IF "error" \in Faults THEN {ErrorReply} ELSE {}

\* What the server may answer to Bind, Execute and Sync for the verifier of u.
AuthidReply(u, r) ==
    CASE r = "password" -> <<Msg("2"), Row(u), Msg("C"), Msg("Z")>>
      [] r = "null"     -> <<Msg("2"), Row("null"), Msg("C"), Msg("Z")>>
      [] r = "absent"   -> <<Msg("2"), Msg("C"), Msg("Z")>>
AuthidReplies(u) == {AuthidReply(u, r) : r \in Roles[u]} \cup Refusals

\* A statement that is not marked is parsed again before it is executed; the server
\* refuses that if it has it all the same.
Executed(stmt, replies) ==
    IF stmt \in marked THEN replies
    ELSE {<<Msg("1")>> \o reply : reply \in replies} \cup {ErrorReply}

\* The loops that read replies leave at ReadyForQuery and at an error; that of
\* fetchSCRAMVerifier also at a NULL.
Ends(m) == m.type \in {"Z", "E"}
EndsLookup(m) == Ends(m) \/ m = Row("null")
IsRow(m) == m.type = "D"

\* How many messages a loop reads, the first that ends it included.
EndAt(in, Test(_)) ==
    {n \in 1 .. Len(in) : Test(in[n]) /\ \A i \in 1 .. n - 1 : ~Test(in[i])}

\* A loop with a deadline reads as many as come in time when the server is slow.
\* What comes later stays on the connection.
Stops(in, Test(_)) ==
    EndAt(in, Test)
    \cup IF "late" \in Faults
         THEN {n \in 0 .. Len(in) : \A i \in 1 .. n : ~Test(in[i])} ELSE {}

LeftAt(in, n) == SubSeq(in, n + 1, Len(in))
Unread(in) == Len(in) <= MaxUnread

\* n messages are read, for a statement that a ParseComplete among them marks.
ReadMessages(stmt, in, n) ==
    /\ Unread(LeftAt(in, n))
    /\ wire' = LeftAt(in, n)
    /\ marked' = IF \E i \in 1 .. n : in[i] = Msg("1") THEN marked \cup {stmt} ELSE marked

\* Whose password a lookup has that came to a ReadyForQuery: that of the last row.
\* The rows of other queries do not parse as a verifier.
Password(in, n) ==
    {u \in DOMAIN Roles :
        /\ n > 0 /\ in[n].type = "Z"
        /\ \E i \in 1 .. n : in[i] = Row(u) /\ \A j \in i + 1 .. n : ~IsRow(in[j])}

\* Mutant of FetchSCRAMVerifier: a lookup waits for a connection that works.
FetchSCRAMVerifierWaits(c) ==
    /\ tpc = "loop" /\ pc[c] = "scram" /\ priv = "open"
    /\ verifier' = [verifier EXCEPT ![c] = who[c].user]
    /\ Go(c, "exchange")
    /\ UNCHANGED <<who, pool, registryVars, tpc, privVars>>

\* Case ScramCh of Target.run.  A dead connection fails to be read; on a silent
\* one the deadline passes.  On one that is merely slow it passes too, and the
\* connection is used again.
FetchSCRAMVerifier(c) ==
    /\ tpc = "loop" /\ pc[c] = "scram"
    /\ \/ /\ priv # "open"
          /\ EndStartup(c)
          /\ UNCHANGED <<wire, marked>>
       \/ /\ priv = "open"
          /\ \E reply \in Executed("scram", AuthidReplies(who[c].user)) :
             LET in == wire \o reply IN
             \E n \in Stops(in, EndsLookup) :
                /\ ReadMessages("scram", in, n)
                /\ \/ Password(in, n) = {} /\ EndStartup(c)
                   \/ \E u \in Password(in, n) :
                         /\ verifier' = [verifier EXCEPT ![c] = u]
                         /\ Go(c, "exchange")
                         /\ UNCHANGED pool
    /\ UNCHANGED <<who, priv, registryVars, tpc>>

Disconnect(c) ==
    /\ pc[c] = "ready"
    /\ Go(c, "off")
    /\ who' = [who EXCEPT ![c] = None]
    /\ UNCHANGED <<pool, verifier, registryVars, tpc, privVars>>

----------------------------------------------------------------------------
(* The target goroutine. *)

\* Cases Demand and growthTicker.  Of the cycle this is what it does to the
\* registry: allPools takes the pending registrations over.
AllPools == cached \o registered

GrowthCycle ==
    /\ tpc = "loop"
    /\ registered' = <<>>
    /\ cached' = AllPools
    /\ UNCHANGED <<pools, clientVars, tpc, privVars>>

\* What the server answers to "SELECT 1", to the statistics query, and to the Parses
\* of deployPrivilegedStmts.
ProbeReply == <<Msg("T"), Row("one"), Msg("C"), Msg("Z")>>
StatsReply == <<Msg("2"), Row("stats"), Msg("C"), Msg("Z")>>
StatsReplies == {StatsReply} \cup Refusals
DeployReplies ==
    {<<Msg("1"), Msg("1"), Msg("Z")>>}
    \cup Refusals \cup {<<Msg("1")>> \o reply : reply \in Refusals}

Stmts == <<"scram", "stats">>

\* A lost connection is replaced, and deployPrivilegedStmts prepares the statements.
ReplacePrivileged ==
    \/ /\ priv' = "open"
       /\ \E reply \in DeployReplies : \E n \in Stops(reply, Ends) :
             /\ wire' = LeftAt(reply, n)
             /\ marked' = {Stmts[i] : i \in {j \in 1 .. n : reply[j] = Msg("1")}}
    \/ /\ "privRefused" \in Faults
       /\ priv' = "none" /\ wire' = <<>> /\ marked' = {}

\* healthCheck of the privileged connection: a probe that is read up to the first
\* ReadyForQuery, without a deadline; a dead connection, or one on which it meets an
\* error, is replaced, once.
HealthCheckPrivileged ==
    \/ priv = "none" /\ UNCHANGED <<priv, wire, marked>>
    \/ /\ priv = "open"
       /\ LET in == wire \o ProbeReply IN
          \E n \in EndAt(in, Ends) :
             \/ in[n].type = "E" /\ ReplacePrivileged
             \/ /\ in[n].type = "Z"
                /\ Unread(LeftAt(in, n))
                /\ wire' = LeftAt(in, n)
                /\ UNCHANGED <<priv, marked>>
    \/ priv = "dead" /\ ReplacePrivileged

\* Case healthTicker.  The probe of a connection that is silent does not end.
HealthCheck ==
    /\ tpc = "loop"
    /\ IF priv = "silent"
       THEN tpc' = "stuck" /\ UNCHANGED <<registered, cached, priv, wire, marked>>
       ELSE /\ HealthCheckPrivileged
            /\ registered' = <<>>
            /\ cached' = AllPools
            /\ UNCHANGED tpc
    /\ UNCHANGED <<pools, clientVars>>

\* Mutant of UpdateServerStats: the loop is left with the row it waits for.
UpdateServerStatsEarly ==
    /\ tpc = "loop" /\ priv = "open"
    /\ LET in == wire \o StatsReply IN
       \E n \in EndAt(in, IsRow) : ReadMessages("stats", in, n)
    /\ UNCHANGED <<priv, clientVars, registryVars, tpc>>

\* Case statsTicker: rows of other queries have too few columns and are passed
\* over.  On a connection that is lost the query fails and changes nothing.
UpdateServerStats ==
    /\ tpc = "loop" /\ priv = "open"
    /\ \E reply \in Executed("stats", StatsReplies) :
          LET in == wire \o reply IN
          \E n \in Stops(in, Ends) : ReadMessages("stats", in, n)
    /\ UNCHANGED <<priv, clientVars, registryVars, tpc>>

\* The privileged connection is lost, or its peer stops to answer.
PrivilegedLost ==
    /\ priv = "open"
    /\ priv' \in {"dead", "silent"}
    /\ priv' = "dead" => "die" \in Faults
    /\ priv' = "silent" => "silent" \in Faults
    /\ wire' = <<>>
    /\ UNCHANGED <<marked, clientVars, registryVars, tpc>>

----------------------------------------------------------------------------
Init ==
    /\ pc = [c \in Clients |-> "off"]
    /\ who = [c \in Clients |-> None]
    /\ pool = [c \in Clients |-> None]
    /\ verifier = [c \in Clients |-> None]
    /\ pools = [k \in Keys |-> None]
    /\ registered = <<>> /\ cached = <<>>
    /\ tpc = "loop"
    /\ priv = "open" /\ wire = <<>> /\ marked = {"scram", "stats"}

\* What a session's goroutine does without its client and the target.
Session(c) ==
    GetPool(c) \/ LoadOrStore(c) \/ RegisterPool(c) \/ CheckAccess(c)

Next ==
    \/ \E c \in Clients :
          \/ Session(c) \/ FetchSCRAMVerifier(c) \/ HandleClientSCRAM(c)
          \/ Disconnect(c)
          \/ \E k \in Keys : HandleStartupMessage(c, k)
    \/ GrowthCycle \/ HealthCheck \/ UpdateServerStats \/ PrivilegedLost

Spec == Init /\ [][Next]_vars

\* A goroutine that can go on does; the select of Target.run chooses at random
\* among its ready cases.
Fairness ==
    \A c \in Clients : WF_vars(Session(c)) /\ SF_vars(FetchSCRAMVerifier(c))

FairSpec == Spec /\ Fairness

----------------------------------------------------------------------------
(* Properties. *)

\* Types; PoolRegistered holds no more than its capacity, and a session that has come
\* through getPool has a Pool, whoever else was making it at the same time.
TypeOK ==
    /\ pc \in [Clients -> {"off", "getPool", "create", "register", "access", "scram",
                           "exchange", "ready"}]
    /\ who \in [Clients -> Keys \cup {None}]
    /\ pool \in [Clients -> PoolObjects \cup {None}]
    /\ verifier \in [Clients -> DOMAIN Roles \cup {None}]
    /\ pools \in [Keys -> PoolObjects \cup {None}]
    /\ registered \in Seq(PoolObjects) /\ Len(registered) <= RegisteredCap
    /\ cached \in Seq(PoolObjects)
    /\ tpc \in {"loop", "stuck"}
    /\ priv \in {"open", "dead", "silent", "none"}
    /\ wire \in Seq(Messages) /\ marked \subseteq {"scram", "stats"}
    /\ \A c \in Clients :
          pc[c] \in {"register", "access", "scram", "exchange"} => pool[c] # None

\* The verifier a session is given is that of its own user: replies on the
\* privileged connection go to the lookups that caused them, also after the
\* connection was lost and replaced (fetchSCRAMVerifier).  With a NULL password, an
\* error or a reply that comes after the deadline it does not hold.
OwnVerifier == \A c \in Clients : pc[c] = "exchange" => verifier[c] = who[c].user

\* The Pools that clients find are exactly those the target goroutine knows, has
\* in PoolRegistered, or is about to be sent by their creators; a Pool that lost
\* the race of getPool's LoadOrStore is in none of these places and in nobody's
\* hand (getPool, allPools).
PoolsAgree ==
    LET stored == Range(pools) \ {None} IN
    /\ stored = Range(AllPools) \cup {pool[c] : c \in {d \in Clients : pc[d] = "register"}}
    /\ \A c \in Clients : pool[c] # None => pool[c] \in stored
    /\ Cardinality(Range(AllPools)) = Len(AllPools)

\* A startup that was begun ends in an exchange with the client or a refusal.
StartupEnds ==
    \A c \in Clients :
       pc[c] \in {"getPool", "create", "register", "access", "scram"}
       ~> pc[c] \in {"exchange", "ready"}
============================================================================
