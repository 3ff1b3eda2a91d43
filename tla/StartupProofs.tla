--------------------------- MODULE StartupProofs ----------------------------
(***************************************************************************)
(* Proofs that clients and target goroutine agree on the Pools, and that a *)
(* session is given its own user's verifier, for any number of sessions,   *)
(* any databases, users and access rules, and whatever becomes of the      *)
(* privileged connection.                                                  *)
(***************************************************************************)
EXTENDS Startup, FiniteSetTheorems, TLAPS

\* The databases and users a Pool may be made for.
Served == {k \in Keys : TargetServesDatabase(k.db)}

\* PoolRegistered has room for a Pool of each of them: the target goroutine is never
\* told of a Pool that finds it full.
RoomToRegister == IsFiniteSet(Served) /\ Cardinality(Served) <= RegisteredCap

\* A lookup that meets a NULL or an error, or whose deadline passes before the reply
\* has come, leaves the rest of the reply on the connection.
RepliesReadToTheirEnd ==
    /\ Faults \cap {"error", "late"} = {}
    /\ \A u \in DOMAIN Roles : "null" \notin Roles[u]

-----------------------------------------------------------------------------
(* The inductive invariants. *)

\* A session that has begun knows its database and user, and what it registers is
\* a Pool.
Known ==
    \A c \in Clients :
        /\ pc[c] # "off" => who[c] \in Keys
        /\ pc[c] = "register" => pool[c] \in PoolObjects

\* A Pool is stored under its own key, which the rules let be served.
Made ==
    \A k \in Keys : pools[k] # None =>
        k \in Served /\ \E d \in Clients : pools[k] = <<k, d>>

\* Whoever creates has been told that the database is served; whoever registers
\* has made and stored its Pool, which the target goroutine cannot know yet.
Creating ==
    \A c \in Clients :
        /\ pc[c] = "create" => who[c] \in Served
        /\ pc[c] = "register" =>
              /\ pool[c] = <<who[c], c>> /\ pools[who[c]] = pool[c]
              /\ \A i \in 1..Len(AllPools) : AllPools[i] # pool[c]

\* A session's Pool is a stored one.
HandedOut == \A c \in Clients : pool[c] # None => \E k \in Keys : pools[k] = pool[c]

\* What the target goroutine knows or is sent is stored, and nothing twice.
Listed ==
    \A i \in 1..Len(AllPools) :
        /\ \E k \in Keys : pools[k] = AllPools[i]
        /\ \A j \in 1..Len(AllPools) : AllPools[i] = AllPools[j] => i = j

\* What is stored, the target goroutine knows, is sent, or is about to be sent.
Told ==
    \A k \in Keys : pools[k] # None =>
        \/ \E i \in 1..Len(AllPools) : AllPools[i] = pools[k]
        \/ \E c \in Clients : pc[c] = "register" /\ pool[c] = pools[k]

PoolsInv ==
    /\ TypeOK
    /\ Known /\ Made /\ Creating /\ HandedOut /\ Listed /\ Told

\* Every reply on the privileged connection is read by the one who caused it, and a
\* connection in use has its statements.
VerifierInv ==
    /\ TypeOK /\ Known /\ OwnVerifier
    /\ wire = <<>>
    /\ priv = "open" => marked = {"scram", "stats"}

-----------------------------------------------------------------------------
(* Types. *)

LEMMA TypeInit == Init => TypeOK /\ Known
  <1> SUFFICES ASSUME Init PROVE TypeOK /\ Known
    OBVIOUS
  <1>1. marked \subseteq {"scram", "stats"} /\ wire \in Seq(Messages)
    BY DEF Init
  <1>2. \A c \in Clients : pc[c] = "off"
    BY DEF Init
  <1>3. Known
    BY DEF Init, Known
  <1>4. registered \in Seq(PoolObjects) /\ cached \in Seq(PoolObjects)
    BY DEF Init
  <1>5. Len(registered) <= RegisteredCap
    BY StartupAssumption DEF Init
  <1> QED BY <1>1, <1>2, <1>3, <1>4, <1>5 DEF Init, TypeOK

LEMMA AllPoolsSeq == TypeOK => AllPools \in Seq(PoolObjects)
  BY DEF TypeOK, AllPools

\* The steps of a session that leave the privileged connection alone.
LEMMA SessionTypes ==
    ASSUME TypeOK, Known, NEW c \in Clients,
           \/ Session(c) \/ HandleClientSCRAM(c) \/ Disconnect(c)
           \/ \E k \in Keys : HandleStartupMessage(c, k)
    PROVE  (TypeOK /\ Known)'
<1> USE DEF TypeOK, Known, Go, EndStartup
<1>1. CASE GetPool(c)
  BY <1>1 DEF GetPool, registryVars, privVars
<1>2. CASE LoadOrStore(c)
  <2>1. <<who[c], c>> \in PoolObjects
    BY <1>2 DEF LoadOrStore, PoolObjects
  <2>2. pools' \in [Keys -> PoolObjects \cup {None}]
    BY <1>2, <2>1 DEF LoadOrStore
  <2>3. pools'[who[c]] \in PoolObjects /\ pools'[who[c]] # None
    BY <1>2, <2>1, StartupAssumption DEF LoadOrStore
  <2>4. /\ pc' = [pc EXCEPT ![c] = pc'[c]] /\ pc'[c] \in {"register", "access"}
        /\ pool' = [pool EXCEPT ![c] = pools'[who[c]]]
        /\ pc[c] = "create"
    BY <1>2 DEF LoadOrStore
  <2>5. UNCHANGED <<who, verifier, registered, cached, tpc, privVars>>
    BY <1>2 DEF LoadOrStore
  <2>6. pc' \in [Clients -> {"off", "getPool", "create", "register", "access", "scram",
                             "exchange", "ready"}]
    BY <2>4
  <2>7. pool' \in [Clients -> PoolObjects \cup {None}]
    BY <2>3, <2>4
  <2>8. Known'
    BY <2>3, <2>4, <2>5, <2>7
  <2>9. \A d \in Clients :
           pc'[d] \in {"register", "access", "scram", "exchange"} => pool'[d] # None
    BY <2>3, <2>4
  <2> QED BY <2>2, <2>5, <2>6, <2>7, <2>8, <2>9 DEF privVars
<1>3. CASE RegisterPool(c)
  <2>1. pool[c] \in PoolObjects
    BY <1>3 DEF RegisterPool
  <2>2. registered' \in Seq(PoolObjects) /\ Len(registered') <= RegisteredCap
    BY <1>3, <2>1, StartupAssumption DEF RegisterPool
  <2> QED BY <1>3, <2>2 DEF RegisterPool, privVars
<1>5. CASE CheckAccess(c)
  BY <1>5 DEF CheckAccess, registryVars, privVars
<1>6. CASE HandleClientSCRAM(c)
  BY <1>6 DEF HandleClientSCRAM, registryVars, privVars
<1>7. CASE Disconnect(c)
  BY <1>7 DEF Disconnect, registryVars, privVars
<1>8. CASE \E k \in Keys : HandleStartupMessage(c, k)
  BY <1>8 DEF HandleStartupMessage, registryVars, privVars
<1> QED BY <1>1, <1>2, <1>3, <1>5, <1>6, <1>7, <1>8 DEF Session

\* What the server sends are messages.
LEMMA ReplyTypes ==
    /\ ProbeReply \in Seq(Messages) /\ ErrorReply \in Seq(Messages)
    /\ StatsReplies \subseteq Seq(Messages) /\ DeployReplies \subseteq Seq(Messages)
    /\ \A u \in DOMAIN Roles : AuthidReplies(u) \subseteq Seq(Messages)
<1>1. /\ \A t \in {"1", "2", "T", "C", "Z", "E"} : Msg(t) \in Messages
      /\ \A x \in DOMAIN Roles \cup {"null", "one", "stats"} : Row(x) \in Messages
  BY DEF Messages
<1>2. ErrorReply \in Seq(Messages) /\ Refusals \subseteq {ErrorReply}
  BY <1>1 DEF ErrorReply, Refusals
<1>3. ProbeReply \in Seq(Messages) /\ StatsReply \in Seq(Messages)
  BY <1>1 DEF ProbeReply, StatsReply
<1>4. /\ <<Msg("1")>> \in Seq(Messages)
      /\ <<Msg("1"), Msg("1"), Msg("Z")>> \in Seq(Messages)
  BY <1>1
<1>5. <<Msg("1")>> \o ErrorReply \in Seq(Messages)
  BY <1>2, <1>4
<1>6. StatsReplies \subseteq Seq(Messages) /\ DeployReplies \subseteq Seq(Messages)
  BY <1>2, <1>3, <1>4, <1>5 DEF StatsReplies, DeployReplies
<1>7. ASSUME NEW u \in DOMAIN Roles, NEW r \in {"password", "null", "absent"}
      PROVE  AuthidReply(u, r) \in Seq(Messages)
  BY <1>1 DEF AuthidReply
<1>8. \A u \in DOMAIN Roles : AuthidReplies(u) \subseteq Seq(Messages)
  BY <1>2, <1>7, StartupAssumption DEF AuthidReplies
<1> QED BY <1>2, <1>3, <1>6, <1>8

LEMMA ExecutedTypes ==
    ASSUME NEW stmt, NEW replies \in SUBSET Seq(Messages)
    PROVE  Executed(stmt, replies) \subseteq Seq(Messages)
<1>1. <<Msg("1")>> \in Seq(Messages)
  BY DEF Messages
<1>2. \A reply \in replies : <<Msg("1")>> \o reply \in Seq(Messages)
  BY <1>1
<1> QED BY <1>2, ReplyTypes DEF Executed

\* A loop stops within what there is to read.
LEMMA StopsBounds ==
    ASSUME NEW in \in Seq(Messages)
    PROVE  /\ EndAt(in, Ends) \subseteq 0..Len(in)
           /\ Stops(in, Ends) \subseteq 0..Len(in)
           /\ Stops(in, EndsLookup) \subseteq 0..Len(in)
  BY DEF Stops, EndAt

LEMMA LeftType ==
    ASSUME NEW in \in Seq(Messages), NEW n \in 0..Len(in)
    PROVE  LeftAt(in, n) \in Seq(Messages)
  BY DEF LeftAt

LEMMA ReadTypes ==
    ASSUME TypeOK, NEW stmt \in {"scram", "stats"}, NEW in \in Seq(Messages),
           NEW n \in 0..Len(in), ReadMessages(stmt, in, n)
    PROVE  wire' \in Seq(Messages) /\ marked' \subseteq {"scram", "stats"}
  BY LeftType DEF ReadMessages, TypeOK

\* Only the first two messages tell deployPrivilegedStmts of a statement.
LEMMA DeployMarks ==
    ASSUME NEW reply \in DeployReplies, NEW j \in 1..Len(reply), reply[j] = Msg("1")
    PROVE  j \in {1, 2}
<1>1. Msg("Z") # Msg("1") /\ Msg("E") # Msg("1")
  BY DEF Msg
<1>2. CASE reply = <<Msg("1"), Msg("1"), Msg("Z")>>
  BY <1>1, <1>2
<1>3. CASE reply = ErrorReply
  BY <1>3 DEF ErrorReply
<1>4. CASE reply = <<Msg("1")>> \o ErrorReply
  BY <1>1, <1>4 DEF ErrorReply
<1> QED BY <1>2, <1>3, <1>4 DEF DeployReplies, Refusals

LEMMA ReplaceTypes ==
    ASSUME ReplacePrivileged
    PROVE  /\ priv' \in {"open", "none"}
           /\ wire' \in Seq(Messages) /\ marked' \subseteq {"scram", "stats"}
<1>1. CASE priv' = "none" /\ wire' = <<>> /\ marked' = {}
  BY <1>1
<1>2. ASSUME NEW reply \in DeployReplies, NEW n \in Stops(reply, Ends), priv' = "open",
             wire' = LeftAt(reply, n),
             marked' = {Stmts[i] : i \in {j \in 1 .. n : reply[j] = Msg("1")}}
      PROVE  /\ priv' \in {"open", "none"}
             /\ wire' \in Seq(Messages) /\ marked' \subseteq {"scram", "stats"}
  <2>1. reply \in Seq(Messages)
    BY ReplyTypes
  <2>2. n \in 0..Len(reply)
    BY <2>1, StopsBounds
  <2>3. \A j \in 1..Len(reply) : reply[j] = Msg("1") => j \in {1, 2}
    BY DeployMarks
  <2> QED BY <1>2, <2>1, <2>2, <2>3, LeftType DEF Stmts
<1> QED BY <1>1, <1>2 DEF ReplacePrivileged

\* The steps of the target goroutine and of the privileged connection.
LEMMA TargetTypes ==
    ASSUME TypeOK, Known, GrowthCycle \/ HealthCheck \/ UpdateServerStats \/ PrivilegedLost
    PROVE  (TypeOK /\ Known)'
<1>1. AllPools \in Seq(PoolObjects) /\ <<>> \in Seq(PoolObjects)
  BY AllPoolsSeq
<1>2. Len(<<>>) <= RegisteredCap /\ <<>> \in Seq(Messages)
  BY StartupAssumption
<1>3. CASE GrowthCycle
  BY <1>1, <1>2, <1>3 DEF GrowthCycle, clientVars, privVars, TypeOK, Known
<1>4. CASE HealthCheck
  <2>1. UNCHANGED <<pools, clientVars>> /\ tpc' \in {"loop", "stuck"}
    BY <1>4 DEF HealthCheck
  <2>2. /\ registered' \in Seq(PoolObjects) /\ Len(registered') <= RegisteredCap
        /\ cached' \in Seq(PoolObjects)
    BY <1>1, <1>2, <1>4 DEF HealthCheck, TypeOK
  <2> DEFINE Fine == /\ priv' \in {"open", "dead", "silent", "none"}
                     /\ wire' \in Seq(Messages) /\ marked' \subseteq {"scram", "stats"}
  <2>3. ReplacePrivileged => Fine
    BY ReplaceTypes
  <2>4. ASSUME NEW n \in EndAt(wire \o ProbeReply, Ends), wire' = LeftAt(wire \o ProbeReply, n),
               UNCHANGED <<priv, marked>>
        PROVE  Fine
    <3>1. wire \o ProbeReply \in Seq(Messages)
      BY ReplyTypes DEF TypeOK
    <3>2. n \in 0..Len(wire \o ProbeReply)
      BY <3>1, StopsBounds
    <3>3. wire' \in Seq(Messages)
      BY <2>4, <3>1, <3>2, LeftType
    <3> QED BY <2>4, <3>3 DEF TypeOK
  <2>5. UNCHANGED <<priv, wire, marked>> => Fine
    BY DEF TypeOK
  <2>6. Fine
    <3> HIDE DEF Fine
    <3> QED BY <1>4, <2>3, <2>4, <2>5 DEF HealthCheck, HealthCheckPrivileged
  <2> QED BY <2>1, <2>2, <2>6 DEF clientVars, TypeOK, Known
<1>5. CASE UpdateServerStats
  <2>1. UNCHANGED <<priv, clientVars, registryVars, tpc>>
    BY <1>5 DEF UpdateServerStats
  <2>2. PICK reply \in Executed("stats", StatsReplies) :
           \E n \in Stops(wire \o reply, Ends) : ReadMessages("stats", wire \o reply, n)
    BY <1>5 DEF UpdateServerStats
  <2>3. wire \o reply \in Seq(Messages)
    <3>1. reply \in Seq(Messages)
      BY ReplyTypes, ExecutedTypes
    <3> QED BY <3>1 DEF TypeOK
  <2>4. wire' \in Seq(Messages) /\ marked' \subseteq {"scram", "stats"}
    BY <2>2, <2>3, StopsBounds, ReadTypes
  <2> QED BY <2>1, <2>4 DEF clientVars, registryVars, TypeOK, Known
<1>6. CASE PrivilegedLost
  BY <1>2, <1>6 DEF PrivilegedLost, clientVars, registryVars, TypeOK, Known
<1> QED BY <1>3, <1>4, <1>5, <1>6

LEMMA LookupTypes ==
    ASSUME TypeOK, Known, NEW c \in Clients, FetchSCRAMVerifier(c)
    PROVE  (TypeOK /\ Known)'
<1>1. UNCHANGED <<who, priv, registryVars, tpc>> /\ pc[c] = "scram"
  BY DEF FetchSCRAMVerifier
<1>2. \/ EndStartup(c)
      \/ \E u \in DOMAIN Roles :
            /\ verifier' = [verifier EXCEPT ![c] = u]
            /\ Go(c, "exchange") /\ UNCHANGED pool
  BY DEF FetchSCRAMVerifier, Password
<1>3. wire' \in Seq(Messages) /\ marked' \subseteq {"scram", "stats"}
  <2>1. CASE UNCHANGED <<wire, marked>>
    BY <2>1 DEF TypeOK
  <2>2. ASSUME NEW reply \in Executed("scram", AuthidReplies(who[c].user)),
               NEW n \in Stops(wire \o reply, EndsLookup),
               ReadMessages("scram", wire \o reply, n)
        PROVE  wire' \in Seq(Messages) /\ marked' \subseteq {"scram", "stats"}
    <3>1. who[c].user \in DOMAIN Roles
      BY <1>1, StartupAssumption DEF Known
    <3>2. reply \in Seq(Messages)
      BY <3>1, ReplyTypes, ExecutedTypes
    <3>3. wire \o reply \in Seq(Messages)
      BY <3>2 DEF TypeOK
    <3> QED BY <2>2, <3>3, StopsBounds, ReadTypes
  <2> QED BY <2>1, <2>2 DEF FetchSCRAMVerifier
<1> QED BY <1>1, <1>2, <1>3 DEF EndStartup, Go, registryVars, TypeOK, Known

LEMMA TypeNext == TypeOK /\ Known /\ [Next]_vars => (TypeOK /\ Known)'
<1> SUFFICES ASSUME TypeOK, Known, [Next]_vars PROVE (TypeOK /\ Known)'
  OBVIOUS
<1>1. CASE UNCHANGED vars
  BY <1>1 DEF vars, clientVars, registryVars, privVars, TypeOK, Known
<1>2. CASE Next
  BY <1>2, SessionTypes, LookupTypes, TargetTypes DEF Next
<1> QED BY <1>1, <1>2

\* Every variable keeps its type, for any clients, keys, rules and roles:
\* getPool's send on PoolRegistered and allPools' drain keep it within its
\* capacity, and a session that creates or registers a Pool knows its key.
THEOREM StartupTypeCorrect == Spec => []TypeOK
<1>1. Spec => [](TypeOK /\ Known)
  BY TypeInit, TypeNext, PTL DEF Spec
<1> QED BY <1>1, PTL

-----------------------------------------------------------------------------
(* The registry of Pools. *)

\* What holds of the sessions that do not move.
Others(c) ==
    \A d \in Clients \ {c} : pc'[d] = pc[d] /\ pool'[d] = pool[d] /\ who'[d] = who[d]

LEMMA PoolsInit == Init => PoolsInv
  <1> SUFFICES ASSUME Init PROVE PoolsInv
    OBVIOUS
  <1>1. AllPools = <<>> /\ Len(AllPools) = 0
    BY DEF Init, AllPools
  <1>2. Made /\ Creating /\ HandedOut /\ Listed /\ Told
    BY <1>1 DEF Init, Made, Creating, HandedOut, Listed, Told
  <1> QED BY <1>2, TypeInit DEF PoolsInv

\* A step of a session that neither creates nor registers a Pool.
LEMMA QuietSession ==
    ASSUME PoolsInv, NEW c \in Clients, Others(c), pools' = pools, AllPools' = AllPools,
           pc[c] # "register", pc'[c] # "register", pc'[c] = "create" => who'[c] \in Served,
           pool'[c] \in {pool[c], None, pools[who[c]]}, pc[c] = "off" => pool'[c] = pool[c]
    PROVE  (Made /\ Creating /\ HandedOut /\ Listed /\ Told)'
<1> USE DEF PoolsInv, Others
<1>1. Made' /\ Listed'
  BY DEF Made, Listed
<1>2. Creating'
  BY DEF Creating
<1>3. HandedOut'
  BY DEF HandedOut, Known
<1>4. Told'
  BY DEF Told
<1> QED BY <1>1, <1>2, <1>3, <1>4

\* A step of the target goroutine.
LEMMA QuietTarget ==
    ASSUME PoolsInv, UNCHANGED <<pc, pool, who, pools>>, AllPools' = AllPools
    PROVE  (Made /\ Creating /\ HandedOut /\ Listed /\ Told)'
  BY DEF PoolsInv, Made, Creating, HandedOut, Listed, Told

LEMMA AllPoolsKept ==
    ASSUME TypeOK, TypeOK', registered' = <<>>, cached' = AllPools
    PROVE  AllPools' = AllPools
<1>1. AllPools \in Seq(PoolObjects)
  BY AllPoolsSeq
<1>2. \A s \in Seq(PoolObjects) : s \o <<>> = s
  OBVIOUS
<1> QED BY <1>1, <1>2 DEF AllPools

LEMMA LoadOrStorePools ==
    ASSUME PoolsInv, TypeOK', NEW c \in Clients, LoadOrStore(c)
    PROVE  (Made /\ Creating /\ HandedOut /\ Listed /\ Told)'
<1> DEFINE k == who[c]
<1> USE DEF PoolsInv
<1>1. /\ AllPools' = AllPools /\ UNCHANGED who
      /\ k \in Served /\ k \in Keys /\ pc[c] = "create"
      /\ pool' = [pool EXCEPT ![c] = pools'[k]]
  BY DEF LoadOrStore, AllPools, Creating, Served
<1>2. CASE pools[k] # None
  <2>1. pools' = pools /\ pc' = [pc EXCEPT ![c] = "access"]
    BY <1>2 DEF LoadOrStore, Go, TypeOK
  <2>2. Others(c)
    BY <1>1, <2>1 DEF Others, TypeOK
  <2>3. pool'[c] = pools[who[c]] /\ pc'[c] = "access"
    BY <1>1, <2>1 DEF TypeOK
  <2> QED BY <1>1, <2>1, <2>2, <2>3, QuietSession
<1>3. CASE pools[k] = None
  <2>1. pools' = [pools EXCEPT ![k] = <<k, c>>] /\ pc' = [pc EXCEPT ![c] = "register"]
    BY <1>3 DEF LoadOrStore, Go
  <2>2. /\ \A d \in Clients : /\ d # c => pc'[d] = pc[d] /\ pool'[d] = pool[d]
                              /\ who'[d] = who[d]
        /\ pc'[c] = "register" /\ pool'[c] = <<k, c>> /\ pools'[k] = <<k, c>>
        /\ \A l \in Keys : l # k => pools'[l] = pools[l]
    BY <1>1, <2>1 DEF TypeOK
  <2>3. None # <<k, c>>
    BY <1>1, StartupAssumption DEF PoolObjects
  <2>4. \A l \in Keys : pools[l] # <<k, c>>
    <3> SUFFICES ASSUME NEW l \in Keys, pools[l] = <<k, c>> PROVE FALSE
      OBVIOUS
    <3>1. PICK d \in Clients : pools[l] = <<l, d>>
      BY <2>3 DEF Made
    <3> QED BY <1>3, <2>3, <3>1
  <2>5. Made'
    BY <1>1, <2>2 DEF Made
  <2>6. HandedOut'
    BY <1>1, <1>3, <2>2 DEF HandedOut
  <2>7. Listed'
    <3>1. AllPools \in Seq(PoolObjects)
      BY AllPoolsSeq
    <3>2. \A i \in 1..Len(AllPools) : AllPools[i] # None
      BY <3>1, StartupAssumption
    <3> QED BY <1>1, <1>3, <2>2, <3>2 DEF Listed
  <2>8. Told'
    BY <1>1, <1>3, <2>2 DEF Told
  <2>9. Creating'
    <3> SUFFICES ASSUME NEW d \in Clients
                 PROVE  /\ pc'[d] = "create" => who'[d] \in Served
                        /\ pc'[d] = "register" =>
                              /\ pool'[d] = <<who'[d], d>> /\ pools'[who'[d]] = pool'[d]
                              /\ \A i \in 1..Len(AllPools) : AllPools[i] # pool'[d]
      BY <1>1 DEF Creating
    <3>1. CASE d = c
      BY <1>1, <2>2, <2>4, <3>1 DEF Listed
    <3>2. CASE d # c
      <4>1. pc[d] = "register" => pools[who[d]] # None
        BY StartupAssumption DEF Creating, Known
      <4>2. pc[d] = "register" => who[d] # k
        BY <1>3, <4>1
      <4> QED BY <2>2, <3>2, <4>2 DEF Creating, Known
    <3> QED BY <3>1, <3>2
  <2> QED BY <2>5, <2>6, <2>7, <2>8, <2>9
<1> QED BY <1>2, <1>3

\* PoolRegistered has room for a Pool that is being registered: the Pools in it
\* and this one have different keys, all of which are served.
LEMMA RoomLeft ==
    ASSUME RoomToRegister, PoolsInv, NEW c \in Clients, pc[c] = "register"
    PROVE  Len(registered) < RegisteredCap
<1> USE DEF PoolsInv
<1> DEFINE n == Len(registered)
           key == [i \in 1..n |-> registered[i][1]]
           rest == Served \ {who[c]}
<1>1. /\ n \in Nat /\ Len(cached) \in Nat /\ Len(AllPools) = Len(cached) + n
      /\ \A i \in 1..n : /\ Len(cached) + i \in 1..Len(AllPools)
                         /\ AllPools[Len(cached) + i] = registered[i]
  BY DEF TypeOK, AllPools
<1>2. who[c] \in Keys /\ pools[who[c]] = pool[c] /\ pool[c] = <<who[c], c>> /\ pool[c] # None
  BY StartupAssumption DEF Creating, Known
<1>3. who[c] \in Served
  BY <1>2 DEF Made
<1>4. ASSUME NEW i \in 1..n
      PROVE  /\ registered[i][1] \in rest
             /\ pools[registered[i][1]] = registered[i]
  <2>1. PICK k \in Keys : pools[k] = registered[i]
    BY <1>1 DEF Listed
  <2>2. registered[i] \in PoolObjects
    BY DEF TypeOK
  <2>3. pools[k] # None
    BY <2>1, <2>2, StartupAssumption
  <2>4. PICK d \in Clients : pools[k] = <<k, d>>
    BY <2>3 DEF Made
  <2>5. registered[i] # pool[c]
    BY <1>1 DEF Creating
  <2>6. k # who[c]
    BY <1>2, <2>1, <2>5
  <2>7. registered[i][1] = k
    <3>1. registered[i] = <<k, d>>
      BY <2>1, <2>4
    <3> QED BY <3>1
  <2>8. k \in Served
    BY <2>3 DEF Made
  <2> QED BY <2>1, <2>6, <2>7, <2>8
<1>5. \A i, j \in 1..n : key[i] = key[j] => i = j
  <2> SUFFICES ASSUME NEW i \in 1..n, NEW j \in 1..n, key[i] = key[j] PROVE i = j
    OBVIOUS
  <2>1. registered[i] = registered[j]
    BY <1>4
  <2> QED BY <1>1, <2>1 DEF Listed
<1>6. key \in [1..n -> rest]
  BY <1>4
<1> HIDE DEF key, n
<1>7. key \in Injection(1..n, rest)
  BY <1>5, <1>6 DEF Injection, IsInjective
<1>8. IsFiniteSet(rest) /\ Cardinality(rest) = Cardinality(Served) - 1
  BY <1>3, FS_RemoveElement DEF RoomToRegister
<1>9. Cardinality(1..n) <= Cardinality(rest)
  BY <1>7, <1>8, FS_Injection
<1>10. Cardinality(1..n) = n
  <2>1. \A m \in Nat : Cardinality(1..m) = m
    BY FS_Interval
  <2> QED BY <1>1, <2>1
<1>11. Cardinality(Served) \in Nat
  BY FS_CardinalityType DEF RoomToRegister
<1>12. n < RegisteredCap
  BY <1>1, <1>8, <1>9, <1>10, <1>11, StartupAssumption DEF RoomToRegister
<1> QED BY <1>12 DEF n

LEMMA RegisterPoolPools ==
    ASSUME RoomToRegister, PoolsInv, TypeOK', NEW c \in Clients, RegisterPool(c)
    PROVE  (Made /\ Creating /\ HandedOut /\ Listed /\ Told)'
<1> USE DEF PoolsInv
<1>1. pc[c] = "register" /\ pool[c] \in PoolObjects /\ who[c] \in Keys
  BY DEF RegisterPool, Known
<1>2. registered' = Append(registered, pool[c])
  BY <1>1, RoomLeft DEF RegisterPool
<1>3. /\ UNCHANGED <<who, pool, pools, cached>> /\ pc' = [pc EXCEPT ![c] = "access"]
  BY DEF RegisterPool, Go
<1>4. AllPools' = Append(AllPools, pool[c])
  BY <1>1, <1>2, <1>3 DEF AllPools, TypeOK
<1> DEFINE m == Len(AllPools)
<1>5. /\ m \in Nat /\ Len(AllPools') = m + 1 /\ AllPools'[m + 1] = pool[c]
      /\ \A i \in 1..m : AllPools'[i] = AllPools[i]
  BY <1>1, <1>4, AllPoolsSeq
<1>6. \A i \in 1..Len(AllPools') : i \in 1..m \/ i = m + 1
  BY <1>5
<1>7. \A i \in 1..m : AllPools[i] # pool[c]
  BY <1>1 DEF Creating
<1>8. pools[who[c]] = pool[c] /\ pool[c] = <<who[c], c>>
  BY <1>1 DEF Creating
<1>9. pc'[c] = "access" /\ \A d \in Clients : d # c => pc'[d] = pc[d]
  BY <1>3 DEF TypeOK
<1>10. Made' /\ HandedOut'
  BY <1>3 DEF Made, HandedOut
<1>11. Listed'
  <2>1. \A i \in 1..Len(AllPools') : \E k \in Keys : pools'[k] = AllPools'[i]
    BY <1>1, <1>3, <1>5, <1>6, <1>8 DEF Listed
  <2>2. \A i, j \in 1..Len(AllPools') : AllPools'[i] = AllPools'[j] => i = j
    BY <1>5, <1>6, <1>7 DEF Listed
  <2> QED BY <2>1, <2>2 DEF Listed
<1>12. Told'
  <2> SUFFICES ASSUME NEW k \in Keys, pools[k] # None
               PROVE  \/ \E i \in 1..Len(AllPools') : AllPools'[i] = pools[k]
                      \/ \E d \in Clients : pc'[d] = "register" /\ pool[d] = pools[k]
    BY <1>3 DEF Told
  <2>1. CASE \E i \in 1..m : AllPools[i] = pools[k]
    BY <1>5, <2>1
  <2>2. CASE pools[k] = pool[c]
    <3>1. m + 1 \in 1..Len(AllPools')
      BY <1>5
    <3> QED BY <1>5, <2>2, <3>1
  <2>3. CASE \E d \in Clients \ {c} : pc[d] = "register" /\ pool[d] = pools[k]
    BY <1>9, <2>3
  <2> QED BY <2>1, <2>2, <2>3 DEF Told
<1>13. Creating'
  <2> SUFFICES ASSUME NEW d \in Clients
               PROVE  /\ pc'[d] = "create" => who[d] \in Served
                      /\ pc'[d] = "register" =>
                            /\ pool[d] = <<who[d], d>> /\ pools[who[d]] = pool[d]
                            /\ \A i \in 1..Len(AllPools') : AllPools'[i] # pool[d]
    BY <1>3 DEF Creating
  <2>1. pc'[d] = "register" => d # c /\ pc[d] = "register"
    BY <1>9
  <2>2. pc'[d] = "register" => pool[d] # pool[c]
    BY <1>8, <2>1 DEF Creating
  <2> QED BY <1>5, <1>6, <1>9, <2>1, <2>2 DEF Creating
<1> QED BY <1>10, <1>11, <1>12, <1>13

LEMMA PoolsNext == RoomToRegister /\ PoolsInv /\ [Next]_vars => PoolsInv'
<1> SUFFICES ASSUME RoomToRegister, PoolsInv, [Next]_vars
             PROVE  (Made /\ Creating /\ HandedOut /\ Listed /\ Told)'
  BY TypeNext DEF PoolsInv
<1>0. TypeOK /\ Known /\ TypeOK' /\ Known'
  BY TypeNext DEF PoolsInv
<1>1. CASE UNCHANGED vars
  <2>1. AllPools' = AllPools
    BY <1>1 DEF vars, registryVars, AllPools
  <2> QED BY <1>1, <2>1, QuietTarget DEF vars, clientVars, registryVars
<1>2. ASSUME NEW c \in Clients,
             \/ GetPool(c) \/ CheckAccess(c) \/ HandleClientSCRAM(c) \/ Disconnect(c)
             \/ FetchSCRAMVerifier(c) \/ \E k \in Keys : HandleStartupMessage(c, k)
      PROVE  (Made /\ Creating /\ HandedOut /\ Listed /\ Told)'
  <2> USE DEF registryVars, Go, EndStartup
  <2>1. pools' = pools /\ registered' = registered /\ cached' = cached
    BY <1>2 DEF GetPool, CheckAccess, HandleClientSCRAM, Disconnect, FetchSCRAMVerifier,
                HandleStartupMessage
  <2>2. AllPools' = AllPools
    BY <2>1 DEF AllPools
  <2>3. /\ pc' = [pc EXCEPT ![c] = pc'[c]]
        /\ pool' = [pool EXCEPT ![c] = pool'[c]] /\ who' = [who EXCEPT ![c] = who'[c]]
    BY <1>0, <1>2 DEF GetPool, CheckAccess, HandleClientSCRAM, Disconnect,
                FetchSCRAMVerifier, HandleStartupMessage, TypeOK
  <2>4. Others(c)
    BY <1>0, <2>3 DEF Others, TypeOK
  <2>5. /\ pc[c] # "register" /\ pc'[c] # "register"
        /\ pc'[c] = "create" => who'[c] \in Served
        /\ pool'[c] \in {pool[c], None, pools[who[c]]}
        /\ pc[c] = "off" => pool'[c] = pool[c]
    BY <1>0, <1>2 DEF GetPool, CheckAccess, HandleClientSCRAM, Disconnect,
                FetchSCRAMVerifier, HandleStartupMessage, TypeOK, Known, Served
  <2> QED BY <2>1, <2>2, <2>4, <2>5, QuietSession
<1>3. ASSUME NEW c \in Clients, LoadOrStore(c) \/ RegisterPool(c)
      PROVE  (Made /\ Creating /\ HandedOut /\ Listed /\ Told)'
  BY <1>0, <1>3, LoadOrStorePools, RegisterPoolPools
<1>4. CASE GrowthCycle \/ HealthCheck \/ UpdateServerStats \/ PrivilegedLost
  <2>1. UNCHANGED <<clientVars, pools>>
    BY <1>4 DEF GrowthCycle, HealthCheck, UpdateServerStats, PrivilegedLost, registryVars
  <2>2. \/ registered' = registered /\ cached' = cached
        \/ registered' = <<>> /\ cached' = AllPools
    BY <1>4 DEF GrowthCycle, HealthCheck, UpdateServerStats, PrivilegedLost, registryVars
  <2>3. AllPools' = AllPools
    <3>1. CASE registered' = registered /\ cached' = cached
      BY <3>1 DEF AllPools
    <3> QED BY <1>0, <2>2, <3>1, AllPoolsKept
  <2> QED BY <2>1, <2>3, QuietTarget DEF clientVars
<1> QED BY <1>1, <1>2, <1>3, <1>4 DEF Next, Session

\* The inductive invariant says what PoolsAgree says.
LEMMA PoolsInvAgree == PoolsInv => PoolsAgree
<1> SUFFICES ASSUME PoolsInv PROVE PoolsAgree
  OBVIOUS
<1> USE DEF PoolsInv
<1> DEFINE stored == Range(pools) \ {None}
           sending == {pool[c] : c \in {d \in Clients : pc[d] = "register"}}
           n == Len(AllPools)
<1>1. AllPools \in Seq(PoolObjects) /\ n \in Nat /\ DOMAIN AllPools = 1..n
  BY AllPoolsSeq
<1>2. /\ \A x : x \in stored <=> x # None /\ \E k \in Keys : pools[k] = x
      /\ \A x : x \in Range(AllPools) <=> \E i \in 1..n : AllPools[i] = x
  BY <1>1 DEF Range, TypeOK
<1>3. stored \subseteq Range(AllPools) \cup sending
  BY <1>2 DEF Told
<1>4. Range(AllPools) \subseteq stored
  <2>1. \A i \in 1..n : AllPools[i] # None
    BY <1>1, StartupAssumption
  <2> QED BY <1>2, <2>1 DEF Listed
<1>5. sending \subseteq stored
  <2> SUFFICES ASSUME NEW c \in Clients, pc[c] = "register" PROVE pool[c] \in stored
    OBVIOUS
  <2> QED BY <1>2, StartupAssumption DEF Creating, Known
<1>6. \A c \in Clients : pool[c] # None => pool[c] \in stored
  BY <1>2 DEF HandedOut
<1>7. Cardinality(Range(AllPools)) = n
  <2>1. AllPools \in [1..n -> Range(AllPools)]
    BY <1>1 DEF Range
  <2>2. AllPools \in Bijection(1..n, Range(AllPools))
    BY <1>2, <2>1 DEF Listed, Bijection, Injection, Surjection, IsInjective
  <2>3. ExistsBijection(1..n, Range(AllPools))
    BY <2>2 DEF ExistsBijection
  <2> HIDE DEF n
  <2> QED BY <1>1, <2>3, FS_CountingElements
<1> QED BY <1>3, <1>4, <1>5, <1>6, <1>7 DEF PoolsAgree

\* However the getPools of several clients race with each other and with allPools:
\* the Pools clients find and hold are those the target goroutine serves, each once,
\* or is about to be told of; a Pool that lost the race is nobody's.  PoolRegistered
\* must have room for all the keys that the rules let be served.
THEOREM RegistryAgrees ==
    ASSUME RoomToRegister
    PROVE  Spec => []PoolsAgree
<1>1. PoolsInv /\ [Next]_vars => PoolsInv'
  BY PoolsNext
<1> QED BY <1>1, PoolsInit, PoolsInvAgree, PTL DEF Spec

-----------------------------------------------------------------------------
(* The verifiers. *)

\* A loop that finds its end in the last message leaves nothing behind.
ToItsEnd(s) ==
    Len(s) \in Nat /\ Len(s) > 0 /\ \A i \in 1..Len(s) : Ends(s[i]) <=> i = Len(s)

LEMMA EndsLast ==
    ASSUME NEW in \in Seq(Messages), ToItsEnd(in)
    PROVE  EndAt(in, Ends) = {Len(in)} /\ LeftAt(in, Len(in)) = <<>>
<1>1. LeftAt(in, Len(in)) = <<>>
  BY DEF LeftAt
<1> QED BY <1>1 DEF EndAt, ToItsEnd

LEMMA EndsLookupLast ==
    ASSUME NEW in \in Seq(Messages), ToItsEnd(in),
           \A i \in 1..Len(in) : in[i] # Row("null")
    PROVE  EndAt(in, EndsLookup) = {Len(in)}
<1>1. \A i \in 1..Len(in) : EndsLookup(in[i]) <=> i = Len(in)
  BY DEF EndsLookup, ToItsEnd
<1> QED BY <1>1 DEF EndAt, ToItsEnd

\* Messages are told apart by their types.
LEMMA MessageTypes ==
    /\ \A t : Msg(t).type = t
    /\ \A x : Row(x).type = "D" /\ Row(x).of = x
  BY DEF Msg, Row

\* The rows in the answer to a lookup for u are u's, or NULL.
OwnRows(s, u) == \A i \in 1..Len(s) : s[i].type = "D" => s[i].of \in {u, "null"}

LEMMA AuthidRows ==
    ASSUME NEW u, NEW r \in {"password", "null", "absent"}
    PROVE  OwnRows(AuthidReply(u, r), u)
  BY MessageTypes DEF AuthidReply, OwnRows

LEMMA ErrorRows == \A u : OwnRows(ErrorReply, u)
  BY MessageTypes DEF ErrorReply, OwnRows

LEMMA ExecutedRows ==
    ASSUME NEW u \in DOMAIN Roles, NEW reply \in Executed("scram", AuthidReplies(u))
    PROVE  OwnRows(reply, u)
<1>1. \A s \in AuthidReplies(u) : OwnRows(s, u)
  BY AuthidRows, ErrorRows, StartupAssumption DEF AuthidReplies, Refusals
<1>2. ASSUME NEW s \in Seq(Messages), OwnRows(s, u)
      PROVE  OwnRows(<<Msg("1")>> \o s, u)
  <2>1. Msg("1").type # "D"
    BY MessageTypes
  <2>2. \A i \in 1..Len(<<Msg("1")>> \o s) :
           \/ (<<Msg("1")>> \o s)[i] = Msg("1")
           \/ i - 1 \in 1..Len(s) /\ (<<Msg("1")>> \o s)[i] = s[i - 1]
    OBVIOUS
  <2> QED BY <1>2, <2>1, <2>2 DEF OwnRows
<1>3. AuthidReplies(u) \subseteq Seq(Messages)
  BY ReplyTypes
<1> QED BY <1>1, <1>2, <1>3, ErrorRows DEF Executed

\* A lookup that finds nothing unread finds no password but its own user's.
LEMMA OwnPassword ==
    ASSUME TypeOK, wire = <<>>, NEW u \in DOMAIN Roles,
           NEW reply \in Executed("scram", AuthidReplies(u)),
           NEW n \in Stops(wire \o reply, EndsLookup), NEW v \in Password(wire \o reply, n)
    PROVE  v = u
<1>1. reply \in Seq(Messages)
  BY ReplyTypes, ExecutedTypes
<1>2. wire \o reply = reply
  BY <1>1
<1>3. n \in 0..Len(reply)
  BY <1>1, <1>2, StopsBounds
<1>4. PICK i \in 1..n : reply[i] = Row(v)
  BY <1>2 DEF Password
<1>5. i \in 1..Len(reply)
  BY <1>1, <1>3
<1>6. v \in {u, "null"}
  BY <1>4, <1>5, ExecutedRows, MessageTypes DEF OwnRows
<1>7. v # "null"
  BY StartupAssumption DEF Password
<1> QED BY <1>6, <1>7

\* What FetchSCRAMVerifier does for a session.
LEMMA Lookup ==
    ASSUME TypeOK, Known, wire = <<>>, NEW c \in Clients, FetchSCRAMVerifier(c)
    PROVE  /\ UNCHANGED who
           /\ \/ EndStartup(c)
              \/ /\ verifier' = [verifier EXCEPT ![c] = who[c].user]
                 /\ Go(c, "exchange")
<1>1. who[c].user \in DOMAIN Roles /\ UNCHANGED who
  BY StartupAssumption DEF FetchSCRAMVerifier, Known
<1>2. CASE EndStartup(c)
  BY <1>1, <1>2
<1>3. ASSUME NEW reply \in Executed("scram", AuthidReplies(who[c].user)),
             NEW n \in Stops(wire \o reply, EndsLookup),
             NEW v \in Password(wire \o reply, n),
             verifier' = [verifier EXCEPT ![c] = v], Go(c, "exchange")
      PROVE  verifier' = [verifier EXCEPT ![c] = who[c].user] /\ Go(c, "exchange")
  BY <1>1, <1>3, OwnPassword
<1> QED BY <1>1, <1>2, <1>3 DEF FetchSCRAMVerifier

\* A session that starts its lookup when nothing is left unread on the privileged
\* connection is given the verifier of its own user, or none: whatever its reply
\* holds and wherever fetchSCRAMVerifier stops to read it.  What a lookup leaves
\* behind can only mislead a later one.
LookupsAreOwn ==
    [][\A c \in Clients :
          pc[c] = "scram" /\ pc'[c] = "exchange" /\ wire = <<>>
          => verifier'[c] = who[c].user]_vars

LEMMA LookupStep ==
    ASSUME TypeOK, Known, [Next]_vars, NEW c \in Clients,
           pc[c] = "scram", pc'[c] = "exchange", wire = <<>>
    PROVE  verifier'[c] = who[c].user
<1>1. FetchSCRAMVerifier(c)
  <2>1. CASE UNCHANGED vars
    BY <2>1 DEF vars, clientVars
  <2>2. CASE GrowthCycle \/ HealthCheck \/ UpdateServerStats \/ PrivilegedLost
    BY <2>2 DEF GrowthCycle, HealthCheck, UpdateServerStats, PrivilegedLost, clientVars
  <2>3. ASSUME NEW d \in Clients, d # c, pc' = [pc EXCEPT ![d] = pc'[d]] PROVE FALSE
    BY <2>3 DEF TypeOK
  <2>4. ASSUME NEW d \in Clients,
               \/ Session(d) \/ HandleClientSCRAM(d) \/ Disconnect(d)
               \/ \E k \in Keys : HandleStartupMessage(d, k)
        PROVE  FALSE
    BY <2>4 DEF TypeOK, Session, GetPool, LoadOrStore, RegisterPool, CheckAccess,
                HandleClientSCRAM, Disconnect, HandleStartupMessage, Go, EndStartup
  <2>5. ASSUME NEW d \in Clients, FetchSCRAMVerifier(d) PROVE d = c
    <3>1. pc' = [pc EXCEPT ![d] = pc'[d]]
      BY <2>5 DEF FetchSCRAMVerifier, Go, EndStartup, TypeOK
    <3> QED BY <2>3, <3>1
  <2> QED BY <2>1, <2>2, <2>4, <2>5 DEF Next
<1> QED BY <1>1, Lookup DEF EndStartup, Go, TypeOK

\* LookupsAreOwn holds with NULL passwords, errors, deadlines that pass and
\* connections that are lost and replaced, for any roles and any number of sessions.
THEOREM LookupsFromCleanAreOwn == Spec => LookupsAreOwn
<1>1. TypeOK /\ Known /\ [Next]_vars =>
         [\A c \in Clients :
             pc[c] = "scram" /\ pc'[c] = "exchange" /\ wire = <<>>
             => verifier'[c] = who[c].user]_vars
  BY LookupStep
<1> QED BY <1>1, TypeInit, TypeNext, PTL DEF Spec, LookupsAreOwn

-----------------------------------------------------------------------------
(* Replies that are read to their end. *)

LEMMA ProbesEnd == ToItsEnd(ProbeReply) /\ ToItsEnd(StatsReply)
  BY MessageTypes DEF ProbeReply, StatsReply, ToItsEnd, Ends

LEMMA DeployEnds == ToItsEnd(<<Msg("1"), Msg("1"), Msg("Z")>>)
  BY MessageTypes DEF ToItsEnd, Ends

LEMMA LookupsEnd ==
    ASSUME RepliesReadToTheirEnd, NEW u \in DOMAIN Roles, NEW reply \in AuthidReplies(u)
    PROVE  ToItsEnd(reply) /\ \A i \in 1..Len(reply) : reply[i] # Row("null")
<1>1. PICK r \in Roles[u] : reply = AuthidReply(u, r)
  BY DEF AuthidReplies, Refusals, RepliesReadToTheirEnd
<1>2. r = "password" \/ r = "absent"
  BY StartupAssumption DEF RepliesReadToTheirEnd
<1>3. Row(u) # Row("null")
  BY MessageTypes, StartupAssumption
<1>4. CASE reply = <<Msg("2"), Row(u), Msg("C"), Msg("Z")>>
  BY <1>3, <1>4, MessageTypes DEF ToItsEnd, Ends
<1>5. CASE reply = <<Msg("2"), Msg("C"), Msg("Z")>>
  BY <1>5, MessageTypes DEF ToItsEnd, Ends
<1> QED BY <1>1, <1>2, <1>4, <1>5 DEF AuthidReply

LEMMA EmptyWire == ASSUME wire = <<>>, NEW s \in Seq(Messages) PROVE wire \o s = s
  OBVIOUS

\* Nothing is left unread, and statements stay marked.
LEMMA WireNext ==
    ASSUME RepliesReadToTheirEnd, VerifierInv, [Next]_vars
    PROVE  wire' = <<>> /\ (priv' = "open" => marked' = {"scram", "stats"})
<1> DEFINE Kept == wire' = <<>> /\ (priv' = "open" => marked' = {"scram", "stats"})
<1>0. TypeOK /\ Known /\ wire = <<>> /\ (priv = "open" => marked = {"scram", "stats"})
  BY DEF VerifierInv
<1>1. \A in : Stops(in, Ends) = EndAt(in, Ends) /\ Stops(in, EndsLookup) = EndAt(in, EndsLookup)
  BY DEF Stops, RepliesReadToTheirEnd
<1>2. CASE UNCHANGED privVars
  BY <1>0, <1>2 DEF privVars
<1>3. ASSUME NEW in \in Seq(Messages), NEW stmt \in {"scram", "stats"},
             ReadMessages(stmt, in, Len(in)), priv = "open", priv' = priv
      PROVE  Kept
  BY <1>0, <1>3 DEF ReadMessages, LeftAt
<1>4. ASSUME NEW c \in Clients, FetchSCRAMVerifier(c) PROVE Kept
  <2>1. CASE priv # "open"
    BY <1>0, <1>4, <2>1 DEF FetchSCRAMVerifier
  <2>2. CASE priv = "open"
    <3>1. who[c].user \in DOMAIN Roles /\ priv' = priv
      BY <1>0, <1>4, StartupAssumption DEF FetchSCRAMVerifier, Known
    <3>2. PICK reply \in AuthidReplies(who[c].user) :
             \E n \in EndAt(wire \o reply, EndsLookup) : ReadMessages("scram", wire \o reply, n)
      BY <1>0, <1>1, <1>4, <2>2 DEF FetchSCRAMVerifier, Executed
    <3>3. reply \in Seq(Messages) /\ wire \o reply = reply
      BY <1>0, <3>1, ReplyTypes, EmptyWire
    <3>4. EndAt(reply, EndsLookup) = {Len(reply)}
      BY <3>1, <3>3, LookupsEnd, EndsLookupLast
    <3> QED BY <1>3, <2>2, <3>1, <3>2, <3>3, <3>4
  <2> QED BY <2>1, <2>2
<1>5. CASE UpdateServerStats
  <2>1. PICK n \in EndAt(wire \o StatsReply, Ends) : ReadMessages("stats", wire \o StatsReply, n)
    BY <1>0, <1>1, <1>5
       DEF UpdateServerStats, Executed, StatsReplies, Refusals, RepliesReadToTheirEnd
  <2>2. StatsReply \in Seq(Messages) /\ wire \o StatsReply = StatsReply
    BY <1>0, ReplyTypes, EmptyWire DEF StatsReplies
  <2>3. EndAt(StatsReply, Ends) = {Len(StatsReply)}
    BY <2>2, ProbesEnd, EndsLast
  <2> QED BY <1>3, <1>5, <2>1, <2>2, <2>3 DEF UpdateServerStats
<1>6. CASE ReplacePrivileged
  <2> DEFINE deploy == <<Msg("1"), Msg("1"), Msg("Z")>>
  <2>1. DeployReplies = {deploy} /\ deploy \in Seq(Messages)
    BY ReplyTypes DEF DeployReplies, Refusals, RepliesReadToTheirEnd
  <2>2. Stops(deploy, Ends) = {Len(deploy)} /\ LeftAt(deploy, Len(deploy)) = <<>>
    BY <1>1, <2>1, DeployEnds, EndsLast
  <2>3. {Stmts[i] : i \in {j \in 1 .. Len(deploy) : deploy[j] = Msg("1")}} = {"scram", "stats"}
    <3>1. Len(deploy) = 3 /\ deploy[1] = Msg("1") /\ deploy[2] = Msg("1") /\ deploy[3] # Msg("1")
      BY DEF Msg
    <3> HIDE DEF deploy
    <3>2. {j \in 1 .. 3 : deploy[j] = Msg("1")} = {1, 2}
      BY <3>1
    <3> QED BY <3>1, <3>2 DEF Stmts
  <2> HIDE DEF deploy
  <2> QED BY <1>6, <2>1, <2>2, <2>3 DEF ReplacePrivileged
<1>7. CASE HealthCheck
  <2>1. ProbeReply \in Seq(Messages) /\ wire \o ProbeReply = ProbeReply
    BY <1>0, ReplyTypes, EmptyWire
  <2>2. EndAt(ProbeReply, Ends) = {Len(ProbeReply)} /\ LeftAt(ProbeReply, Len(ProbeReply)) = <<>>
    BY <2>1, ProbesEnd, EndsLast
  <2>3. UNCHANGED <<priv, marked>> /\ (wire' = <<>> \/ wire' = wire) => Kept
    BY <1>0
  <2> QED BY <1>6, <1>7, <2>1, <2>2, <2>3 DEF HealthCheck, HealthCheckPrivileged
<1>8. CASE PrivilegedLost
  BY <1>8 DEF PrivilegedLost
<1>9. CASE UNCHANGED vars
  BY <1>2, <1>9 DEF vars
<1>10. ASSUME NEW c \in Clients,
              \/ Session(c) \/ HandleClientSCRAM(c) \/ Disconnect(c)
              \/ \E k \in Keys : HandleStartupMessage(c, k)
       PROVE  UNCHANGED privVars
  BY <1>10 DEF Session, GetPool, LoadOrStore, RegisterPool, CheckAccess,
               HandleClientSCRAM, Disconnect, HandleStartupMessage, privVars
<1>11. CASE GrowthCycle
  BY <1>2, <1>11 DEF GrowthCycle
<1> QED BY <1>2, <1>4, <1>5, <1>7, <1>8, <1>9, <1>10, <1>11 DEF Next

LEMMA VerifierNext == RepliesReadToTheirEnd /\ VerifierInv /\ [Next]_vars => VerifierInv'
<1> SUFFICES ASSUME RepliesReadToTheirEnd, VerifierInv, [Next]_vars
             PROVE  OwnVerifier'
  BY TypeNext, WireNext DEF VerifierInv
<1>0. TypeOK /\ Known /\ OwnVerifier /\ wire = <<>>
  BY DEF VerifierInv
<1>1. CASE UNCHANGED vars
  BY <1>0, <1>1 DEF vars, clientVars, OwnVerifier
<1>2. ASSUME NEW c \in Clients,
             \/ Session(c) \/ HandleClientSCRAM(c) \/ Disconnect(c)
             \/ \E k \in Keys : HandleStartupMessage(c, k)
      PROVE  OwnVerifier'
  <2> USE DEF Go, EndStartup
  <2>1. /\ pc'[c] # "exchange"
        /\ \A d \in Clients \ {c} :
              pc'[d] = pc[d] /\ verifier'[d] = verifier[d] /\ who'[d] = who[d]
    BY <1>0, <1>2 DEF TypeOK, Session, GetPool, LoadOrStore, RegisterPool, CheckAccess,
                      HandleClientSCRAM, Disconnect, HandleStartupMessage
  <2> QED BY <1>0, <2>1 DEF OwnVerifier
<1>3. ASSUME NEW c \in Clients, FetchSCRAMVerifier(c)
      PROVE  OwnVerifier'
  BY <1>0, <1>3, Lookup DEF EndStartup, Go, OwnVerifier, TypeOK
<1>4. CASE GrowthCycle \/ HealthCheck \/ UpdateServerStats \/ PrivilegedLost
  <2>1. UNCHANGED clientVars
    BY <1>4 DEF GrowthCycle, HealthCheck, UpdateServerStats, PrivilegedLost
  <2> QED BY <1>0, <2>1 DEF clientVars, OwnVerifier
<1> QED BY <1>1, <1>2, <1>3, <1>4 DEF Next

\* The verifier a session checks its client's proof against is that of the user the
\* client named, however the lookups of several sessions, probes and statistics
\* queries follow each other on the one privileged connection, and also when it
\* breaks and is replaced: nothing is ever left unread on it.  This needs that no
\* role has a NULL password, that no query on it fails and that every reply comes
\* within its deadline, since fetchSCRAMVerifier and updateServerStats stop reading
\* there and the connection stays in use.
THEOREM VerifiersAreOwn ==
    ASSUME RepliesReadToTheirEnd
    PROVE  Spec => []OwnVerifier
<1>1. VerifierInv /\ [Next]_vars => VerifierInv'
  BY VerifierNext
<1>2. Init => VerifierInv
  BY TypeInit DEF Init, VerifierInv, OwnVerifier
<1>3. VerifierInv => OwnVerifier
  BY DEF VerifierInv
<1> QED BY <1>1, <1>2, <1>3, PTL DEF Spec
=============================================================================
