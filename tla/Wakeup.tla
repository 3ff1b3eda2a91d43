------------------------------ MODULE Wakeup ------------------------------
(***************************************************************************)
(* How a client that needs a connection and the target goroutine that      *)
(* opens them wake each other: borrowConn (pool.go) waits on the Queue of  *)
(* its Pool and on the target's ConnReady tokens and signals Demand; the   *)
(* target goroutine (target.go) runs a growthCycle for a Demand token or   *)
(* its ticker, over the Pools registered with it, and signals ConnReady.   *)
(*                                                                         *)
(* Connections are counted, not named: whose hands they are in is in       *)
(* Pooling, which has no tokens.  The race to create a Pool is in Startup. *)
(***************************************************************************)
EXTENDS Integers, FiniteSets

CONSTANTS
    Clients,
    Pools,
    PoolOf,          \* client -> its Pool
    MaxConnections,
    ServerRoom       \* what the statistics say of the server, a subset of BOOLEAN:
                     \* has it room for more connections; {} if not fetched yet

ASSUME WakeupAssumption ==
    /\ PoolOf \in [Clients -> Pools]
    /\ MaxConnections \in Nat \ {0}
    /\ ServerRoom \subseteq BOOLEAN

VARIABLES
    pc,          \* client -> where its goroutine is
    reg,         \* Pool -> how far its registration is
    total,       \* Pool -> len(All)
    idle,        \* Pool -> len(Queue)
    closing,     \* Pool -> its connections in CloseCh
    totalOpen,   \* TotalOpen, the privileged connection included
    demand,      \* a token is in Demand
    connReady,   \* tokens in ConnReady
    tpc,         \* where the target goroutine is
    todo,        \* contended Pools this cycle has still to serve
    excess,      \* Pool -> idle connections this cycle may close
    roomy        \* serverAvailable > 1 when this cycle began

connVars == <<total, idle, closing, totalOpen>>
tokenVars == <<demand, connReady>>
cycleVars == <<tpc, todo, excess, roomy>>
vars == <<pc, reg, connVars, tokenVars, cycleVars>>

\* The connections that are counted for each Pool, numbered.
Numbered(count) == UNION {{p} \X (1..count[p]) : p \in DOMAIN count}

Go(c, where) == pc' = [pc EXCEPT ![c] = where]

\* signalConnReady: a token, unless the channel is full.
Signalled == IF connReady < MaxConnections THEN connReady + 1 ELSE connReady

----------------------------------------------------------------------------
(* Clients. *)

\* getPool in the startup: the first client of a Pool stores it ...
GetPool(c) ==
    /\ pc[c] = "new"
    /\ LET p == PoolOf[c] IN
       \/ reg[p] = "none" /\ reg' = [reg EXCEPT ![p] = "stored"] /\ Go(c, "register")
       \/ reg[p] # "none" /\ Go(c, "ready") /\ UNCHANGED reg
    /\ UNCHANGED <<connVars, tokenVars, cycleVars>>

\* ... and sends it to the target goroutine.
RegisterPool(c) ==
    /\ pc[c] = "register"
    /\ reg' = [reg EXCEPT ![PoolOf[c]] = "registered"]
    /\ Go(c, "ready")
    /\ UNCHANGED <<connVars, tokenVars, cycleVars>>

TakeConn(c) ==
    /\ idle[PoolOf[c]] > 0
    /\ idle' = [idle EXCEPT ![PoolOf[c]] = @ - 1]
    /\ Go(c, "holding")

\* borrowConn up to its loop: take a connection or ask for one.
BorrowConn(c) ==
    /\ pc[c] = "ready"
    /\ \/ TakeConn(c) /\ UNCHANGED demand
       \/ idle[PoolOf[c]] = 0 /\ demand' = TRUE /\ Go(c, "waiting") /\ UNCHANGED idle
    /\ UNCHANGED <<reg, total, closing, totalOpen, connReady, cycleVars>>

\* Its loop: the receive on the Queue, ...
ReceiveConn(c) ==
    /\ pc[c] = "waiting"
    /\ TakeConn(c)
    /\ UNCHANGED <<reg, total, closing, totalOpen, tokenVars, cycleVars>>

\* ... the receive on ConnReady, which may find nothing and asks again, ...
WakeUp(c) ==
    /\ pc[c] = "waiting" /\ connReady > 0
    /\ connReady' = connReady - 1
    /\ \/ TakeConn(c) /\ UNCHANGED demand
       \/ idle[PoolOf[c]] = 0 /\ demand' = TRUE /\ UNCHANGED <<idle, pc>>
    /\ UNCHANGED <<reg, total, closing, totalOpen, cycleVars>>

\* ... and the timer.
BorrowTimeout(c) ==
    /\ pc[c] = "waiting"
    /\ Go(c, "ready")
    /\ UNCHANGED <<reg, connVars, tokenVars, cycleVars>>

Return(c) ==
    /\ pc[c] = "holding"
    /\ idle' = [idle EXCEPT ![PoolOf[c]] = @ + 1]
    /\ connReady' = Signalled
    /\ Go(c, "ready")
    /\ UNCHANGED <<reg, total, closing, totalOpen, demand, cycleVars>>

Release(c) ==
    /\ pc[c] = "holding"
    /\ closing' = [closing EXCEPT ![PoolOf[c]] = @ + 1]
    /\ Go(c, "ready")
    /\ UNCHANGED <<reg, total, idle, totalOpen, tokenVars, cycleVars>>

----------------------------------------------------------------------------
(* The target goroutine. *)

\* Mutant of HandleClose: TotalOpen is not lowered.
HandleCloseKeepsCount(p) ==
    /\ tpc = "loop" /\ closing[p] > 0
    /\ closing' = [closing EXCEPT ![p] = @ - 1]
    /\ total' = [total EXCEPT ![p] = @ - 1]
    /\ connReady' = Signalled
    /\ UNCHANGED <<pc, reg, idle, totalOpen, demand, cycleVars>>

HandleClose(p) ==
    /\ tpc = "loop" /\ closing[p] > 0
    /\ closing' = [closing EXCEPT ![p] = @ - 1]
    /\ total' = [total EXCEPT ![p] = @ - 1]
    /\ totalOpen' = totalOpen - 1
    /\ connReady' = Signalled
    /\ UNCHANGED <<pc, reg, idle, demand, cycleVars>>

\* Mutant of AllPools: the pending registrations are left where they are.
CachedPools == {p \in Pools : reg[p] = "cached"}

\* allPools takes the pending registrations over.
AllPools == {p \in Pools : reg[p] \in {"registered", "cached"}}
CacheAll == reg' = [p \in Pools |-> IF p \in AllPools THEN "cached" ELSE reg[p]]

\* All the connections of the Pool are in use, or it has none.
Contended(p) == total[p] = 0 \/ idle[p] = 0

\* Idle connections beyond the recent peak of use; the peak, remembered over
\* peak_window, is at least one and at least the present use.
MaxExcess(p) ==
    LET active == total[p] - idle[p]
        peak == IF active > 1 THEN active ELSE 1
    IN  idle[p] - (peak + 1)

NoExcess == [p \in Pools |-> 0]

\* Serverwide room; before the statistics are known, what is left of the budget.
RoomAnswers == IF ServerRoom # {} THEN ServerRoom ELSE {MaxConnections - totalOpen > 1}

\* The first half of growthCycle: which Pools lack a connection and which have
\* too many.
GrowthScan ==
    /\ tpc = "loop"
    /\ CacheAll
    /\ todo' = {p \in AllPools : Contended(p)}
    /\ LET spare == {p \in AllPools : MaxExcess(p) > 0} IN
       \E x \in [spare -> 0..MaxConnections] :
          /\ \A p \in spare : x[p] <= MaxExcess(p)
          /\ excess' = [p \in Pools |-> IF p \in spare THEN x[p] ELSE 0]
    /\ roomy' \in RoomAnswers
    /\ tpc' = IF todo' # {} THEN "grow" ELSE "shrink"
    /\ UNCHANGED <<pc, connReady, connVars>>

\* Cases Demand and growthTicker of Target.run.
TakeDemand == demand /\ demand' = FALSE /\ GrowthScan
GrowthTick == GrowthScan /\ UNCHANGED demand

EndCycle == todo' = {} /\ excess' = NoExcess /\ roomy' = TRUE /\ tpc' = "loop"

\* A contended Pool gets a connection, in the slot of an idle one of a Pool that
\* has too many, if there is such a Pool and its Queue was not emptied meanwhile.
\* Pools are looked at in the order in which they were registered, which is any.
GrowNext(p) ==
    /\ tpc = "grow" /\ p \in todo
    /\ roomy /\ totalOpen < MaxConnections
    /\ \/ /\ \/ \A q \in Pools : excess[q] = 0
             \/ \E q \in Pools : excess[q] > 0 /\ idle[q] = 0
          /\ idle' = [idle EXCEPT ![p] = @ + 1]
          /\ total' = [total EXCEPT ![p] = @ + 1]
          /\ totalOpen' = totalOpen + 1
          /\ excess' = IF todo = {p} THEN NoExcess ELSE excess
       \/ \E q \in Pools :
          /\ excess[q] > 0 /\ idle[q] > 0
          /\ idle' = [idle EXCEPT ![q] = @ - 1, ![p] = @ + 1]
          /\ total' = [total EXCEPT ![q] = @ - 1, ![p] = @ + 1]
          /\ excess' = IF todo = {p} THEN NoExcess ELSE [excess EXCEPT ![q] = @ - 1]
          /\ UNCHANGED totalOpen
    /\ todo' = todo \ {p}
    /\ roomy' = (roomy \/ todo = {p})
    /\ tpc' = IF todo = {p} THEN "loop" ELSE "grow"
    /\ connReady' = Signalled
    /\ UNCHANGED <<pc, reg, closing, demand>>

\* Without budget the loop is left before anything is recycled.
GrowBreak ==
    /\ tpc = "grow"
    /\ ~roomy \/ totalOpen >= MaxConnections
    /\ EndCycle
    /\ UNCHANGED <<pc, reg, connVars, tokenVars>>

\* Nothing is contended: every Pool with too many idle connections closes one.
Shrink ==
    /\ tpc = "shrink"
    /\ LET S == {p \in Pools : excess[p] > 0 /\ idle[p] > 0}
           Less(f) == [p \in Pools |-> IF p \in S THEN f[p] - 1 ELSE f[p]] IN
       /\ idle' = Less(idle)
       /\ total' = Less(total)
       /\ totalOpen' = totalOpen - Cardinality(S)
    /\ EndCycle
    /\ UNCHANGED <<pc, reg, closing, tokenVars>>

\* healthCheck: the idle connections that were not used for idle_timeout are
\* closed.  One for which somebody waits is not among them: a receiver that waits
\* on the Queue is handed it at once.  The privileged connection is in Startup.
HealthCheck ==
    /\ tpc = "loop"
    /\ CacheAll
    /\ LET quiet == {p \in AllPools : idle[p] > 0 /\ \A c \in Clients :
                                        PoolOf[c] = p => pc[c] # "waiting"} IN
       \E old \in [quiet -> 1..MaxConnections] :
          LET Less(f) == [p \in Pools |-> IF p \in quiet THEN f[p] - old[p] ELSE f[p]] IN
          /\ \A p \in quiet : old[p] <= idle[p]
          /\ idle' = Less(idle)
          /\ total' = Less(total)
          /\ totalOpen' = totalOpen - Cardinality(Numbered(old))
    /\ UNCHANGED <<pc, closing, tokenVars, cycleVars>>

----------------------------------------------------------------------------
Init ==
    /\ pc = [c \in Clients |-> "new"]
    /\ reg = [p \in Pools |-> "none"]
    /\ total = NoExcess /\ idle = NoExcess /\ closing = NoExcess
    /\ totalOpen = 1
    /\ demand = FALSE /\ connReady = 0
    /\ tpc = "loop" /\ todo = {} /\ excess = NoExcess /\ roomy = TRUE

Next ==
    \/ \E c \in Clients :
          \/ GetPool(c) \/ RegisterPool(c) \/ BorrowConn(c) \/ ReceiveConn(c) \/ WakeUp(c)
          \/ BorrowTimeout(c) \/ Return(c) \/ Release(c)
    \/ \E p \in Pools : HandleClose(p) \/ GrowNext(p)
    \/ TakeDemand \/ GrowthTick \/ GrowBreak \/ Shrink \/ HealthCheck

Spec == Init /\ [][Next]_vars

\* A goroutine that can go on does.  The select of Target.run chooses at random
\* among its ready cases and the growth ticker goes on ticking.  Receivers that
\* wait on a Queue are served in the order in which they came.
Fairness ==
    /\ \A c \in Clients :
          WF_vars(RegisterPool(c)) /\ SF_vars(ReceiveConn(c))
    /\ SF_vars(GrowthTick) /\ WF_vars(GrowBreak) /\ WF_vars(Shrink)
    /\ \A p \in Pools : WF_vars(GrowNext(p))

FairSpec == Spec /\ Fairness

----------------------------------------------------------------------------
(* Properties. *)

Holders(p) == {c \in Clients : PoolOf[c] = p /\ pc[c] = "holding"}

\* Types and ranges.  Every connection of a Pool is idle, held or on its way to be
\* closed, and TotalOpen is their number, within the budget.
TypeOK ==
    /\ pc \in [Clients -> {"new", "register", "ready", "waiting", "holding"}]
    /\ reg \in [Pools -> {"none", "stored", "registered", "cached"}]
    /\ total \in [Pools -> Nat] /\ idle \in [Pools -> Nat] /\ closing \in [Pools -> Nat]
    /\ \A p \in Pools : total[p] = idle[p] + closing[p] + Cardinality(Holders(p))
    /\ totalOpen = 1 + Cardinality(Numbered(total))
    /\ totalOpen <= MaxConnections
    /\ demand \in BOOLEAN /\ connReady \in 0..MaxConnections
    /\ tpc \in {"loop", "grow", "shrink"}
    /\ todo \subseteq Pools /\ (tpc = "grow" <=> todo # {})
    /\ excess \in [Pools -> 0..MaxConnections]
    /\ roomy \in BOOLEAN

BudgetSpent ==
    totalOpen >= MaxConnections \/ (ServerRoom = {} /\ MaxConnections - totalOpen <= 1)

\* Who waits gets a connection, unless it gives up or the budget is spent: also
\* when the Pool was created a moment ago, its connections were all lost, nobody
\* ever returns one, or somebody else took the token or the connection that was
\* meant for this client (borrowConn, allPools, growthCycle).
WaiterServed ==
    \A c \in Clients : pc[c] = "waiting" ~> pc[c] # "waiting" \/ BudgetSpent
============================================================================
