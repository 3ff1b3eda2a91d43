----------------------------- MODULE Lifecycle ------------------------------
(***************************************************************************)
(* Start, Reload and shutdown of a server with one target, against running *)
(* client sessions.  Four kinds of goroutine take part: the accept loop,   *)
(* which also shuts down; one per client; the target's, which drains its   *)
(* connections when its context ends; and Reload's, which removes the      *)
(* target or raises its max_connections.                                   *)
(*                                                                         *)
(* How a request is served is Pooling's subject: here it borrows or has a  *)
(* connection, waits for the server, and keeps, returns or releases it.    *)
(***************************************************************************)
EXTENDS Integers, FiniteSets

CONSTANTS
    Clients, Backends, None,
    MaxConnections,  \* when the target was created: the capacity of Queue and CloseCh
    RaisedMax,       \* after a Reload that raises it
    Reloads          \* what Reload may do: "remove", "raise"

ASSUME LifecycleAssumption ==
    /\ None \notin Clients \cup Backends
    /\ MaxConnections \in Nat /\ RaisedMax \in Nat
    /\ Reloads \subseteq {"remove", "raise"}

VARIABLES
    srv,         \* the place in Start and shutdown
    ctxDone,     \* Server.Context has ended
    rld,         \* the place in a Reload that removes the target
    phase,       \* the place in handleClient
    held,        \* the connection a handler works on
    pin,         \* Client.backend
    registered,  \* the keys of Server.Clients
    closed,      \* clients whose socket shutdown has closed
    tpc,         \* the place in Target.run
    draining,    \* Target.Draining
    cancelled,   \* Target.Cancel was called
    limit,       \* Target.MaxConnections
    totalOpen,   \* Target.TotalOpen
    all,         \* Pool.All
    queue,       \* Pool.Queue
    closeCh,     \* Target.CloseCh
    open         \* sockets of pooled connections that are open

serverVars  == <<srv, ctxDone, rld>>
clientVars  == <<phase, held, pin, registered, closed>>
targetVars  == <<tpc, draining, cancelled, limit>>
backendVars == <<totalOpen, all, queue, closeCh, open>>
vars == <<serverVars, clientVars, targetVars, backendVars>>

Goto(c, place) == phase' = [phase EXCEPT ![c] = place]

-----------------------------------------------------------------------------
(* Start and the accept loop. *)

\* The target is ready: its goroutine has the privileged connection.
StartReady ==
    /\ srv = "starting" /\ tpc \notin {"opening", "failed"}
    /\ srv' = "select"
    /\ UNCHANGED <<ctxDone, rld, clientVars, targetVars, backendVars>>

\* ConnectTimeout passes first, or the context ends, and so does the process.
StartFails ==
    /\ srv = "starting" /\ (tpc = "opening" \/ ctxDone)
    /\ srv' = "failed"
    /\ UNCHANGED <<ctxDone, rld, clientVars, targetVars, backendVars>>

\* A shutdown signal.
Signal ==
    /\ ~ctxDone /\ ctxDone' = TRUE
    /\ UNCHANGED <<srv, rld, clientVars, targetVars, backendVars>>

\* The loop looks at the context before each Accept.
AcceptNext ==
    /\ srv = "select" /\ ~ctxDone
    /\ srv' = "accept"
    /\ UNCHANGED <<ctxDone, rld, clientVars, targetVars, backendVars>>

AcceptTimesOut ==
    /\ srv = "accept"
    /\ srv' = "select"
    /\ UNCHANGED <<ctxDone, rld, clientVars, targetVars, backendVars>>

\* A new client; its goroutine is started and not yet in Clients.
Accept(c) ==
    /\ srv = "accept" /\ phase[c] = "out"
    /\ srv' = "select"
    /\ Goto(c, "spawned")
    /\ closed' = closed \ {c}
    /\ UNCHANGED <<ctxDone, rld, held, pin, registered, targetVars, backendVars>>

\* shutdown closes the sockets of the clients it knows ...
Shutdown ==
    /\ srv = "select" /\ ctxDone
    /\ closed' = closed \cup registered
    /\ srv' = "waiting"
    /\ UNCHANGED <<ctxDone, rld, phase, held, pin, registered, targetVars, backendVars>>

\* ... and waits for all goroutines.
ShutdownEnd ==
    /\ srv = "waiting"
    /\ \A c \in Clients : phase[c] = "out"
    /\ tpc = "stopped"
    /\ srv' = "stopped"
    /\ UNCHANGED <<ctxDone, rld, clientVars, targetVars, backendVars>>

-----------------------------------------------------------------------------
(* A client session. *)

Register(c) ==
    /\ phase[c] = "spawned"
    /\ Goto(c, "startup")
    /\ registered' = registered \cup {c}
    /\ UNCHANGED <<serverVars, held, pin, closed, targetVars, backendVars>>

\* There is no pool if the target is being removed; no other one serves the
\* database.
GetPool == ~draining

\* The startup message.  Without a pool the client gets an error, and its
\* session goes on.
Startup(c) ==
    /\ phase[c] = "startup" /\ c \notin closed
    /\ Goto(c, IF GetPool THEN "scram" ELSE "loop")
    /\ UNCHANGED <<serverVars, held, pin, registered, closed, targetVars, backendVars>>

\* The target goroutine looks the verifier up.
ScramServed(c) ==
    /\ phase[c] = "scram" /\ tpc = "run"
    /\ Goto(c, "exchange")
    /\ UNCHANGED <<serverVars, held, pin, registered, closed, targetVars, backendVars>>

\* Mutant of ScramGivesUp: the end of the context is seen only by a running target.
ScramIgnoresContext(c) ==
    /\ phase[c] = "scram" /\ ctxDone /\ tpc = "run"
    /\ Goto(c, "loop")
    /\ UNCHANGED <<serverVars, held, pin, registered, closed, targetVars, backendVars>>

\* getSCRAMVerifier gives up when the server's context ends.
ScramGivesUp(c) ==
    /\ phase[c] = "scram" /\ ctxDone
    /\ Goto(c, "loop")
    /\ UNCHANGED <<serverVars, held, pin, registered, closed, targetVars, backendVars>>

\* The SCRAM messages of the client, be they right or wrong.
ScramExchange(c) ==
    /\ phase[c] = "exchange" /\ c \notin closed
    /\ Goto(c, "loop")
    /\ UNCHANGED <<serverVars, held, pin, registered, closed, targetVars, backendVars>>

\* Before each message the loop looks at the context.
Loop(c) ==
    /\ phase[c] = "loop"
    /\ Goto(c, IF ctxDone THEN "cleanup" ELSE "idle")
    /\ UNCHANGED <<serverVars, held, pin, registered, closed, targetVars, backendVars>>

\* A request goes to the pinned connection, or borrows one, or fails because
\* the target is being removed.
HandleClientMessage(c) ==
    /\ phase[c] = "idle" /\ c \notin closed
    /\ held' = [held EXCEPT ![c] = pin[c]]
    /\ Goto(c, IF pin[c] # None THEN "busy" ELSE IF GetPool THEN "borrow" ELSE "loop")
    /\ UNCHANGED <<serverVars, pin, registered, closed, targetVars, backendVars>>

BorrowConn(c, b) ==
    /\ phase[c] = "borrow" /\ b \in queue
    /\ queue' = queue \ {b}
    /\ held' = [held EXCEPT ![c] = b]
    /\ Goto(c, "busy")
    /\ UNCHANGED <<serverVars, pin, registered, closed, targetVars,
                   totalOpen, all, closeCh, open>>

\* The timer fires, or the context ends.
BorrowFails(c) ==
    /\ phase[c] = "borrow"
    /\ Goto(c, "loop")
    /\ UNCHANGED <<serverVars, held, pin, registered, closed, targetVars, backendVars>>

\* A reply that leaves a transaction open: the client keeps the connection.
ReplyPins(c) ==
    /\ phase[c] = "busy" /\ c \notin closed
    /\ pin' = [pin EXCEPT ![c] = held[c]]
    /\ held' = [held EXCEPT ![c] = None]
    /\ Goto(c, "loop")
    /\ UNCHANGED <<serverVars, registered, closed, targetVars, backendVars>>

\* Mutant of ReplyReturns: the client stays pinned.
ReplyReturnsPinned(c) ==
    /\ phase[c] = "busy" /\ c \notin closed
    /\ IF Cardinality(queue) < MaxConnections
         THEN /\ queue' = queue \cup {held[c]}
              /\ held' = [held EXCEPT ![c] = None]
              /\ Goto(c, "loop")
         ELSE Goto(c, "release") /\ UNCHANGED <<queue, held>>
    /\ UNCHANGED <<serverVars, pin, registered, closed, targetVars,
                   totalOpen, all, closeCh, open>>

\* A reply after which it is returned: to the Queue or, if that is full, to
\* CloseCh.
ReplyReturns(c) ==
    /\ phase[c] = "busy" /\ c \notin closed
    /\ pin' = [pin EXCEPT ![c] = None]
    /\ IF Cardinality(queue) < MaxConnections
         THEN /\ queue' = queue \cup {held[c]}
              /\ held' = [held EXCEPT ![c] = None]
              /\ Goto(c, "loop")
         ELSE Goto(c, "release") /\ UNCHANGED <<queue, held>>
    /\ UNCHANGED <<serverVars, registered, closed, targetVars,
                   totalOpen, all, closeCh, open>>

\* The server or the client is gone: the connection is released.
ReplyFails(c) ==
    /\ phase[c] = "busy"
    /\ pin' = [pin EXCEPT ![c] = None]
    /\ Goto(c, "release")
    /\ UNCHANGED <<serverVars, held, registered, closed, targetVars, backendVars>>

\* The send on CloseCh, from a handler or from the end of the session.
Release(c) ==
    /\ phase[c] = "release"
    /\ Cardinality(closeCh) < MaxConnections
    /\ closeCh' = closeCh \cup {held[c]}
    /\ held' = [held EXCEPT ![c] = None]
    /\ Goto(c, IF c \in registered THEN "loop" ELSE "out")
    /\ UNCHANGED <<serverVars, pin, registered, closed, targetVars,
                   totalOpen, all, queue, open>>

\* A read fails because shutdown closed the socket ...
ReadFails(c) ==
    /\ phase[c] \in {"startup", "exchange", "idle"} /\ c \in closed
    /\ Goto(c, "cleanup")
    /\ UNCHANGED <<serverVars, held, pin, registered, closed, targetVars, backendVars>>

\* ... or the client did.
Disconnect(c) ==
    /\ phase[c] \in {"startup", "exchange", "idle"} /\ c \notin closed
    /\ Goto(c, "cleanup")
    /\ UNCHANGED <<serverVars, held, pin, registered, closed, targetVars, backendVars>>

\* Mutant of Cleanup: a session without a backend releases it all the same.
CleanupUnchecked(c) ==
    /\ phase[c] = "cleanup"
    /\ registered' = registered \ {c}
    /\ held' = [held EXCEPT ![c] = pin[c]]
    /\ pin' = [pin EXCEPT ![c] = None]
    /\ Goto(c, "release")
    /\ UNCHANGED <<serverVars, closed, targetVars, backendVars>>

\* The deferred end of handleClient.
Cleanup(c) ==
    /\ phase[c] = "cleanup"
    /\ registered' = registered \ {c}
    /\ held' = [held EXCEPT ![c] = pin[c]]
    /\ pin' = [pin EXCEPT ![c] = None]
    /\ Goto(c, IF pin[c] = None THEN "out" ELSE "release")
    /\ UNCHANGED <<serverVars, closed, targetVars, backendVars>>

-----------------------------------------------------------------------------
(* The target goroutine. *)

Done == ctxDone \/ cancelled

\* openPrivilegedConn tries again until it succeeds or the context ends.
OpenPrivilegedConn ==
    /\ tpc = "opening"
    /\ tpc' = "run"
    /\ totalOpen' = totalOpen + 1
    /\ UNCHANGED <<serverVars, clientVars, draining, cancelled, limit,
                   all, queue, closeCh, open>>

OpenPrivilegedFails ==
    /\ tpc = "opening" /\ Done
    /\ tpc' = "failed"
    /\ UNCHANGED <<serverVars, clientVars, draining, cancelled, limit, backendVars>>

HandleClose(b) ==
    /\ tpc = "run" /\ b \in closeCh
    /\ closeCh' = closeCh \ {b}
    /\ open' = open \ {b}
    /\ all' = all \ {b}
    /\ totalOpen' = totalOpen - 1
    /\ UNCHANGED <<serverVars, clientVars, targetVars, queue>>

\* Mutant of OpenOne: the connection is not counted.
OpenOneUncounted(b) ==
    /\ tpc = "run" /\ queue = {} /\ totalOpen < limit /\ b \notin open
    /\ queue' = {b}
    /\ open' = open \cup {b}
    /\ all' = all \cup {b}
    /\ UNCHANGED <<serverVars, clientVars, targetVars, totalOpen, closeCh>>

\* growthCycle opens a connection for a pool that has none idle.
OpenOne(b) ==
    /\ tpc = "run" /\ queue = {} /\ totalOpen < limit /\ b \notin open
    /\ queue' = {b}
    /\ open' = open \cup {b}
    /\ all' = all \cup {b}
    /\ totalOpen' = totalOpen + 1
    /\ UNCHANGED <<serverVars, clientVars, targetVars, closeCh>>

\* growthCycle and healthCheck close idle connections.
CloseOneIdle(b) ==
    /\ tpc = "run" /\ b \in queue
    /\ queue' = queue \ {b}
    /\ open' = open \ {b}
    /\ all' = all \ {b}
    /\ totalOpen' = totalOpen - 1
    /\ UNCHANGED <<serverVars, clientVars, targetVars, closeCh>>

\* The context ends: drain closes what is in CloseCh, then what is in the
\* Queue, then the privileged connection, and does not come back to either.
DrainStart ==
    /\ tpc = "run" /\ Done
    /\ tpc' = "drain"
    /\ UNCHANGED <<serverVars, clientVars, draining, cancelled, limit, backendVars>>

DrainClose(b) ==
    /\ tpc = "drain" /\ b \in closeCh
    /\ closeCh' = closeCh \ {b}
    /\ open' = open \ {b}
    /\ totalOpen' = totalOpen - 1
    /\ UNCHANGED <<serverVars, clientVars, targetVars, all, queue>>

DrainPools ==
    /\ tpc = "drain" /\ closeCh = {}
    /\ tpc' = "drainPools"
    /\ UNCHANGED <<serverVars, clientVars, draining, cancelled, limit, backendVars>>

\* Mutant of DrainPool: the connection is still counted.
DrainPoolCounted(b) ==
    /\ tpc = "drainPools" /\ b \in queue
    /\ queue' = queue \ {b}
    /\ open' = open \ {b}
    /\ UNCHANGED <<serverVars, clientVars, targetVars, totalOpen, all, closeCh>>

DrainPool(b) ==
    /\ tpc = "drainPools" /\ b \in queue
    /\ queue' = queue \ {b}
    /\ open' = open \ {b}
    /\ totalOpen' = totalOpen - 1
    /\ UNCHANGED <<serverVars, clientVars, targetVars, all, closeCh>>

DrainEnd ==
    /\ tpc = "drainPools" /\ queue = {}
    /\ tpc' = "stopped"
    /\ totalOpen' = totalOpen - 1
    /\ UNCHANGED <<serverVars, clientVars, draining, cancelled, limit,
                   all, queue, closeCh, open>>

-----------------------------------------------------------------------------
(* Reload. *)

\* The new configuration lacks the target.
ReloadRemove ==
    /\ "remove" \in Reloads
    /\ rld = "none" /\ srv # "starting"
    /\ draining' = TRUE
    /\ rld' = "draining"
    /\ UNCHANGED <<srv, ctxDone, clientVars, tpc, cancelled, limit, backendVars>>

ActiveConnections == Cardinality(all) - Cardinality(queue)

\* waitDrained sees no active connection ...
ReloadDrained ==
    /\ rld = "draining" /\ ActiveConnections <= 0
    /\ cancelled' = TRUE
    /\ rld' = "removed"
    /\ UNCHANGED <<srv, ctxDone, clientVars, tpc, draining, limit, backendVars>>

\* Mutant of ReloadTimesOut: a target that is still busy is not cancelled.
ReloadGivesUp ==
    /\ rld = "draining"
    /\ rld' = "removed"
    /\ UNCHANGED <<srv, ctxDone, clientVars, targetVars, backendVars>>

\* ... or query_timeout passes.
ReloadTimesOut ==
    /\ rld = "draining"
    /\ cancelled' = TRUE
    /\ rld' = "removed"
    /\ UNCHANGED <<srv, ctxDone, clientVars, tpc, draining, limit, backendVars>>

\* The new configuration raises max_connections.  The channels keep their size.
ReloadRaise ==
    /\ "raise" \in Reloads
    /\ srv # "starting" /\ rld = "none"
    /\ limit' = RaisedMax /\ limit' # limit
    /\ UNCHANGED <<serverVars, clientVars, tpc, draining, cancelled, backendVars>>

-----------------------------------------------------------------------------

Init ==
    /\ srv = "starting" /\ ctxDone = FALSE /\ rld = "none"
    /\ phase = [c \in Clients |-> "out"]
    /\ held = [c \in Clients |-> None] /\ pin = [c \in Clients |-> None]
    /\ registered = {} /\ closed = {}
    /\ tpc = "opening" /\ draining = FALSE /\ cancelled = FALSE
    /\ limit = MaxConnections /\ totalOpen = 0
    /\ all = {} /\ queue = {} /\ closeCh = {} /\ open = {}

AcceptLoop == AcceptNext \/ AcceptTimesOut \/ Shutdown \/ ShutdownEnd

\* What a client's goroutine does without its client.
Session(c) ==
    \/ Register(c) \/ ScramGivesUp(c) \/ Loop(c) \/ BorrowFails(c)
    \/ \E b \in Backends : BorrowConn(c, b)
    \/ ReplyPins(c) \/ ReplyReturns(c) \/ ReplyFails(c)
    \/ Release(c) \/ ReadFails(c) \/ Cleanup(c)

Drain ==
    \/ DrainStart \/ DrainPools \/ DrainEnd
    \/ \E b \in Backends : DrainClose(b) \/ DrainPool(b)

Next ==
    /\ srv # "failed"
    /\ \/ StartReady \/ StartFails \/ Signal \/ AcceptLoop
       \/ \E c \in Clients :
             \/ Accept(c) \/ Startup(c) \/ ScramServed(c) \/ ScramExchange(c)
             \/ HandleClientMessage(c) \/ Disconnect(c) \/ Session(c)
       \/ OpenPrivilegedConn \/ OpenPrivilegedFails
       \/ \E b \in Backends : HandleClose(b) \/ OpenOne(b) \/ CloseOneIdle(b)
       \/ Drain
       \/ ReloadRemove \/ ReloadDrained \/ ReloadTimesOut \/ ReloadRaise

\* Goroutines go on, timers fire and the server answers.  Clients owe nothing.
Fairness ==
    /\ WF_vars(AcceptLoop)
    /\ \A c \in Clients : WF_vars(Session(c))
    /\ WF_vars(Drain)
    /\ WF_vars(ReloadTimesOut)

Spec == Init /\ [][Next]_vars /\ Fairness

-----------------------------------------------------------------------------
(* Properties. *)

\* Every variable holds a value of its type.
TypeOK ==
    /\ srv \in {"starting", "failed", "select", "accept", "waiting", "stopped"}
    /\ ctxDone \in BOOLEAN /\ rld \in {"none", "draining", "removed"}
    /\ phase \in [Clients -> {"out", "spawned", "startup", "scram", "exchange", "loop",
                              "idle", "borrow", "busy", "release", "cleanup"}]
    /\ held \in [Clients -> Backends \cup {None}]
    /\ pin \in [Clients -> Backends \cup {None}]
    /\ registered \subseteq Clients /\ closed \subseteq Clients
    /\ tpc \in {"opening", "failed", "run", "drain", "drainPools", "stopped"}
    /\ draining \in BOOLEAN /\ cancelled \in BOOLEAN
    /\ limit \in Nat /\ totalOpen \in Int
    /\ all \subseteq Backends /\ queue \subseteq Backends
    /\ closeCh \subseteq Backends /\ open \subseteq Backends

\* A connection a client works on or is pinned to is open, and is neither in
\* the Queue nor in CloseCh: drain, which closes what it finds there, never
\* closes a connection in use, and nobody else is lent it.
InUseSpared ==
    \A c \in Clients : \A b \in {held[c], pin[c]} \ {None} :
        b \in open /\ b \notin queue \cup closeCh

\* TotalOpen is the number of open sockets, the privileged one included, while
\* the target runs, drains and after it has stopped: the remaining_open that
\* drain logs is what it leaves behind.
RemainingOpen ==
    totalOpen = Cardinality(open) + (IF tpc \in {"opening", "failed", "stopped"} THEN 0 ELSE 1)

\* A session waits for room in a full CloseCh that a stopped target does not empty.
CloseChFull ==
    /\ tpc = "stopped" /\ Cardinality(closeCh) = MaxConnections
    /\ \E c \in Clients : phase[c] = "release"

\* A shutdown that has closed the socket of every client it has accepted ends,
\* whatever the clients were doing: no session waits for a verifier or a connection
\* that the stopped target will not give it.  Only a Reload that raised
\* max_connections, which leaves CloseCh at its size, may make it wait for ever.
ShutdownEnds ==
    (srv = "waiting" /\ \A c \in Clients : phase[c] # "out" => c \in closed)
        ~> (srv = "stopped" \/ (limit > MaxConnections /\ CloseChFull))

\* The goroutine of a removed target ends, be its connections in use or not.
RemovedStops == (rld = "draining") ~> (tpc = "stopped")
=============================================================================
