------------------------------- MODULE Pooling -------------------------------
(***************************************************************************)
(* Connection pooling in pgfox: client goroutines borrow PostgreSQL        *)
(* connections from the Queue of their Pool, run one request on them and   *)
(* return, pin or release them; one goroutine per target opens, closes and *)
(* counts the connections.                                                 *)
(*                                                                         *)
(* One target is modelled.  A Pool is one (database, user) pair of it, and *)
(* a client talks to the same Pool for its whole session.  A step of the   *)
(* model is a stretch of code between two points where other goroutines    *)
(* can interfere: a channel operation, a socket read or a socket write.    *)
(***************************************************************************)
EXTENDS Integers, Sequences, FiniteSets, Functions

CONSTANTS
    Clients,         \* client sessions
    Backends,        \* identities of server connections (reused once unreferenced)
    Pools,           \* (database, user) pairs with a Pool on the target
    PoolOf,          \* Clients -> Pools, fixed by the startup packet
    None,            \* Go's nil
    MaxConnections,  \* Target.MaxConnections, also the capacity of its channels
    Requests,        \* the kinds of request the clients send
    StatsReplies,    \* what updateServerStats may find out about the server
    Faults,          \* the failures the environment may produce
    MaxNamed         \* bound: passthrough named statements counted per client

(***************************************************************************)
(* What a client may send: "query" is a simple query that is not           *)
(* parameterizable, "dml" one that is, "notify" a NOTIFY.  The others are  *)
(* extended pipelines.  Those that end in Sync hold remapped statements    *)
(* only ("shared"), parse the unnamed statement ("unnamed"), parse a named *)
(* statement that cannot be remapped ("named") or close one ("close").     *)
(* "flush" and "flushUnnamed" are Parse + Describe + Flush.                *)
(***************************************************************************)
RequestKinds == {"query", "dml", "notify", "shared", "unnamed", "named",
                 "close", "flush", "flushUnnamed"}

(***************************************************************************)
(* "die": a server connection breaks.  "timeout": query_timeout expires    *)
(* while a reply is awaited.  "oversize": a reply exceeds max_message_size *)
(* or its length is invalid.  "refuse": a connection cannot be opened.     *)
(* "listenLost": a listen monitor fails and closes its clients.            *)
(* "closeSkipped": a pipeline fails before the server reaches its Close,   *)
(* or the Close names a statement that does not exist.                     *)
(***************************************************************************)
FaultKinds == {"die", "timeout", "oversize", "refuse", "listenLost", "closeSkipped"}

ASSUME PoolingAssumption ==
    /\ PoolOf \in [Clients -> Pools]
    /\ None \notin Clients \cup Backends \cup Pools
    /\ IsFiniteSet(Backends)
    /\ MaxConnections \in Nat \ {0}
    /\ MaxNamed \in Nat
    /\ Requests \subseteq RequestKinds
    /\ StatsReplies \subseteq {"room", "full"}
    /\ Faults \subseteq FaultKinds

VARIABLES
    \* --- client goroutines ---
    pc,          \* where handleClient is
    job,         \* the request being served: its kind, its code path, wasPinned
    held,        \* the handler's local variable "backend"
    pin,         \* Client.backend
    inTx,        \* Client.inTransaction
    namedStmts,  \* Client.namedStmts
    clientUp,    \* the client's socket still works
    \* --- server connections ---
    conn,        \* "open", "dead" (peer gone, not yet noticed) or "closed"
    tx,          \* transaction status of the server session
    named,       \* passthrough named statements of the server session
    wire,        \* replies produced by the server and not yet read
    bclient,     \* Backend.client
    bpool,       \* Backend.Pool
    \* --- pools and target goroutine ---
    queue,       \* Pool.Queue
    all,         \* Pool.All
    totalOpen,   \* Target.TotalOpen
    privOpen,    \* Target.Backend is not nil
    room,        \* what the last statistics said about free server slots
    closeCh,     \* Target.CloseCh
    tpc,         \* where the target goroutine is
    serverAvailable,  \* growthCycle's serverAvailable > 1
    todo,        \* pools the current tick still has to look at
    excess,      \* poolState.excess of the current growthCycle
    curPool,     \* the pool being grown or reaped
    inHand       \* the connection healthCheck took out of a Queue

clientVars == <<pc, job, held, pin, inTx, namedStmts, clientUp>>
serverVars == <<conn, tx, named, wire>>
backendVars == <<bclient, bpool>>
countVars  == <<totalOpen, privOpen, room>>
channelVars == <<queue, closeCh>>
targetVars == <<tpc, serverAvailable, todo, excess, curPool, inHand>>
vars == <<clientVars, serverVars, backendVars, all, countVars, channelVars,
          targetVars>>

-----------------------------------------------------------------------------
(* Code paths and request properties. *)

Paths == {"simple", "prepared", "notify", "sync", "flush"}
NoJob == [req |-> "query", path |-> "simple", pinned |-> FALSE]
Jobs  == [req : RequestKinds, path : Paths, pinned : BOOLEAN]
Statuses == {"I", "T", "E"}
Replies == [to : Clients, tx : Statuses]

\* requiresPin of executeExtendedPipeline: an unnamed statement or a named one
\* that cannot be remapped was parsed.
RequiresPin(req) == req \in {"unnamed", "named", "flushUnnamed"}

\* The status a server session may be in after a request, given its status
\* before.  Only a simple query or an executed pipeline can open or end a
\* transaction; prepared DML, NOTIFY and Parse + Describe can at most fail one.
Outcomes(path, status) ==
    CASE status = "I" -> IF path \in {"simple", "sync"} THEN {"I", "T"} ELSE {"I"}
      [] status = "T" -> IF path \in {"simple", "sync"} THEN Statuses ELSE {"T", "E"}
      [] status = "E" -> IF path \in {"simple", "sync"} THEN {"E", "I"} ELSE {"E"}

\* Mutant of Max2: a negative difference is not raised to zero.
Max2Unclamped(m, n) == n

Max2(m, n) == IF m > n THEN m ELSE n

\* A session begins ("open") or ends, whatever it was doing: pgfox closed the
\* socket ("closed") or the peer is gone and pgfox has not noticed ("dead").
SetSession(b, state) ==
    /\ conn'  = [conn EXCEPT ![b] = state]
    /\ tx'    = [tx EXCEPT ![b] = "I"]
    /\ named' = [named EXCEPT ![b] = 0]
    /\ wire'  = [wire EXCEPT ![b] = <<>>]

-----------------------------------------------------------------------------
(* Backend.Return, Backend.Release and reconcileConn. *)

\* Mutant of Return: a connection is returned by the handler and again on exit.
ReturnedTwice(b) ==
    /\ bclient' = [bclient EXCEPT ![b] = None]
    /\ Len(queue[bpool[b]]) < MaxConnections
    /\ queue' = [queue EXCEPT ![bpool[b]] = Append(Append(@, b), b)]
    /\ UNCHANGED closeCh

\* Return: into the Queue, or to CloseCh when the Queue is full.
Return(b) ==
    /\ bclient' = [bclient EXCEPT ![b] = None]
    /\ \/ /\ Len(queue[bpool[b]]) < MaxConnections
          /\ queue' = [queue EXCEPT ![bpool[b]] = Append(@, b)]
          /\ UNCHANGED closeCh
       \/ /\ Len(queue[bpool[b]]) >= MaxConnections
          /\ Len(closeCh) < MaxConnections
          /\ closeCh' = Append(closeCh, b)
          /\ UNCHANGED queue

\* Release: forget the client the backend knows of and hand the backend to the
\* target goroutine.  The send blocks while CloseCh is full.
Release(b) ==
    /\ Len(closeCh) < MaxConnections
    /\ closeCh' = Append(closeCh, b)
    /\ bclient' = [bclient EXCEPT ![b] = None]
    /\ pin'  = [c \in Clients |-> IF c = bclient[b] THEN None ELSE pin[c]]
    /\ inTx' = [c \in Clients |-> IF c = bclient[b] THEN FALSE ELSE inTx[c]]
    /\ UNCHANGED queue

\* SetBackend/SetClient, when the client has no backend yet.
Pin(c, b) ==
    /\ pin' = IF pin[c] = None THEN [pin EXCEPT ![c] = b] ELSE pin
    /\ bclient' = IF pin[c] = None THEN [bclient EXCEPT ![b] = c] ELSE bclient
    /\ UNCHANGED channelVars

\* Mutant of Unpin: the client keeps its pointer to the backend it returns.
UnpinKeepsPointer(c, b, clear) == UNCHANGED pin /\ Return(b)

\* SetBackend(nil) when clear, then Return.
Unpin(c, b, clear) ==
    /\ pin' = IF clear THEN [pin EXCEPT ![c] = None] ELSE pin
    /\ Return(b)

\* Mutants of Reconcile: a failed transaction is taken for an idle session; the
\* passthrough named statements are not asked about.
ReconcileFailedAsIdle(c, b, status) ==
    \/ /\ status = "T"
       /\ inTx' = [inTx EXCEPT ![c] = TRUE]
       /\ Pin(c, b)
    \/ /\ status # "T"
       /\ inTx' = [inTx EXCEPT ![c] = FALSE]
       /\ Unpin(c, b, job[c].pinned)

ReconcileForgetsNamed(c, b, status) ==
    \/ /\ status \in {"T", "E"}
       /\ inTx' = [inTx EXCEPT ![c] = TRUE]
       /\ Pin(c, b)
    \/ /\ status \notin {"T", "E"}
       /\ inTx' = [inTx EXCEPT ![c] = FALSE]
       /\ Unpin(c, b, job[c].pinned)

\* The three cases of reconcileConn.  status "?" is the zero byte that the
\* extended and prepared paths pass on after a read error.
Reconcile(c, b, status) ==
    \/ /\ status \in {"T", "E"}
       /\ inTx' = [inTx EXCEPT ![c] = TRUE]
       /\ Pin(c, b)
    \/ /\ status = "I"
       /\ inTx' = [inTx EXCEPT ![c] = FALSE]
       /\ \/ namedStmts[c] > 0 /\ Pin(c, b)
          \/ namedStmts[c] = 0 /\ Unpin(c, b, job[c].pinned)
    \/ /\ status = "?"
       /\ inTx' = [inTx EXCEPT ![c] = FALSE]
       /\ Unpin(c, b, job[c].pinned /\ namedStmts[c] = 0)

-----------------------------------------------------------------------------
(* The client goroutine: handleClient and the request handlers it calls. *)

\* The handler returns: nil sends handleClient back to reading the next
\* message, an error makes it leave its loop.
Done(c, next) ==
    /\ pc'   = [pc EXCEPT ![c] = next]
    /\ job'  = [job EXCEPT ![c] = NoJob]
    /\ held' = [held EXCEPT ![c] = None]

\* A new session takes the place of one that ended.  Whatever still points to
\* the old Client object does not point to the new one.
Accept(c) ==
    /\ pc[c] = "gone"
    /\ pc' = [pc EXCEPT ![c] = "idle"]
    /\ clientUp' = [clientUp EXCEPT ![c] = TRUE]
    /\ inTx' = [inTx EXCEPT ![c] = FALSE]
    /\ namedStmts' = [namedStmts EXCEPT ![c] = 0]
    /\ bclient' = [b \in Backends |-> IF bclient[b] = c THEN None ELSE bclient[b]]
    /\ UNCHANGED <<job, held, pin, serverVars, bpool, all, countVars,
                   channelVars, targetVars>>

\* Enter a handler on the given path: on the pinned backend when the handler
\* uses one, through borrowConn otherwise.
Start(c, req, path, usePin) ==
    /\ job' = [job EXCEPT ![c] = [req |-> req, path |-> path,
                                  pinned |-> usePin \/ RequiresPin(req)]]
    /\ held' = [held EXCEPT ![c] = IF usePin THEN pin[c] ELSE None]
    /\ pc' = [pc EXCEPT ![c] = IF usePin THEN "send" ELSE "borrow"]

\* Mutant of ExecuteQuery: a NOTIFY inside a transaction leaves it.
ExecuteQueryNotifyOutside(c) ==
    /\ \E req \in Requests \cap {"query", "dml", "notify"} :
          \/ req = "notify" /\ Start(c, req, "notify", FALSE)
          \/ req = "dml" /\ pin[c] = None /\ Start(c, req, "prepared", FALSE)
          \/ req # "notify" /\ Start(c, req, "simple", pin[c] # None)
    /\ UNCHANGED namedStmts

\* executeQuery: NOTIFY outside a transaction and parameterizable DML of an
\* unpinned client have their own paths; the rest is forwarded as it is.
ExecuteQuery(c) ==
    /\ \E req \in Requests \cap {"query", "dml", "notify"} :
          LET pinned == pin[c] # None IN
          \/ req = "notify" /\ ~inTx[c] /\ Start(c, req, "notify", FALSE)
          \/ req = "dml" /\ ~pinned /\ Start(c, req, "prepared", FALSE)
          \/ /\ \/ req = "query"
                \/ req = "notify" /\ inTx[c]
                \/ req = "dml" /\ pinned
             /\ Start(c, req, "simple", pinned)
    /\ UNCHANGED namedStmts

\* Mutant of ExecuteExtendedPipeline: the pinned backend is not looked up.
ExecutePipelineUnpinned(c) ==
    \E req \in Requests \ {"query", "dml", "notify"} :
        /\ Start(c, req, IF req \in {"flush", "flushUnnamed"} THEN "flush" ELSE "sync",
                 FALSE)
        /\ UNCHANGED namedStmts

\* executeExtendedPipeline, phases 1 and 2: the statements that cannot be
\* remapped are counted in namedStmts before any backend sees them.
ExecuteExtendedPipeline(c) ==
    \E req \in Requests \ {"query", "dml", "notify"} :
        /\ req = "named" => namedStmts[c] < MaxNamed
        /\ req = "close" => namedStmts[c] > 0
        /\ namedStmts' = [namedStmts EXCEPT ![c] =
                            CASE req = "named" -> @ + 1
                              [] req = "close" -> @ - 1
                              [] OTHER -> @]
        /\ Start(c, req, IF req \in {"flush", "flushUnnamed"} THEN "flush" ELSE "sync",
                 pin[c] # None)

\* A message of a connected client arrives and is dispatched.
HandleClientMessage(c) ==
    /\ pc[c] = "idle"
    /\ clientUp[c]
    /\ ExecuteQuery(c) \/ ExecuteExtendedPipeline(c)
    /\ UNCHANGED <<pin, inTx, clientUp, serverVars, backendVars, all, countVars,
                   channelVars, targetVars>>

\* The client sends Terminate, or reading from its socket fails.
Disconnect(c) ==
    /\ pc[c] = "idle"
    /\ Done(c, "cleanup")
    /\ UNCHANGED <<pin, inTx, namedStmts, clientUp, serverVars, backendVars, all,
                   countVars, channelVars, targetVars>>

\* The client's end of the socket goes away, at any point of a request.
ClientDrops(c) ==
    /\ pc[c] # "gone"
    /\ clientUp[c]
    /\ clientUp' = [clientUp EXCEPT ![c] = FALSE]
    /\ UNCHANGED <<pc, job, held, pin, inTx, namedStmts, serverVars, backendVars,
                   all, countVars, channelVars, targetVars>>

\* Mutant of Cleanup: the pinned backend is forgotten instead of released.
CleanupForgets(c) ==
    /\ pc[c] = "cleanup"
    /\ pc' = [pc EXCEPT ![c] = "gone"]
    /\ clientUp' = [clientUp EXCEPT ![c] = FALSE]
    /\ pin' = [pin EXCEPT ![c] = None]
    /\ UNCHANGED <<job, held, inTx, namedStmts, serverVars, backendVars, all,
                   countVars, channelVars, targetVars>>

\* The deferred function of handleClient: a pinned backend is terminated and
\* released, never returned.
Cleanup(c) ==
    /\ pc[c] = "cleanup"
    /\ \/ pin[c] # None /\ Release(pin[c]) /\ SetSession(pin[c], "dead")
       \/ pin[c] = None /\ UNCHANGED <<channelVars, bclient, pin, inTx, serverVars>>
    /\ pc' = [pc EXCEPT ![c] = "gone"]
    /\ clientUp' = [clientUp EXCEPT ![c] = FALSE]
    /\ UNCHANGED <<job, held, namedStmts, bpool, all, countVars, targetVars>>

-----------------------------------------------------------------------------
(* borrowConn. *)

\* Receive from the Queue.  A handler that requires a pin sets it at once.
TakeFromQueue(c) ==
    LET p == PoolOf[c]
        b == Head(queue[p])
    IN  /\ queue[p] # <<>>
        /\ queue' = [queue EXCEPT ![p] = Tail(@)]
        /\ held' = [held EXCEPT ![c] = b]
        /\ pc' = [pc EXCEPT ![c] = "send"]
        /\ pin' = IF RequiresPin(job[c].req) THEN [pin EXCEPT ![c] = b] ELSE pin
        /\ bclient' = IF RequiresPin(job[c].req) THEN [bclient EXCEPT ![b] = c] ELSE bclient

\* borrowConn succeeds: at once, or after waiting.
BorrowConn(c) ==
    /\ pc[c] \in {"borrow", "wait"}
    /\ TakeFromQueue(c)
    /\ UNCHANGED <<job, inTx, namedStmts, clientUp, serverVars, bpool, all, countVars,
                   closeCh, targetVars>>

\* The Queue is empty: start the timer and wait.  The tokens sent on Demand and
\* ConnReady are left out: they hasten a growth cycle that the ticker brings
\* anyway, and wake a waiter that the Queue wakes anyway.
BorrowWait(c) ==
    /\ pc[c] = "borrow"
    /\ queue[PoolOf[c]] = <<>>
    /\ pc' = [pc EXCEPT ![c] = "wait"]
    /\ UNCHANGED <<job, held, pin, inTx, namedStmts, clientUp, serverVars, backendVars,
                   all, countVars, channelVars, targetVars>>

\* The timer fires, possibly at the moment a connection arrives.  The client is
\* told and its session goes on, unless telling it fails.
BorrowTimeout(c) ==
    /\ pc[c] = "wait"
    /\ Done(c, IF clientUp[c] THEN "idle" ELSE "cleanup")
    /\ UNCHANGED <<pin, inTx, namedStmts, clientUp, serverVars, backendVars, all,
                   countVars, channelVars, targetVars>>

-----------------------------------------------------------------------------
(* Sending the request and reading the reply. *)

\* The server runs the request on a live session: a new transaction status,
\* possibly one named statement more or less, and one reply on the wire.  A
\* Parse may fail although pgfox has already counted it.
Serve(c, b) ==
    /\ \E status \in Outcomes(job[c].path, tx[b]) :
          /\ tx' = [tx EXCEPT ![b] = status]
          /\ wire' = [wire EXCEPT ![b] = Append(@, [to |-> c, tx |-> status])]
    /\ \/ /\ job[c].req = "named"
          /\ \E n \in {0, 1} : named' = [named EXCEPT ![b] = @ + n]
       \/ /\ job[c].req = "close"
          /\ \/ named' = [named EXCEPT ![b] = Max2(0, @ - 1)]
             \/ "closeSkipped" \in Faults /\ UNCHANGED named
       \/ job[c].req \notin {"named", "close"} /\ UNCHANGED named
    /\ UNCHANGED conn

\* The request is written to the backend and the server serves it.
SendRequest(c) ==
    /\ pc[c] = "send"
    /\ conn[held[c]] = "open"
    /\ Serve(c, held[c])
    /\ pc' = [pc EXCEPT ![c] = "read"]
    /\ UNCHANGED <<job, held, pin, inTx, namedStmts, clientUp, backendVars, all,
                   countVars, channelVars, targetVars>>

\* A broken connection may still accept the bytes: the failure shows later,
\* when the reply is read.
SendUnnoticed(c) ==
    /\ pc[c] = "send"
    /\ conn[held[c]] = "dead"
    /\ pc' = [pc EXCEPT ![c] = "read"]
    /\ UNCHANGED <<job, held, pin, inTx, namedStmts, clientUp, serverVars, backendVars,
                   all, countVars, channelVars, targetVars>>

\* A write fails on a broken connection, and on any if pgfox has made the message
\* and it exceeds max_message_size; a query or NOTIFY is passed on as it came.
WriteFails(c) ==
    conn[held[c]] # "open" \/ job[c].path \notin {"simple", "notify"}

\* Mutant of SendFails: the error path does not release the backend.
SendFailsLeaks(c) ==
    /\ pc[c] = "send"
    /\ WriteFails(c)
    /\ Done(c, IF clientUp[c] THEN "idle" ELSE "cleanup")
    /\ UNCHANGED <<pin, inTx, namedStmts, clientUp, serverVars, backendVars, all,
                   countVars, channelVars, targetVars>>

\* Writing fails: Release, and an error for the client.
SendFails(c) ==
    /\ pc[c] = "send"
    /\ WriteFails(c)
    /\ Release(held[c])
    /\ Done(c, IF clientUp[c] THEN "idle" ELSE "cleanup")
    /\ UNCHANGED <<namedStmts, clientUp, serverVars, bpool, all, countVars,
                   targetVars>>

\* A statement that the pipeline binds is not on this backend and cannot be put
\* there, or the client does not take a synthesised ParseComplete: Release.
DeployFails(c) ==
    /\ pc[c] = "send"
    /\ job[c].req = "shared"
    /\ Release(held[c])
    /\ Done(c, IF clientUp[c] THEN "idle" ELSE "cleanup")
    /\ UNCHANGED <<namedStmts, clientUp, serverVars, bpool, all, countVars,
                   targetVars>>

\* A Flush is over (drainFlushResponse gave no error): the client keeps the
\* backend for the rest of its pipeline.
AfterFlush(c, b) ==
    /\ IF job[c].pinned THEN UNCHANGED <<pin, bclient, channelVars>> ELSE Pin(c, b)
    /\ UNCHANGED inTx

\* The reply is read up to its end and forwarded.  After a Flush the client
\* keeps the backend; handleNotify returns it; the others reconcile.
ReadReply(c) ==
    LET b == held[c] IN
    /\ pc[c] = "read"
    /\ wire[b] # <<>>
    /\ wire' = [wire EXCEPT ![b] = Tail(@)]
    /\ CASE job[c].path = "notify" -> Return(b) /\ UNCHANGED <<pin, inTx>>
         [] job[c].path = "flush" -> AfterFlush(c, b)
         [] OTHER -> Reconcile(c, b, Head(wire[b]).tx)
    /\ Done(c, "idle")
    /\ UNCHANGED <<namedStmts, clientUp, conn, tx, named, bpool, all, countVars,
                   targetVars>>

\* Mutant of ForwardFails: the backend is returned with the reply half read.
ForwardFailsReturns(c) ==
    /\ pc[c] = "read"
    /\ ~clientUp[c]
    /\ wire[held[c]] # <<>>
    /\ Return(held[c])
    /\ pin' = [pin EXCEPT ![c] = None]
    /\ Done(c, "cleanup")
    /\ UNCHANGED <<inTx, namedStmts, clientUp, serverVars, bpool, all, countVars,
                   targetVars>>

\* The reply cannot be written to the client: Release and leave.
ForwardFails(c) ==
    /\ pc[c] = "read"
    /\ ~clientUp[c]
    /\ wire[held[c]] # <<>>
    /\ Release(held[c])
    /\ Done(c, "cleanup")
    /\ UNCHANGED <<namedStmts, clientUp, serverVars, bpool, all, countVars,
                   targetVars>>

\* Mutant of ReadFails: a broken connection is only noticed by the deadline.
ReadFailsAtDeadline(c) ==
    pc[c] = "read" /\ "timeout" \in Faults /\ job[c].path # "notify"

\* Reading fails: the connection broke, query_timeout expired (handleNotify sets no
\* deadline), or ReadMessage refuses the length of a message.
ReadFails(c) ==
    /\ pc[c] = "read"
    /\ \/ conn[held[c]] # "open"
       \/ "timeout" \in Faults /\ job[c].path # "notify"
       \/ "oversize" \in Faults /\ wire[held[c]] # <<>>

\* On the simple path the backend is released and the session ends.
ReadErrorSimple(c) ==
    /\ ReadFails(c)
    /\ job[c].path \in {"simple", "notify"}
    /\ Release(held[c])
    /\ Done(c, "cleanup")
    /\ UNCHANGED <<namedStmts, clientUp, serverVars, bpool, all, countVars,
                   targetVars>>

\* forwardExtendedResponse, forwardPreparedResponse and drainFlushResponse send
\* the client an error and, when that succeeds, report no error themselves.
ReadErrorExtended(c) ==
    LET b == held[c] IN
    /\ ReadFails(c)
    /\ job[c].path \in {"prepared", "sync", "flush"}
    /\ \/ /\ clientUp[c]
          /\ IF job[c].path = "flush" THEN AfterFlush(c, b) ELSE Reconcile(c, b, "?")
          /\ Done(c, "idle")
       \/ /\ ~clientUp[c]
          /\ Release(b)
          /\ Done(c, "cleanup")
    /\ UNCHANGED <<namedStmts, clientUp, serverVars, bpool, all, countVars,
                   targetVars>>

-----------------------------------------------------------------------------
(* The target goroutine: run and the cycles it calls.  It is the only writer *)
(* of All and TotalOpen.                                                      *)

\* Mutant of CloseAndForget: the slot is not given back.
CloseUncounted(p, b) ==
    /\ SetSession(b, "closed")
    /\ all' = [all EXCEPT ![p] = @ \ {b}]
    /\ UNCHANGED totalOpen

\* Close a pooled connection and forget it.
CloseAndForget(p, b) ==
    /\ SetSession(b, "closed")
    /\ totalOpen' = totalOpen - 1
    /\ all' = [all EXCEPT ![p] = @ \ {b}]

\* Mutant of HandleClose: the last connection in the channel is left there.
HandleCloseLeavesLast ==
    /\ tpc = "select"
    /\ Len(closeCh) > 1
    /\ closeCh' = Tail(closeCh)
    /\ CloseAndForget(bpool[Head(closeCh)], Head(closeCh))
    /\ UNCHANGED <<clientVars, backendVars, privOpen, room, queue, targetVars>>

\* handleClose.
HandleClose ==
    /\ tpc = "select"
    /\ closeCh # <<>>
    /\ closeCh' = Tail(closeCh)
    /\ CloseAndForget(bpool[Head(closeCh)], Head(closeCh))
    /\ UNCHANGED <<clientVars, backendVars, privOpen, room, queue, targetVars>>

\* serverAvailable > 1 at the start of growthCycle: from the statistics when
\* there are any, from its own budget otherwise.  It is not computed again
\* while the cycle opens connections.
ServerHasRoom ==
    \/ room = "room"
    \/ room = "unknown" /\ MaxConnections - totalOpen > 1

Active(p) == Max2(0, Cardinality(all[p]) - Len(queue[p]))

\* Mutant of Contended: a pool without connections is not contended.
ContendedWhenBusy(p) == Active(p) > 0 /\ Active(p) = Cardinality(all[p])

Contended(p) == Cardinality(all[p]) = 0 \/ Active(p) = Cardinality(all[p])

\* The first half of growthCycle: which pools are contended, and how many idle
\* connections each has beyond its high-water mark plus one.  The mark is the
\* largest recent sample of Active, at least the current one and at least 1.
\* When nothing is contended the pools with an excess are shrunk instead.
GrowthScan ==
    /\ tpc = "select"
    /\ \E hwm \in [Pools -> 1..MaxConnections] :
          /\ \A p \in Pools : hwm[p] >= Active(p)
          /\ excess' = [p \in Pools |-> Max2(0, Len(queue[p]) - (hwm[p] + 1))]
    /\ LET contended == {p \in Pools : Contended(p)} IN
       \/ /\ contended # {}
          /\ todo' = contended
          /\ tpc' = "grow"
       \/ /\ contended = {}
          /\ todo' = {p \in Pools : excess'[p] > 0}
          /\ tpc' = "shrink"
    /\ serverAvailable' = ServerHasRoom
    /\ UNCHANGED <<clientVars, serverVars, backendVars, all, countVars, channelVars,
                   curPool, inHand>>

\* Mutant of HasBudget: one connection more than the budget.
HasBudgetPlusOne == totalOpen <= MaxConnections /\ serverAvailable

\* The loop over the contended pools goes on while there is budget.
HasBudget == totalOpen < MaxConnections /\ serverAvailable

\* One contended pool: an idle connection of another pool, the one idleIdx
\* stands at, is closed to recycle its slot; openOne comes next.
GrowRecycle(p, q) ==
    /\ tpc = "grow" /\ p \in todo /\ HasBudget
    /\ q # p /\ excess[q] > 0 /\ queue[q] # <<>>
    /\ queue' = [queue EXCEPT ![q] = Tail(@)]
    /\ CloseAndForget(q, Head(queue[q]))
    /\ excess' = [excess EXCEPT ![q] = @ - 1]
    /\ todo' = todo \ {p}
    /\ curPool' = p
    /\ tpc' = "open"
    /\ UNCHANGED <<clientVars, backendVars, privOpen, room, closeCh, serverAvailable,
                   inHand>>

\* One contended pool, with nothing to recycle: no other pool has an excess, or
\* the one idleIdx stands at has been emptied by its clients meanwhile.
GrowFresh(p) ==
    /\ tpc = "grow" /\ p \in todo /\ HasBudget
    /\ \/ \A q \in Pools \ {p} : excess[q] = 0
       \/ \E q \in Pools \ {p} : excess[q] > 0 /\ queue[q] = <<>>
    /\ todo' = todo \ {p}
    /\ curPool' = p
    /\ tpc' = "open"
    /\ UNCHANGED <<clientVars, serverVars, backendVars, all, countVars, channelVars,
                   serverAvailable, excess, inHand>>

\* No budget, or no contended pool left: the cycle is over.
GrowEnd ==
    /\ tpc = "grow"
    /\ todo = {} \/ ~HasBudget
    /\ tpc' = "select"
    /\ todo' = {}
    /\ excess' = [p \in Pools |-> 0]
    /\ serverAvailable' = FALSE
    /\ UNCHANGED <<clientVars, serverVars, backendVars, all, countVars, channelVars,
                   curPool, inHand>>

\* Nothing refers to b: no goroutine, channel, pool or client.
Unreferenced(b) ==
    /\ \A p \in Pools : b \notin all[p] /\ b \notin Range(queue[p])
    /\ \A c \in Clients : held[c] # b /\ pin[c] # b
    /\ b \notin Range(closeCh)
    /\ inHand # b

\* openOne: a fresh session, counted and put into the Queue; closed again when
\* the Queue is full.
OpenOne ==
    /\ tpc = "open"
    /\ tpc' = "grow"
    /\ curPool' = None
    /\ IF Len(queue[curPool]) < MaxConnections
         THEN \E b \in Backends :
                /\ Unreferenced(b)
                /\ SetSession(b, "open")
                /\ bpool' = [bpool EXCEPT ![b] = curPool]
                /\ bclient' = [bclient EXCEPT ![b] = None]
                /\ all' = [all EXCEPT ![curPool] = @ \cup {b}]
                /\ totalOpen' = totalOpen + 1
                /\ queue' = [queue EXCEPT ![curPool] = Append(@, b)]
         ELSE UNCHANGED <<serverVars, backendVars, all, totalOpen, queue>>
    /\ UNCHANGED <<clientVars, privOpen, room, closeCh, serverAvailable, todo,
                   excess, inHand>>

\* newConn fails: growthCycle goes on with the next contended pool.
OpenFails ==
    /\ tpc = "open"
    /\ "refuse" \in Faults
    /\ tpc' = "grow"
    /\ curPool' = None
    /\ UNCHANGED <<clientVars, serverVars, backendVars, all, countVars, channelVars,
                   serverAvailable, todo, excess, inHand>>

\* closeOneIdle for one pool with an excess.
Shrink(p) ==
    /\ tpc = "shrink"
    /\ p \in todo
    /\ todo' = todo \ {p}
    /\ \/ /\ queue[p] # <<>>
          /\ queue' = [queue EXCEPT ![p] = Tail(@)]
          /\ CloseAndForget(p, Head(queue[p]))
       \/ /\ queue[p] = <<>>
          /\ UNCHANGED <<queue, serverVars, all, totalOpen>>
    /\ UNCHANGED <<clientVars, backendVars, privOpen, room, closeCh, serverAvailable,
                   tpc, excess, curPool, inHand>>

ShrinkEnd ==
    /\ tpc = "shrink"
    /\ todo = {}
    /\ tpc' = "select"
    /\ excess' = [p \in Pools |-> 0]
    /\ serverAvailable' = FALSE
    /\ UNCHANGED <<clientVars, serverVars, backendVars, all, countVars, channelVars,
                   todo, curPool, inHand>>

\* Mutant of HealthStart: a lost privileged connection is still counted.
HealthStartCounted ==
    /\ tpc = "select"
    /\ tpc' = "health"
    /\ \/ UNCHANGED privOpen
       \/ privOpen /\ {"die", "refuse"} \subseteq Faults /\ privOpen' = FALSE
    /\ UNCHANGED <<clientVars, serverVars, backendVars, all, totalOpen, room, channelVars,
                   todo, serverAvailable, excess, curPool, inHand>>

\* healthCheck begins with the privileged connection: it is probed and, when it
\* is dead, replaced if a new one can be opened (a missing one is not retried).
HealthStart ==
    /\ tpc = "select"
    /\ tpc' = "health"
    /\ \/ UNCHANGED <<totalOpen, privOpen>>
       \/ /\ privOpen /\ {"die", "refuse"} \subseteq Faults
          /\ totalOpen' = totalOpen - 1
          /\ privOpen' = FALSE
    /\ UNCHANGED <<clientVars, serverVars, backendVars, all, room, channelVars, todo,
                   serverAvailable, excess, curPool, inHand>>

\* Then it goes through the Queues: a non-blocking receive for each connection
\* idle at the start.  Which ones it gets depends on the clients.
HealthTake(p) ==
    /\ tpc = "health" /\ inHand = None
    /\ queue[p] # <<>>
    /\ queue' = [queue EXCEPT ![p] = Tail(@)]
    /\ inHand' = Head(queue[p])
    /\ curPool' = p
    /\ UNCHANGED <<clientVars, serverVars, backendVars, all, countVars, closeCh, tpc,
                   todo, serverAvailable, excess>>

\* Mutant of HealthKeep: a connection that does not fit any more is dropped.
HealthKeepDrops ==
    /\ tpc = "health" /\ inHand # None
    /\ inHand' = None
    /\ curPool' = None
    /\ UNCHANGED <<clientVars, serverVars, backendVars, all, countVars, channelVars,
                   tpc, todo, serverAvailable, excess>>

\* The connection is put back, unless meanwhile the Queue became full.
HealthKeep ==
    /\ tpc = "health" /\ inHand # None
    /\ Len(queue[curPool]) < MaxConnections
    /\ queue' = [queue EXCEPT ![curPool] = Append(@, inHand)]
    /\ inHand' = None
    /\ curPool' = None
    /\ UNCHANGED <<clientVars, serverVars, backendVars, all, countVars, closeCh, tpc,
                   todo, serverAvailable, excess>>

\* It was idle for too long (or the Queue is full): closed and forgotten.
HealthReap ==
    /\ tpc = "health" /\ inHand # None
    /\ CloseAndForget(curPool, inHand)
    /\ inHand' = None
    /\ curPool' = None
    /\ UNCHANGED <<clientVars, backendVars, privOpen, room, channelVars, tpc, todo,
                   serverAvailable, excess>>

HealthEnd ==
    /\ tpc = "health" /\ inHand = None
    /\ tpc' = "select"
    /\ UNCHANGED <<clientVars, serverVars, backendVars, all, countVars, channelVars,
                   todo, serverAvailable, excess, curPool, inHand>>

\* updateServerStats, as far as growthCycle uses it.
UpdateServerStats ==
    /\ tpc = "select"
    /\ room' \in StatsReplies
    /\ UNCHANGED <<clientVars, serverVars, backendVars, all, totalOpen,
                   privOpen, channelVars, targetVars>>

-----------------------------------------------------------------------------
(* The environment. *)

\* A server connection breaks; nothing in pgfox notices yet.
ConnectionDies(b) ==
    /\ "die" \in Faults
    /\ conn[b] = "open"
    /\ SetSession(b, "dead")
    /\ UNCHANGED <<clientVars, backendVars, all, countVars, channelVars, targetVars>>

\* failListen in a monitor goroutine closes a subscribed client: Client.Close
\* closes the backend the client is pinned to, without Release.
FailListen(c) ==
    /\ "listenLost" \in Faults
    /\ pc[c] # "gone" /\ clientUp[c]
    /\ clientUp' = [clientUp EXCEPT ![c] = FALSE]
    /\ pin' = [pin EXCEPT ![c] = None]
    /\ IF pin[c] # None THEN SetSession(pin[c], "closed") ELSE UNCHANGED serverVars
    /\ UNCHANGED <<pc, job, held, inTx, namedStmts, backendVars, all, countVars,
                   channelVars, targetVars>>

-----------------------------------------------------------------------------

\* The target goroutine has opened its privileged connection and nothing else.
Init ==
    /\ pc = [c \in Clients |-> "gone"]
    /\ job = [c \in Clients |-> NoJob]
    /\ held = [c \in Clients |-> None]
    /\ pin = [c \in Clients |-> None]
    /\ inTx = [c \in Clients |-> FALSE]
    /\ namedStmts = [c \in Clients |-> 0]
    /\ clientUp = [c \in Clients |-> FALSE]
    /\ conn = [b \in Backends |-> "closed"]
    /\ tx = [b \in Backends |-> "I"]
    /\ named = [b \in Backends |-> 0]
    /\ wire = [b \in Backends |-> <<>>]
    /\ bclient = [b \in Backends |-> None]
    /\ bpool = [b \in Backends |-> None]
    /\ queue = [p \in Pools |-> <<>>]
    /\ all = [p \in Pools |-> {}]
    /\ totalOpen = 1 /\ privOpen = TRUE /\ room = "unknown"
    /\ closeCh = <<>>
    /\ tpc = "select" /\ serverAvailable = FALSE /\ todo = {} /\ excess = [p \in Pools |-> 0]
    /\ curPool = None /\ inHand = None

\* What a client goroutine does once a request has arrived.
ServeStep(c) ==
    \/ BorrowConn(c) \/ BorrowWait(c)
    \/ SendRequest(c) \/ SendUnnoticed(c) \/ SendFails(c) \/ DeployFails(c)
    \/ ReadReply(c) \/ ForwardFails(c) \/ ReadErrorSimple(c) \/ ReadErrorExtended(c)
    \/ Cleanup(c)

ClientStep(c) ==
    \/ Accept(c) \/ HandleClientMessage(c) \/ Disconnect(c) \/ ClientDrops(c)
    \/ ServeStep(c) \/ BorrowTimeout(c)

\* The body of a growth or health cycle, once begun.
CycleStep ==
    \/ \E p, q \in Pools : GrowRecycle(p, q)
    \/ \E p \in Pools : GrowFresh(p) \/ Shrink(p) \/ HealthTake(p)
    \/ GrowEnd \/ OpenOne \/ OpenFails \/ ShrinkEnd
    \/ HealthKeep \/ HealthReap \/ HealthEnd

TargetStep ==
    \/ HandleClose \/ GrowthScan \/ HealthStart
    \/ UpdateServerStats \/ CycleStep

EnvironmentStep ==
    \/ \E b \in Backends : ConnectionDies(b)
    \/ \E c \in Clients : FailListen(c)

Next ==
    \/ \E c \in Clients : ClientStep(c)
    \/ TargetStep
    \/ EnvironmentStep

Spec == Init /\ [][Next]_vars

\* A client goroutine goes on when it can, and its timer fires.  The target
\* goroutine goes on inside a cycle; its select chooses at random among the
\* ready channels and the tickers keep ticking, so none of them is passed over
\* for ever.  healthCheck makes a bounded number of iterations.  A server that
\* refuses connections accepts one in the end.
Fairness ==
    /\ \A c \in Clients : WF_vars(ServeStep(c)) /\ WF_vars(BorrowTimeout(c))
    /\ WF_vars(CycleStep)
    /\ SF_vars(HealthEnd) /\ SF_vars(HandleClose) /\ SF_vars(GrowthScan)
    /\ SF_vars(OpenOne)

FairSpec == Spec /\ Fairness

-----------------------------------------------------------------------------
(* Properties. *)

SessionTypes ==
    /\ pc \in [Clients -> {"gone", "idle", "borrow", "wait", "send", "read", "cleanup"}]
    /\ job \in [Clients -> Jobs]
    /\ held \in [Clients -> Backends \cup {None}]
    /\ namedStmts \in [Clients -> Nat]
    /\ clientUp \in [Clients -> BOOLEAN]

PinTypes ==
    /\ pin \in [Clients -> Backends \cup {None}]
    /\ inTx \in [Clients -> BOOLEAN]
    /\ bclient \in [Backends -> Clients \cup {None}]

ServerTypes ==
    /\ conn \in [Backends -> {"open", "dead", "closed"}]
    /\ tx \in [Backends -> Statuses]
    /\ named \in [Backends -> Nat]
    /\ wire \in [Backends -> Seq(Replies)]

ChannelTypes ==
    /\ queue \in [Pools -> Seq(Backends)]
    /\ closeCh \in Seq(Backends)

BookTypes ==
    /\ bpool \in [Backends -> Pools \cup {None}]
    /\ all \in [Pools -> SUBSET Backends]
    /\ totalOpen \in Int
    /\ privOpen \in BOOLEAN
    /\ room \in {"unknown", "room", "full"}

TargetTypes ==
    /\ tpc \in {"select", "grow", "open", "shrink", "health"}
    /\ serverAvailable \in BOOLEAN
    /\ todo \in SUBSET Pools
    /\ excess \in [Pools -> Nat]
    /\ curPool \in Pools \cup {None}
    /\ inHand \in Backends \cup {None}

\* Every variable holds a value of its type.
TypeOK == /\ SessionTypes /\ PinTypes /\ ServerTypes
          /\ ChannelTypes /\ BookTypes /\ TargetTypes

\* What a client owns: the handler's local variable and the pinned backend.
Owned(c) == {held[c], pin[c]} \ {None}

ChannelsApart ==
    /\ IsInjective(closeCh)
    /\ inHand \notin Range(closeCh)
    /\ \A p \in Pools :
          /\ IsInjective(queue[p])
          /\ inHand \notin Range(queue[p])
          /\ Range(queue[p]) \cap Range(closeCh) = {}
          /\ \A q \in Pools \ {p} : Range(queue[p]) \cap Range(queue[q]) = {}

OwnersApart ==
    \A c \in Clients : \A b \in Owned(c) :
        /\ b # inHand
        /\ b \notin Range(closeCh)
        /\ \A p \in Pools : b \notin Range(queue[p])
        /\ \A d \in Clients \ {c} : b \notin Owned(d)

\* A backend has one owner: it is in at most one place of at most one channel,
\* or in the hands of the target goroutine, or of one client (as the handler's
\* local variable, as the pinned backend, or as both), whatever the order in
\* which Return, Release, borrowConn and the target goroutine's cycles meet.
Exclusive == ChannelsApart /\ OwnersApart

\* An idle connection carries nothing of the client that used it last: its
\* session is outside a transaction, has no passthrough named statements and no
\* unread reply.  reconcileConn decides that from what the reply told it.
QueueClean ==
    \A p \in Pools : \A i \in DOMAIN queue[p] :
        LET b == queue[p][i] IN
        conn[b] = "open" => tx[b] = "I" /\ named[b] = 0 /\ wire[b] = <<>>

\* The reply a client is about to read is the reply to its own request: every
\* handler reads its reply to the end before the backend is returned.
OwnReply ==
    \A c \in Clients : pc[c] = "read" /\ wire[held[c]] # <<>> => Head(wire[held[c]]).to = c

Pooled == UNION {all[p] : p \in Pools}

\* TotalOpen counts the pooled connections and the privileged one, and stays
\* within the budget, over everything growthCycle, healthCheck and handleClose do.
Accounting ==
    /\ totalOpen = Cardinality(Pooled) + (IF privOpen THEN 1 ELSE 0)
    /\ totalOpen <= MaxConnections

\* No pooled connection is lost: each one in All is in a channel, with the
\* target goroutine or with a client, so its slot can be used or freed again.
NothingLost ==
    \A p \in Pools : \A b \in all[p] :
        \/ b \in Range(queue[p])
        \/ b \in Range(closeCh)
        \/ inHand = b
        \/ \E c \in Clients : b \in Owned(c)

\* The channels are large enough: a client that holds a connection can return
\* or release it without blocking.
NeverBlocked ==
    \A c \in Clients : \A b \in Owned(c) :
        Len(closeCh) < MaxConnections /\ Len(queue[bpool[b]]) < MaxConnections

\* A session inside a transaction serves only the client whose transaction it
\* is: a request is sent to it only by the client that is pinned to it.
TxRouting ==
    [][\A c \in Clients :
         pc[c] = "send" /\ pc'[c] = "read" /\ conn[held[c]] = "open" =>
           /\ tx[held[c]] \in {"T", "E"} => pin[c] = held[c]
           /\ pin[c] # None /\ pin[c] # held[c] => tx[pin[c]] = "I"]_vars

\* A request ends: it is answered, or it fails and its client is told or gone.
\* No wait for a connection, for a reply or for room in a channel is for ever.
RequestEnds ==
    \A c \in Clients : pc[c] \in {"borrow", "wait", "send", "read", "cleanup"}
                          ~> pc[c] \in {"idle", "gone"}

\* A pool that lost all its connections is given a new one.
PoolRecovers == \A p \in Pools : all[p] = {} ~> all[p] # {}

\* A connection on CloseCh is closed and its slot freed.
ReleasedIsClosed == \A b \in Backends : b \in Range(closeCh) ~> b \notin Range(closeCh)
=============================================================================
