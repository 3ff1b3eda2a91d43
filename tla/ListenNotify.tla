---------------------------- MODULE ListenNotify ----------------------------
(***************************************************************************)
(* The monitor of one notification channel.  All the clients that LISTEN   *)
(* on a channel share one Listen: an object registered in Server.Listeners *)
(* with a dedicated server connection and a goroutine, run, that reads     *)
(* from it and fans notifications out.  The goroutine of the client that   *)
(* joins first creates it, the one of the client that leaves last tears it *)
(* down.                                                                   *)
(*                                                                         *)
(* Channels share nothing but ListenOpen, so one is enough.  LISTEN and    *)
(* UNLISTEN are those outside a transaction.  A step is a stretch of code  *)
(* under a lock, or up to the next socket operation.                       *)
(***************************************************************************)
EXTENDS Integers, FiniteSets

CONSTANTS
    Clients,    \* client sessions
    Monitors,   \* identities of Listen objects (reused once unreferenced)
    Conns,      \* identities of listen connections (likewise)
    None,       \* Go's nil
    MaxListen,  \* what AtomicTotalOpen leaves of Target.MaxConnections
    Faults      \* the failures the environment may produce

\* "connLost": a listen connection breaks.  "refuse": one cannot be opened, or
\* LISTEN fails on it.  "clientLost": a client's socket breaks.
ASSUME ListenAssumption ==
    /\ None \notin Clients \cup Monitors \cup Conns
    /\ IsFiniteSet(Conns)
    /\ MaxListen \in Nat
    /\ Faults \subseteq {"connLost", "refuse", "clientLost"}

VARIABLES
    \* --- client goroutines ---
    pc,          \* where the handler is
    after,       \* where it goes once a teardown is over: UNLISTEN or disconnect
    target,      \* the Listen it has in a local variable
    hand,        \* the connection getOrCreateListen has opened
    subscribed,  \* Client.listenChannels has the channel
    clientUp,    \* the client's socket still works
    \* --- shared objects ---
    registered,  \* Server.Listeners of the channel
    subs,        \* Listen.Clients
    backend,     \* Listen.Backend
    conn,        \* "open", "dead" (peer gone, not yet noticed) or "closed"
    listenOpen,  \* Target.ListenOpen
    \* --- monitor goroutines ---
    mpc,         \* where run is
    cur,         \* run's local variable backend, or newBackend
    todo,        \* the snapshot fanOut or failListen goes through
    mtarget      \* the Listen that fanOut tears down

clientVars  == <<pc, after, target, hand, subscribed, clientUp>>
sharedVars  == <<registered, subs, backend>>
monitorVars == <<mpc, cur, todo, mtarget>>
vars == <<clientVars, sharedVars, conn, listenOpen, monitorVars>>

-----------------------------------------------------------------------------
(* Helpers. *)

Finished == {"none", "done"}

\* Nothing refers to the object: no map entry, goroutine or local variable.
FreeMonitor(m) ==
    /\ registered # m /\ mpc[m] \in Finished
    /\ \A c \in Clients : target[c] # m
    /\ \A n \in Monitors : mtarget[n] # m

FreeConn(k) ==
    /\ conn[k] # "open"
    /\ \A c \in Clients : hand[c] # k
    /\ \A m \in Monitors : mpc[m] \notin Finished => cur[m] # k /\ backend[m] # k

\* newConn, LISTEN and drainUntilReady: an open connection that listens.
OpenListening(k) ==
    /\ FreeConn(k)
    /\ conn' = [conn EXCEPT ![k] = "open"]

\* The reply is written and the next message awaited; a reply that cannot be
\* written ends the session.
Reply(c) == pc' = [pc EXCEPT ![c] = IF clientUp[c] THEN "idle" ELSE "cleanup"]

\* Mutant of RemoveClientFromListen: the empty monitor stays in the map.
RemoveClientKeepsEntry(c) ==
    /\ subs' = IF registered = None THEN subs ELSE [subs EXCEPT ![registered] = @ \ {c}]
    /\ UNCHANGED registered

\* RemoveClientFromListen up to the unlock: whichever monitor is registered
\* loses the client, and its entry in the map when that was its last one.
RemoveClientFromListen(c) ==
    IF registered = None
      THEN UNCHANGED <<subs, registered>>
      ELSE /\ subs' = [subs EXCEPT ![registered] = @ \ {c}]
           /\ registered' = IF subs'[registered] = {} THEN None ELSE registered

\* ... and whether the caller now has to tear it down.
Emptied(c) == registered # None /\ subs[registered] \subseteq {c}

\* tearDownListen up to the wait: the backend is taken from the monitor and
\* closed.  ListenOpen is decremented only when backend.Pool is set, which it
\* never is for a listen connection.
TakeBackend(m) ==
    /\ backend' = [backend EXCEPT ![m] = None]
    /\ conn' = IF backend[m] = None THEN conn ELSE [conn EXCEPT ![backend[m]] = "closed"]

-----------------------------------------------------------------------------
(* Client goroutines: LISTEN. *)

\* A new session, with a name that no running monitor uses for an earlier one.
Accept(c) ==
    /\ pc[c] = "gone"
    /\ \A m \in Monitors : mpc[m] \notin Finished => c \notin subs[m] \cup todo[m]
    /\ pc' = [pc EXCEPT ![c] = "idle"]
    /\ clientUp' = [clientUp EXCEPT ![c] = TRUE]
    /\ UNCHANGED <<after, target, hand, subscribed, sharedVars, conn, listenOpen,
                   monitorVars>>

\* handleListen calls getOrCreateListen: the map is read under the read lock;
\* without an entry the budget is checked (and an error sent when it is spent).
Listen(c) ==
    /\ pc[c] = "idle" /\ clientUp[c]
    /\ \/ /\ registered # None
          /\ target' = [target EXCEPT ![c] = registered]
          /\ pc' = [pc EXCEPT ![c] = "join"]
       \/ /\ registered = None
          /\ listenOpen < MaxListen
          /\ pc' = [pc EXCEPT ![c] = "dial"]
          /\ UNCHANGED target
    /\ UNCHANGED <<after, hand, subscribed, clientUp, sharedVars, conn, listenOpen,
                   monitorVars>>

\* addClient, some time after the map was unlocked; then AddListenChannel.
Join(c) ==
    /\ pc[c] = "join"
    /\ subs' = [subs EXCEPT ![target[c]] = @ \cup {c}]
    /\ subscribed' = [subscribed EXCEPT ![c] = TRUE]
    /\ target' = [target EXCEPT ![c] = None]
    /\ Reply(c)
    /\ UNCHANGED <<after, hand, clientUp, registered, backend, conn, listenOpen,
                   monitorVars>>

\* Mutant of Dial: the connection is not counted.
DialUncounted(c) ==
    /\ pc[c] = "dial"
    /\ \E k \in Conns : OpenListening(k) /\ hand' = [hand EXCEPT ![c] = k]
    /\ pc' = [pc EXCEPT ![c] = "register"]
    /\ UNCHANGED <<after, target, subscribed, clientUp, sharedVars, listenOpen,
                   monitorVars>>

\* The slow path opens a connection and counts it.
Dial(c) ==
    /\ pc[c] = "dial"
    /\ \E k \in Conns : OpenListening(k) /\ hand' = [hand EXCEPT ![c] = k]
    /\ listenOpen' = listenOpen + 1
    /\ pc' = [pc EXCEPT ![c] = "register"]
    /\ UNCHANGED <<after, target, subscribed, clientUp, sharedVars, monitorVars>>

DialFails(c) ==
    /\ pc[c] = "dial"
    /\ "refuse" \in Faults
    /\ Reply(c)
    /\ UNCHANGED <<after, target, hand, subscribed, clientUp, sharedVars, conn,
                   listenOpen, monitorVars>>

\* Registration finds that another goroutine was faster: the new connection is
\* closed again and the existing monitor joined, after the unlock.
RegisterLate(c) ==
    /\ pc[c] = "register"
    /\ registered # None
    /\ conn' = [conn EXCEPT ![hand[c]] = "closed"]
    /\ listenOpen' = listenOpen - 1
    /\ hand' = [hand EXCEPT ![c] = None]
    /\ target' = [target EXCEPT ![c] = registered]
    /\ pc' = [pc EXCEPT ![c] = "join"]
    /\ UNCHANGED <<after, subscribed, clientUp, sharedVars, monitorVars>>

\* Registration of a new monitor, with this client as its only subscriber, and
\* the start of its goroutine.
Register(c) ==
    /\ pc[c] = "register"
    /\ registered = None
    /\ \E m \in Monitors :
          /\ FreeMonitor(m)
          /\ registered' = m
          /\ subs' = [subs EXCEPT ![m] = {c}]
          /\ backend' = [backend EXCEPT ![m] = hand[c]]
          /\ mpc' = [mpc EXCEPT ![m] = "loop"]
    /\ hand' = [hand EXCEPT ![c] = None]
    /\ subscribed' = [subscribed EXCEPT ![c] = TRUE]
    /\ Reply(c)
    /\ UNCHANGED <<after, target, clientUp, conn, listenOpen, cur, todo, mtarget>>

-----------------------------------------------------------------------------
(* Client goroutines: UNLISTEN and disconnect. *)

\* RemoveClientFromListen for its own client; the emptied monitor is torn down
\* before the handler goes on to next.
Leave(c, next) ==
    /\ RemoveClientFromListen(c)
    /\ IF Emptied(c)
         THEN /\ target' = [target EXCEPT ![c] = registered]
              /\ after' = [after EXCEPT ![c] = next]
              /\ pc' = [pc EXCEPT ![c] = "teardown"]
              /\ UNCHANGED subscribed
         ELSE /\ pc' = [pc EXCEPT ![c] = next]
              /\ subscribed' = [subscribed EXCEPT ![c] = FALSE]
              /\ UNCHANGED <<target, after>>

\* handleUnlisten: it does not ask whether the client is subscribed.
Unlisten(c) ==
    /\ pc[c] = "idle" /\ clientUp[c]
    /\ Leave(c, "idle")
    /\ UNCHANGED <<hand, clientUp, backend, conn, listenOpen, monitorVars>>

\* The session ends: Terminate, or a failed read from the client.
Disconnect(c) ==
    /\ pc[c] = "idle"
    /\ pc' = [pc EXCEPT ![c] = "cleanup"]
    /\ UNCHANGED <<after, target, hand, subscribed, clientUp, sharedVars, conn,
                   listenOpen, monitorVars>>

\* cleanupClientListeners, for the channels the client is subscribed to.
Cleanup(c) ==
    /\ pc[c] = "cleanup"
    /\ IF subscribed[c]
         THEN Leave(c, "gone")
         ELSE /\ pc' = [pc EXCEPT ![c] = "gone"]
              /\ UNCHANGED <<subs, registered, target, after, subscribed>>
    /\ UNCHANGED <<hand, clientUp, backend, conn, listenOpen, monitorVars>>

TearDown(c) ==
    /\ pc[c] = "teardown"
    /\ TakeBackend(target[c])
    /\ pc' = [pc EXCEPT ![c] = "wait"]
    /\ UNCHANGED <<after, target, hand, subscribed, clientUp, registered, subs,
                   listenOpen, monitorVars>>

\* tearDownListen waits until run has closed Done.
TornDown(c) ==
    /\ pc[c] = "wait"
    /\ mpc[target[c]] = "done"
    /\ pc' = [pc EXCEPT ![c] = after[c]]
    /\ target' = [target EXCEPT ![c] = None]
    /\ after' = [after EXCEPT ![c] = "idle"]
    /\ subscribed' = [subscribed EXCEPT ![c] = FALSE]
    /\ UNCHANGED <<hand, clientUp, sharedVars, conn, listenOpen, monitorVars>>

-----------------------------------------------------------------------------
(* Monitor goroutines: run. *)

\* Mutant of Loop: the backend is not compared with nil.
LoopUnchecked(m) ==
    /\ mpc[m] = "loop"
    /\ cur' = [cur EXCEPT ![m] = backend[m]]
    /\ mpc' = [mpc EXCEPT ![m] = "read"]
    /\ UNCHANGED <<clientVars, sharedVars, conn, listenOpen, todo, mtarget>>

\* The head of the loop: stop when the backend was taken away.
Loop(m) ==
    /\ mpc[m] = "loop"
    /\ cur' = [cur EXCEPT ![m] = backend[m]]
    /\ mpc' = [mpc EXCEPT ![m] = IF backend[m] = None THEN "done" ELSE "read"]
    /\ UNCHANGED <<clientVars, sharedVars, conn, listenOpen, todo, mtarget>>

\* A notification arrives: fanOut takes a snapshot of the subscribers.
ReadNotification(m) ==
    /\ mpc[m] = "read"
    /\ conn[cur[m]] = "open"
    /\ todo' = [todo EXCEPT ![m] = subs[m]]
    /\ cur' = [cur EXCEPT ![m] = None]
    /\ mpc' = [mpc EXCEPT ![m] = "fanout"]
    /\ UNCHANGED <<clientVars, sharedVars, conn, listenOpen, mtarget>>

\* One client of the snapshot gets the notification.
Deliver(m, c) ==
    /\ mpc[m] = "fanout" /\ c \in todo[m]
    /\ clientUp[c]
    /\ todo' = [todo EXCEPT ![m] = @ \ {c}]
    /\ UNCHANGED <<clientVars, sharedVars, conn, listenOpen, mpc, cur, mtarget>>

\* Writing to it fails: it is removed from whichever monitor is registered,
\* and if that empties it this goroutine tears it down.
DeliverFails(m, c) ==
    /\ mpc[m] = "fanout" /\ c \in todo[m]
    /\ ~clientUp[c]
    /\ RemoveClientFromListen(c)
    /\ todo' = [todo EXCEPT ![m] = @ \ {c}]
    /\ IF Emptied(c)
         THEN /\ mtarget' = [mtarget EXCEPT ![m] = registered]
              /\ mpc' = [mpc EXCEPT ![m] = "teardown"]
         ELSE UNCHANGED <<mtarget, mpc>>
    /\ UNCHANGED <<clientVars, backend, conn, listenOpen, cur>>

MonitorTearsDown(m) ==
    /\ mpc[m] = "teardown"
    /\ TakeBackend(mtarget[m])
    /\ mpc' = [mpc EXCEPT ![m] = "wait"]
    /\ UNCHANGED <<clientVars, registered, subs, listenOpen, cur, todo, mtarget>>

MonitorTornDown(m) ==
    /\ mpc[m] = "wait"
    /\ mpc[mtarget[m]] = "done"
    /\ mpc' = [mpc EXCEPT ![m] = "fanout"]
    /\ mtarget' = [mtarget EXCEPT ![m] = None]
    /\ UNCHANGED <<clientVars, sharedVars, conn, listenOpen, cur, todo>>

FanOutEnd(m) ==
    /\ mpc[m] = "fanout" /\ todo[m] = {}
    /\ mpc' = [mpc EXCEPT ![m] = "loop"]
    /\ UNCHANGED <<clientVars, sharedVars, conn, listenOpen, cur, todo, mtarget>>

\* Reading fails: without subscribers the monitor was torn down and stops.
ReadError(m) ==
    /\ mpc[m] = "read"
    /\ conn[cur[m]] # "open"
    /\ cur' = [cur EXCEPT ![m] = None]
    /\ mpc' = [mpc EXCEPT ![m] = IF subs[m] = {} THEN "done" ELSE "reconnect"]
    /\ UNCHANGED <<clientVars, sharedVars, conn, listenOpen, todo, mtarget>>

\* reconnectListen needs a subscriber to find the Pool by.  The connection that
\* was lost is neither closed nor uncounted, and the new one is not counted.
Reconnect(m) ==
    /\ mpc[m] = "reconnect"
    /\ subs[m] # {}
    /\ \E k \in Conns : OpenListening(k) /\ cur' = [cur EXCEPT ![m] = k]
    /\ mpc' = [mpc EXCEPT ![m] = "store"]
    /\ UNCHANGED <<clientVars, sharedVars, listenOpen, todo, mtarget>>

StoreBackend(m) ==
    /\ mpc[m] = "store"
    /\ backend' = [backend EXCEPT ![m] = cur[m]]
    /\ cur' = [cur EXCEPT ![m] = None]
    /\ mpc' = [mpc EXCEPT ![m] = "loop"]
    /\ UNCHANGED <<clientVars, registered, subs, conn, listenOpen, todo, mtarget>>

\* Reconnecting fails: failListen deletes the entry of the channel, whichever
\* monitor it is, and takes a snapshot of its own subscribers,
FailListen(m) ==
    /\ mpc[m] = "reconnect"
    /\ subs[m] = {} \/ "refuse" \in Faults
    /\ registered' = None
    /\ todo' = [todo EXCEPT ![m] = subs[m]]
    /\ mpc' = [mpc EXCEPT ![m] = "fail"]
    /\ UNCHANGED <<clientVars, subs, backend, conn, listenOpen, cur, mtarget>>

\* which it then tells and closes.
FailClients(m) ==
    /\ mpc[m] = "fail"
    /\ clientUp' = [c \in Clients |-> clientUp[c] /\ c \notin todo[m]]
    /\ subscribed' = [c \in Clients |-> subscribed[c] /\ c \notin todo[m]]
    /\ todo' = [todo EXCEPT ![m] = {}]
    /\ mpc' = [mpc EXCEPT ![m] = "done"]
    /\ UNCHANGED <<pc, after, target, hand, sharedVars, conn, listenOpen, cur, mtarget>>

-----------------------------------------------------------------------------
(* The environment. *)

ConnectionLost(k) ==
    /\ "connLost" \in Faults
    /\ conn[k] = "open"
    /\ conn' = [conn EXCEPT ![k] = "dead"]
    /\ UNCHANGED <<clientVars, sharedVars, listenOpen, monitorVars>>

ClientLost(c) ==
    /\ "clientLost" \in Faults
    /\ clientUp[c]
    /\ clientUp' = [clientUp EXCEPT ![c] = FALSE]
    /\ UNCHANGED <<pc, after, target, hand, subscribed, sharedVars, conn, listenOpen,
                   monitorVars>>

-----------------------------------------------------------------------------

Init ==
    /\ pc = [c \in Clients |-> "gone"]
    /\ after = [c \in Clients |-> "idle"]
    /\ target = [c \in Clients |-> None]
    /\ hand = [c \in Clients |-> None]
    /\ subscribed = [c \in Clients |-> FALSE]
    /\ clientUp = [c \in Clients |-> FALSE]
    /\ registered = None
    /\ subs = [m \in Monitors |-> {}]
    /\ backend = [m \in Monitors |-> None]
    /\ conn = [k \in Conns |-> "closed"]
    /\ listenOpen = 0
    /\ mpc = [m \in Monitors |-> "none"]
    /\ cur = [m \in Monitors |-> None]
    /\ todo = [m \in Monitors |-> {}]
    /\ mtarget = [m \in Monitors |-> None]

\* What a client goroutine does inside a handler.
HandlerStep(c) ==
    \/ Join(c) \/ Dial(c) \/ DialFails(c) \/ RegisterLate(c) \/ Register(c)
    \/ Cleanup(c) \/ TearDown(c) \/ TornDown(c)

\* What a monitor goroutine does without anything arriving from the server.
MonitorStep(m) ==
    \/ Loop(m) \/ FanOutEnd(m) \/ MonitorTearsDown(m) \/ MonitorTornDown(m)
    \/ \E c \in Clients : Deliver(m, c) \/ DeliverFails(m, c)
    \/ ReadError(m) \/ Reconnect(m) \/ StoreBackend(m)
    \/ FailListen(m) \/ FailClients(m)

Next ==
    \/ \E c \in Clients :
          \/ Accept(c) \/ Listen(c) \/ Unlisten(c) \/ Disconnect(c)
          \/ HandlerStep(c) \/ ClientLost(c)
    \/ \E m \in Monitors : MonitorStep(m) \/ ReadNotification(m)
    \/ \E k \in Conns : ConnectionLost(k)

Spec == Init /\ [][Next]_vars

-----------------------------------------------------------------------------
(* Properties. *)

\* Every variable holds a value of its type, and a goroutine that reads has a
\* connection to read from.
TypeOK ==
    /\ pc \in [Clients -> {"gone", "idle", "join", "dial", "register", "cleanup",
                           "teardown", "wait"}]
    /\ after \in [Clients -> {"idle", "gone"}]
    /\ target \in [Clients -> Monitors \cup {None}]
    /\ hand \in [Clients -> Conns \cup {None}]
    /\ subscribed \in [Clients -> BOOLEAN]
    /\ clientUp \in [Clients -> BOOLEAN]
    /\ registered \in Monitors \cup {None}
    /\ subs \in [Monitors -> SUBSET Clients]
    /\ backend \in [Monitors -> Conns \cup {None}]
    /\ conn \in [Conns -> {"open", "dead", "closed"}]
    /\ listenOpen \in Int
    /\ mpc \in [Monitors -> {"none", "loop", "read", "fanout", "teardown", "wait",
                             "reconnect", "store", "fail", "done"}]
    /\ cur \in [Monitors -> Conns \cup {None}]
    /\ todo \in [Monitors -> SUBSET Clients]
    /\ mtarget \in [Monitors -> Monitors \cup {None}]
    /\ \A m \in Monitors : mpc[m] \in {"read", "store"} => cur[m] # None

\* The registered monitor works: it has subscribers and a backend, its goroutine
\* has not stopped, and nobody is tearing it down.  Clients that find it in
\* Listeners rely on that.
RegisteredRuns ==
    registered # None =>
        /\ subs[registered] # {}
        /\ backend[registered] # None
        /\ mpc[registered] \notin Finished \cup {"fail"}
        /\ \A c \in Clients : pc[c] \in {"teardown", "wait"} => target[c] # registered
        /\ \A m \in Monitors : mtarget[m] # registered

\* ListenOpen never falls behind the listen connections that are open, so the
\* budget of the target is not exceeded unnoticed.
Counted == Cardinality({k \in Conns : conn[k] = "open"}) <= listenOpen

\* A client whose LISTEN was acknowledged is a subscriber of the monitor of the
\* channel, until it leaves: notifications reach it.
Subscribed ==
    \A c \in Clients : pc[c] = "idle" /\ clientUp[c] /\ subscribed[c] =>
        registered # None /\ c \in subs[registered]
=============================================================================
